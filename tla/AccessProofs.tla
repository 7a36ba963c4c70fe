---------------------------- MODULE AccessProofs ----------------------------
(* Why those who come in are who they were, for any number of accounts,       *)
(* Google identities, requests and administrators; and what the queue of the  *)
(* mails they are sent may cost.                                              *)
(*                                                                            *)
(* Accounts.  A Google sign-in decides on what it read behind two locks, and  *)
(* a sign-up takes neither.  It still decides rightly: the lock of the        *)
(* subject keeps what user_identities says of it (Relies, OneSignIn), an      *)
(* account never stops being made or active (Grows), and the unique address   *)
(* is checked by the insert.  A session was given to an active account        *)
(* with a version the account had (Given), and versions only grow.            *)
(*                                                                            *)
(* Administrators.  Whoever holds the lock of beginAdminAccess was a super    *)
(* administrator when he took it, and nobody changes a row without the lock,  *)
(* so he still is one at his commit; as he cannot name himself, he is a super *)
(* administrator afterwards too.                                              *)
(*                                                                            *)
(* Public pages.  A page is kept under a token read after the question was    *)
(* put and before the page was read (StoredOK, FetchOK), so no answer is      *)
(* older than its question; and a flight belongs to one fetch from its        *)
(* registration to its answer, which wakes everybody (FlightsAreFlown), so    *)
(* whoever waits has somebody to wait for.                                    *)
(*                                                                            *)
(* The mail queue.  A place in the queue and a delivery under way are each    *)
(* good for one copy and one more place; claims and final updates pass them   *)
(* on, and only a lease that lapses makes a new one (MailOK).                 *)
(*                                                                            *)
(* Last, the three of MCAccess together: what its run checks holds of any     *)
(* instance.                                                                  *)
EXTENDS MCAccess, EmailOutbox, FiniteSetTheorems, TLAPS

------------------------------------------------------------------------------
(* Accounts.                                                                  *)

User == [made : BOOLEAN, active : BOOLEAN, subject : Subjects \cup {NoSubject},
         password : 0..(MaxResets + 1), version : 0..(MaxResets + 1),
         verifyLink : 0..MaxLinks, resetLink : 0..MaxLinks]
Request == [op : {"idle", "resend", "google", "welcome", "respond"},
            email : Emails \cup {NoEmail}, subject : Subjects \cup {NoSubject},
            found : Emails \cup {NoEmail}]
Link == [kind : {"verify", "reset"}, email : Emails, number : 1..MaxLinks]
ReferralRow == [attached : BOOLEAN, signup : BOOLEAN, provider : BOOLEAN, paid : BOOLEAN]
Session == [email : Emails, version : 0..(MaxResets + 1)]

\* A row is active, linked or mailed a link only after it was made, and every
\* new version of its sessions came with a new password
RowSound(rec) ==
    /\ rec.active => rec.made
    /\ rec.verifyLink # 0 => rec.made
    /\ rec.subject # NoSubject => rec.active
    /\ rec.version <= rec.password

\* What a request in progress relies on after it read its rows
Relies(q) ==
    /\ q.op = "resend" => q.email \in Emails /\ user[q.email].made
    /\ q.op \in {"welcome", "respond"} => q.email \in Emails /\ Active(q.email)
    /\ q.op = "google" =>
         /\ q.email \in Emails /\ q.subject \in Subjects
         /\ identity[q.subject] # NoEmail => q.found = identity[q.subject]

\* The lock of the subject is held by one Google sign-in
OneSignIn ==
    \A q, r \in Requests :
        request[q].op = "google" /\ request[r].op = "google"
            /\ request[q].subject = request[r].subject => q = r

\* A token was given to an active account, with a version the account had
Given(t) == Active(t.email) /\ t.version <= user[t.email].version

AccountsInv ==
    /\ TypeOK /\ IsFiniteSet(links)
    /\ \A e \in Emails : RowSound(user[e])
    /\ \A r \in Requests : Relies(request[r])
    /\ OneSignIn
    /\ \A t \in sessions : Given(t)
    /\ OneIdentity
    /\ RewardsMatch

\* What no step takes back: an account made stays made, an active one stays
\* active, and its sessions get a later version whenever its password changes
RowGrows(old, new) ==
    /\ old.made => new.made
    /\ old.active => /\ new.active /\ old.version <= new.version
                     /\ new.password # old.password => old.version < new.version
Grows == \A e \in Emails : RowGrows(user[e], user'[e])

LEMMA RowType == TypeOK => \A e \in Emails : user[e] \in User
BY DEF TypeOK, User

LEMMA RequestType == TypeOK => \A r \in Requests : request[r] \in Request
BY DEF TypeOK, Request

\* One row written: sound rows stay sound and the tokens given stay given
LEMMA RowStep ==
    ASSUME AccountsInv, NEW e \in Emails, NEW rec \in User, RowSound(rec),
           user' = [user EXCEPT ![e] = rec], RowGrows(user[e], rec), UNCHANGED sessions
    PROVE  /\ user' \in [Emails -> User]
           /\ user'[e] = rec /\ \A f \in Emails : f # e => user'[f] = user[f]
           /\ \A f \in Emails : RowSound(user'[f])
           /\ Grows
           /\ \A t \in sessions' : Given(t)'
<1>1. user \in [Emails -> User] BY DEF AccountsInv, TypeOK, User
<1>2. user'[e] = rec /\ \A f \in Emails : f # e => user'[f] = user[f] BY <1>1
<1>3. user' \in [Emails -> User] BY <1>1
<1>4. \A f \in Emails : RowSound(user'[f]) BY <1>2 DEF AccountsInv
<1>5. Grows
  <2>1. ASSUME NEW f \in Emails, f # e PROVE RowGrows(user[f], user'[f])
    <3>1. user[f] \in User BY <1>1
    <3> QED BY <1>2, <2>1, <3>1 DEF RowGrows, User
  <2> QED BY <1>2, <2>1 DEF Grows
<1>6. \A t \in sessions' : Given(t)'
  <2>1. ASSUME NEW t \in sessions PROVE Given(t)'
    <3>1. t.email \in Emails /\ t.version \in Nat BY DEF AccountsInv, TypeOK
    <3>2. Active(t.email) /\ t.version <= user[t.email].version
      BY <2>1 DEF AccountsInv, Given
    <3>3. RowGrows(user[t.email], user'[t.email]) BY <1>5, <3>1 DEF Grows
    <3>4. user[t.email] \in User /\ user'[t.email] \in User BY <1>1, <1>3, <3>1
    <3> QED BY <3>1, <3>2, <3>3, <3>4 DEF Given, Active, RowGrows, User
  <2> QED BY <2>1
<1> QED BY <1>2, <1>3, <1>4, <1>5, <1>6

\* No row written
LEMMA RowsStay ==
    ASSUME AccountsInv, UNCHANGED user
    PROVE  /\ user' \in [Emails -> User]
           /\ \A f \in Emails : RowSound(user'[f])
           /\ Grows
<1>1. user \in [Emails -> User] BY DEF AccountsInv, TypeOK, User
<1>2. \A f \in Emails : RowSound(user'[f]) BY DEF AccountsInv
<1>3. Grows
  <2>1. ASSUME NEW f \in Emails PROVE RowGrows(user[f], user'[f])
    <3>1. user[f] \in User BY <1>1
    <3> QED BY <3>1 DEF RowGrows, User
  <2> QED BY <2>1 DEF Grows
<1> QED BY <1>1, <1>2, <1>3

\* A request keeps what it relies on unless the identity of its subject changes
LEMMA StillRelies ==
    ASSUME NEW q \in Request, Relies(q), Grows,
           q.op = "google" => identity'[q.subject] = identity[q.subject]
    PROVE  Relies(q)'
<1>1. \A e \in Emails : /\ user[e].made => user'[e].made
                        /\ user[e].active => user'[e].active
  BY DEF Grows, RowGrows
<1> QED BY <1>1 DEF Relies, Active

\* One request moves on; an identity changes only under its own lock
LEMMA RequestStep ==
    ASSUME AccountsInv, Grows, NEW r \in Requests, NEW q \in Request,
           request' = [request EXCEPT ![r] = q], Relies(q)',
           q.op = "google" => \A p \in Requests : request[p].op = "google" =>
               request[p].subject # q.subject,
           \A s \in Subjects : identity'[s] # identity[s] =>
               request[r].op = "google" /\ request[r].subject = s
    PROVE  /\ request' \in [Requests -> Request]
           /\ \A p \in Requests : Relies(request[p])'
           /\ OneSignIn'
<1>1. request \in [Requests -> Request] BY DEF AccountsInv, TypeOK, Request
<1>2. request'[r] = q /\ \A p \in Requests : p # r => request'[p] = request[p] BY <1>1
<1>3. request' \in [Requests -> Request] BY <1>1
<1>4. ASSUME NEW p \in Requests, p # r PROVE Relies(request[p])'
  <2>1. request[p] \in Request /\ Relies(request[p]) BY <1>1 DEF AccountsInv
  <2>2. request[p].op = "google" => request[p].subject \in Subjects BY <2>1 DEF Relies
  <2>3. request[p].op = "google" =>
            identity'[request[p].subject] = identity[request[p].subject]
    BY <1>4, <2>2 DEF AccountsInv, OneSignIn
  <2> DEFINE old == request[p]
  <2>4. Relies(old)' BY <2>1, <2>3, StillRelies
  <2>5. request'[p] = request[p] BY <1>2, <1>4
  <2> QED BY <2>4, <2>5 DEF Relies, Active
<1>5. Relies(request[r])' BY <1>2 DEF Relies, Active
<1>6. OneSignIn' BY <1>2 DEF AccountsInv, OneSignIn
<1> QED BY <1>3, <1>4, <1>5, <1>6

LEMMA RequestsStay ==
    ASSUME AccountsInv, Grows, UNCHANGED <<request, identity>>
    PROVE  /\ request' \in [Requests -> Request]
           /\ \A p \in Requests : Relies(request[p])'
           /\ OneSignIn'
<1>1. request \in [Requests -> Request] BY DEF AccountsInv, TypeOK, Request
<1>2. ASSUME NEW p \in Requests PROVE Relies(request[p])'
  <2>1. request[p] \in Request /\ Relies(request[p]) BY <1>1 DEF AccountsInv
  <2>2. \A e \in Emails : /\ user[e].made => user'[e].made
                          /\ user[e].active => user'[e].active
    BY DEF Grows, RowGrows
  <2> QED BY <2>1, <2>2 DEF Relies, Active
<1>3. OneSignIn' BY DEF AccountsInv, OneSignIn
<1> QED BY <1>1, <1>2, <1>3

\* Whoever is active, made or linked to a subject, for every account
LEMMA IdentityStays ==
    ASSUME AccountsInv, UNCHANGED identity,
           \A e \in Emails : user'[e].subject = user[e].subject,
           \A e \in Emails : user[e].active => user'[e].active
    PROVE  OneIdentity'
BY DEF AccountsInv, OneIdentity, Active

\* A subject and an account that had no identity are linked
LEMMA IdentityLinked ==
    ASSUME AccountsInv, NEW e \in Emails, NEW s \in Subjects,
           identity[s] = NoEmail, user[e].subject = NoSubject,
           identity' = [identity EXCEPT ![s] = IF @ = NoEmail THEN e ELSE @],
           user'[e].subject = s, user'[e].active,
           \A f \in Emails : f # e => user'[f] = user[f]
    PROVE  OneIdentity'
<1>1. identity \in [Subjects -> Emails \cup {NoEmail}] BY DEF AccountsInv, TypeOK
<1>2. identity'[s] = e /\ \A z \in Subjects : z # s => identity'[z] = identity[z] BY <1>1
<1>3. s # NoSubject /\ e # NoEmail BY AccountsAssumption
<1>4. \A f \in Emails, z \in Subjects : identity[z] = f <=> user[f].subject = z
  BY DEF AccountsInv, OneIdentity
<1>5. ASSUME NEW f \in Emails, NEW z \in Subjects
      PROVE  identity'[z] = f <=> user'[f].subject = z
  <2>1. CASE f = e /\ z = s BY <1>2, <2>1
  <2>2. CASE f = e /\ z # s
    <3>1. identity[z] # e BY <1>4, AccountsAssumption
    <3> QED BY <1>2, <2>2, <3>1
  <2>3. CASE f # e /\ z = s
    <3>1. user[f].subject # s BY <1>4, AccountsAssumption
    <3> QED BY <1>2, <2>3, <3>1
  <2>4. CASE f # e /\ z # s BY <1>2, <1>4, <2>4
  <2> QED BY <2>1, <2>2, <2>3, <2>4
<1>6. \A f \in Emails : user'[f].subject # NoSubject => user'[f].active
  BY DEF AccountsInv, OneIdentity, Active
<1> QED BY <1>5, <1>6 DEF OneIdentity, Active

\* What RewardsMatch says of one account, from its rows
Earned(active, rec, entries, on) ==
    /\ \A what \in Rewards : entries[what] # 0 => active
    /\ rec.signup <=> entries["referral_signup"] = 1
    /\ rec.provider <=> entries["referral_provider"] = 1
    /\ on /\ rec.attached /\ active => rec.signup /\ (rec.paid => rec.provider)

LEMMA RewardsEarned ==
    RewardsMatch <=>
        \A e \in Emails : Earned(user[e].active, referral[e], ledger[e], enabled = "always")
BY DEF RewardsMatch, Earned, Active

\* The triggers give an active account what it has earned and nothing else
LEMMA ReconcileKeeps ==
    ASSUME AccountsInv, NEW e \in Emails, NEW rec \in ReferralRow,
           rec.signup = referral[e].signup, rec.provider = referral[e].provider,
           Reconcile(e, rec, TRUE), UNCHANGED enabled, user'[e].active,
           \A f \in Emails : f # e => user'[f].active = user[f].active
    PROVE  /\ referral' \in [Emails -> ReferralRow]
           /\ ledger' \in [Emails -> [Rewards -> 0..1]]
           /\ RewardsMatch'
<1>1. /\ referral \in [Emails -> ReferralRow] /\ ledger \in [Emails -> [Rewards -> 0..1]]
      /\ "referral_signup" \in Rewards /\ "referral_provider" \in Rewards
  BY DEF AccountsInv, TypeOK, ReferralRow, Rewards
<1> DEFINE given == On /\ rec.attached
           newRow == IF given THEN [rec EXCEPT !.signup = TRUE, !.provider = @ \/ rec.paid]
                     ELSE rec
           entries == IF given
                      THEN IF rec.paid
                           THEN [ledger[e] EXCEPT !["referral_signup"] = 1,
                                                  !["referral_provider"] = 1]
                           ELSE [ledger[e] EXCEPT !["referral_signup"] = 1]
                      ELSE ledger[e]
<1>2. referral' = [referral EXCEPT ![e] = newRow] BY DEF Reconcile
<1>3. ledger' = [ledger EXCEPT ![e] = entries]
  <2>1. CASE given /\ rec.paid BY <1>1, <2>1 DEF Reconcile, Award
  <2>2. CASE given /\ ~rec.paid BY <1>1, <2>2 DEF Reconcile, Award
  <2>3. CASE ~given BY <1>1, <2>3 DEF Reconcile
  <2> QED BY <2>1, <2>2, <2>3
<1>4. newRow \in ReferralRow BY DEF ReferralRow
<1>5. ledger[e] \in [Rewards -> 0..1] BY <1>1
<1>6. entries \in [Rewards -> 0..1] BY <1>1, <1>5
<1>7. /\ referral' \in [Emails -> ReferralRow] /\ referral'[e] = newRow
      /\ \A f \in Emails : f # e => referral'[f] = referral[f]
  BY <1>1, <1>2, <1>4
<1>8. /\ ledger' \in [Emails -> [Rewards -> 0..1]] /\ ledger'[e] = entries
      /\ \A f \in Emails : f # e => ledger'[f] = ledger[f]
  BY <1>1, <1>3, <1>6
<1>9. \A f \in Emails : Earned(user[f].active, referral[f], ledger[f], enabled = "always")
  BY RewardsEarned DEF AccountsInv
<1>10. Earned(TRUE, newRow, entries, enabled = "always")
  <2>1. Earned(user[e].active, referral[e], ledger[e], enabled = "always") BY <1>9
  <2>2. CASE given
    <3>1. newRow.signup /\ newRow.paid = rec.paid
             /\ newRow.provider = (rec.provider \/ rec.paid)
      BY <2>2 DEF ReferralRow
    <3>2. /\ entries["referral_signup"] = 1
          /\ rec.paid => entries["referral_provider"] = 1
          /\ ~rec.paid => entries["referral_provider"] = ledger[e]["referral_provider"]
      BY <1>1, <1>5, <2>2
    <3>3. newRow.provider <=> entries["referral_provider"] = 1
      BY <2>1, <3>1, <3>2 DEF Earned
    <3> QED BY <2>2, <3>1, <3>2, <3>3 DEF Earned
  <2>3. CASE ~given
    <3>1. newRow = rec /\ entries = ledger[e] BY <2>3
    <3>2. enabled = "always" => On BY DEF On
    <3> QED BY <2>1, <2>3, <3>1, <3>2 DEF Earned
  <2> QED BY <2>2, <2>3
<1>11. \A f \in Emails : Earned(user'[f].active, referral'[f], ledger'[f], enabled' = "always")
  <2>1. ASSUME NEW f \in Emails, f # e
        PROVE  Earned(user'[f].active, referral'[f], ledger'[f], enabled' = "always")
    BY <1>7, <1>8, <1>9, <2>1 DEF Earned
  <2>2. Earned(user'[e].active, referral'[e], ledger'[e], enabled' = "always")
    BY <1>7, <1>8, <1>10 DEF Earned
  <2> QED BY <2>1, <2>2
<1>12. RewardsMatch' BY <1>11 DEF RewardsMatch, Earned, Active
<1> QED BY <1>7, <1>8, <1>12

LEMMA RewardsStay ==
    ASSUME AccountsInv, UNCHANGED <<referral, ledger>>,
           enabled' = "always" => enabled = "always",
           \A e \in Emails : user'[e].active = user[e].active
    PROVE  /\ referral' \in [Emails -> ReferralRow]
           /\ ledger' \in [Emails -> [Rewards -> 0..1]]
           /\ RewardsMatch'
<1>1. RewardsMatch' BY DEF AccountsInv, RewardsMatch, Active
<1> QED BY <1>1 DEF AccountsInv, TypeOK, ReferralRow

\* A link just mailed has a number of its own, within the bound
LEMMA MailStep ==
    ASSUME AccountsInv, NEW e \in Emails, NEW kind \in {"verify", "reset"},
           NewLink <= MaxLinks, Mail(kind, e)
    PROVE  /\ NewLink \in 1..MaxLinks
           /\ links' \subseteq Link
           /\ IsFiniteSet(links')
<1>1. IsFiniteSet(links) BY DEF AccountsInv
<1>2. Cardinality(links) \in Nat BY <1>1, FS_CardinalityType
<1>3. NewLink \in 1..MaxLinks BY <1>2, AccountsAssumption DEF NewLink
<1>4. links' = links \cup {[kind |-> kind, email |-> e, number |-> NewLink]} BY DEF Mail
<1>5. IsFiniteSet(links') BY <1>1, <1>4, FS_AddElement
<1>6. links \subseteq Link
  BY DEF AccountsInv, TypeOK, Link
<1> QED BY <1>3, <1>4, <1>5, <1>6 DEF Link

LEMMA LinksStay ==
    ASSUME AccountsInv, UNCHANGED links
    PROVE  /\ links' \subseteq Link
           /\ IsFiniteSet(links')
BY DEF AccountsInv, TypeOK, Link

\* The parts of a step put together
LEMMA PartsKeep ==
    ASSUME user' \in [Emails -> User], \A e \in Emails : RowSound(user'[e]),
           identity' \in [Subjects -> Emails \cup {NoEmail}],
           links' \subseteq Link,
           IsFiniteSet(links'),
           request' \in [Requests -> Request], \A r \in Requests : Relies(request[r])',
           OneSignIn',
           sessions' \subseteq Session, \A t \in sessions' : Given(t)',
           referral' \in [Emails -> ReferralRow],
           ledger' \in [Emails -> [Rewards -> 0..1]],
           enabled' \in {"always", "paused", "resumed"},
           OneIdentity', RewardsMatch'
    PROVE  AccountsInv'
<1>1. TypeOK' BY DEF TypeOK, User, Link, Request, Session, ReferralRow
<1> QED BY <1>1 DEF AccountsInv

LEMMA Typing ==
    ASSUME AccountsInv
    PROVE  /\ user \in [Emails -> User] /\ \A e \in Emails : user[e] \in User
           /\ identity \in [Subjects -> Emails \cup {NoEmail}]
           /\ request \in [Requests -> Request] /\ \A r \in Requests : request[r] \in Request
           /\ sessions \subseteq Session
           /\ referral \in [Emails -> ReferralRow]
           /\ \A e \in Emails : referral[e] \in ReferralRow
           /\ ledger \in [Emails -> [Rewards -> 0..1]]
           /\ enabled \in {"always", "paused", "resumed"}
           /\ \A e \in Emails : RowSound(user[e])
           /\ \A r \in Requests : Relies(request[r])
           /\ \A t \in sessions : Given(t)
BY DEF AccountsInv, TypeOK, User, Request, Session, ReferralRow
\* A request moves on and nothing else does
LEMMA OnlyRequest ==
    ASSUME AccountsInv, NEW r \in Requests, NEW q \in Request, Relies(q)',
           request' = [request EXCEPT ![r] = q],
           q.op = "google" => \A p \in Requests : request[p].op = "google" =>
               request[p].subject # q.subject,
           UNCHANGED <<user, identity, links, sessions, referral, ledger, enabled>>
    PROVE  AccountsInv' /\ Grows
<1>1. /\ user' \in [Emails -> User] /\ \A f \in Emails : RowSound(user'[f])
      /\ Grows
  BY RowsStay
<1>2. /\ request' \in [Requests -> Request] /\ \A p \in Requests : Relies(request[p])'
      /\ OneSignIn'
  BY <1>1, RequestStep
<1>3. OneIdentity' BY IdentityStays
<1>4. /\ referral' \in [Emails -> ReferralRow] /\ ledger' \in [Emails -> [Rewards -> 0..1]]
      /\ RewardsMatch'
  BY RewardsStay
<1>5. links' \subseteq Link
         /\ IsFiniteSet(links')
  BY LinksStay
<1>6. /\ identity' \in [Subjects -> Emails \cup {NoEmail}] /\ sessions' \subseteq Session
      /\ enabled' \in {"always", "paused", "resumed"}
  BY Typing
<1>7. \A t \in sessions' : Given(t)' BY Typing DEF Given, Active
<1>8. AccountsInv' BY <1>1, <1>2, <1>3, <1>4, <1>5, <1>6, <1>7, PartsKeep
<1> QED BY <1>1, <1>8

\* A row is written that stays as active and as linked as it was, and a
\* request at most ends with it
LEMMA RowOnly ==
    ASSUME AccountsInv, NEW e \in Emails, NEW rec \in User, RowSound(rec),
           RowGrows(user[e], rec), rec.active = user[e].active,
           rec.subject = user[e].subject, user' = [user EXCEPT ![e] = rec],
           links' \subseteq Link,
           IsFiniteSet(links'),
           request' = request \/ \E r \in Requests : request' = [request EXCEPT ![r] = Idle],
           UNCHANGED <<identity, sessions, referral, ledger, enabled>>
    PROVE  AccountsInv' /\ Grows
<1>1. /\ user' \in [Emails -> User] /\ user'[e] = rec
      /\ \A f \in Emails : f # e => user'[f] = user[f]
      /\ \A f \in Emails : RowSound(user'[f])
      /\ Grows /\ \A t \in sessions' : Given(t)'
  BY RowStep
<1>2. \A f \in Emails : user'[f].active = user[f].active /\ user'[f].subject = user[f].subject
  BY <1>1
<1>3. OneIdentity' BY <1>2, IdentityStays
<1>4. /\ referral' \in [Emails -> ReferralRow] /\ ledger' \in [Emails -> [Rewards -> 0..1]]
      /\ RewardsMatch'
  BY <1>2, RewardsStay
<1>5. /\ request' \in [Requests -> Request] /\ \A p \in Requests : Relies(request[p])'
      /\ OneSignIn'
  <2>1. CASE request' = request BY <1>1, <2>1, RequestsStay
  <2>2. CASE \E r \in Requests : request' = [request EXCEPT ![r] = Idle]
    <3>1. PICK r \in Requests : request' = [request EXCEPT ![r] = Idle] BY <2>2
    <3>2. Idle \in Request /\ Idle.op = "idle" BY DEF Request, Idle
    <3>3. Relies(Idle)' BY <3>2 DEF Relies
    <3> QED BY <1>1, <3>1, <3>2, <3>3, RequestStep
  <2> QED BY <2>1, <2>2
<1>6. /\ identity' \in [Subjects -> Emails \cup {NoEmail}] /\ sessions' \subseteq Session
      /\ enabled' \in {"always", "paused", "resumed"}
  BY Typing
<1>7. AccountsInv' BY <1>1, <1>3, <1>4, <1>5, <1>6, PartsKeep
<1> QED BY <1>1, <1>7

------------------------------------------------------------------------------
(* Sign-up and the links mailed.                                              *)

LEMMA SignupKeeps ==
    ASSUME AccountsInv, NEW e \in Emails, NEW referred \in BOOLEAN, Signup(e, referred)
    PROVE  AccountsInv' /\ Grows
<1> DEFINE rec == [NoUser EXCEPT !.made = TRUE, !.password = 1, !.verifyLink = NewLink]
           ref == [referral[e] EXCEPT !.attached = referred]
<1>1. NewLink \in 1..MaxLinks /\ links' \subseteq Link /\ IsFiniteSet(links')
  BY MailStep DEF Signup
<1>2. rec \in User /\ RowSound(rec) /\ rec.active = FALSE /\ rec.subject = NoSubject
  <2>1. /\ rec.made /\ rec.active = FALSE /\ rec.subject = NoSubject /\ rec.password = 1
        /\ rec.version = 0 /\ rec.verifyLink = NewLink /\ rec.resetLink = 0
    BY DEF NoUser
  <2>2. /\ 1 \in 0..(MaxResets + 1) /\ 0 \in 0..(MaxResets + 1)
        /\ NewLink \in 0..MaxLinks /\ 0 \in 0..MaxLinks
    BY <1>1, AccountsAssumption
  <2>3. NoUser \in User BY <2>2 DEF NoUser, User
  <2>4. rec \in User BY <2>2, <2>3 DEF User
  <2> QED BY <2>1, <2>4 DEF RowSound
<1>3. ~user[e].made /\ ~user[e].active /\ user[e].subject = NoSubject
  BY Typing DEF Signup, RowSound
<1>4. UNCHANGED <<identity, request, sessions, enabled>> BY DEF Signup
<1>5. user' = [user EXCEPT ![e] = rec] BY DEF Signup
<1>6. /\ user' \in [Emails -> User] /\ user'[e] = rec
      /\ \A f \in Emails : f # e => user'[f] = user[f]
      /\ \A f \in Emails : RowSound(user'[f])
      /\ Grows /\ \A t \in sessions' : Given(t)'
  BY <1>2, <1>3, <1>4, <1>5, RowStep DEF RowGrows
<1>7. OneIdentity' BY <1>2, <1>3, <1>4, <1>6, IdentityStays
<1>8. /\ request' \in [Requests -> Request] /\ \A p \in Requests : Relies(request[p])'
      /\ OneSignIn'
  BY <1>4, <1>6, RequestsStay
<1>9. ref \in ReferralRow /\ ref.signup = referral[e].signup /\ ref.provider = referral[e].provider
  BY Typing DEF ReferralRow
<1>10. Reconcile(e, ref, FALSE) BY DEF Signup
<1>11. /\ referral' \in [Emails -> ReferralRow] /\ ledger' \in [Emails -> [Rewards -> 0..1]]
       /\ RewardsMatch'
  <2>1. referral' = [referral EXCEPT ![e] = ref] /\ ledger' = ledger BY <1>10 DEF Reconcile
  <2>2. \A f \in Emails : user'[f].active = user[f].active BY <1>2, <1>3, <1>6, Typing DEF User
  <2>3. /\ referral' \in [Emails -> ReferralRow] /\ referral'[e] = ref
        /\ \A f \in Emails : f # e => referral'[f] = referral[f]
    BY <1>9, <2>1, Typing
  <2>4. RewardsMatch'
    BY <1>2, <1>4, <1>6, <1>9, <2>1, <2>2, <2>3 DEF AccountsInv, RewardsMatch, Active
  <2> QED BY <2>1, <2>3, <2>4, Typing
<1>12. /\ identity' \in [Subjects -> Emails \cup {NoEmail}] /\ sessions' \subseteq Session
       /\ enabled' \in {"always", "paused", "resumed"}
  BY <1>4, Typing
<1>13. AccountsInv' BY <1>1, <1>6, <1>7, <1>8, <1>11, <1>12, PartsKeep
<1> QED BY <1>6, <1>13

LEMMA BeginResendKeeps ==
    ASSUME AccountsInv, NEW r \in Requests, NEW e \in Emails, BeginResend(r, e)
    PROVE  AccountsInv' /\ Grows
<1> DEFINE q == [Idle EXCEPT !.op = "resend", !.email = e]
<1>1. UNCHANGED <<user, identity, links, sessions, referral, ledger, enabled>>
  BY DEF BeginResend
<1>2. q \in Request /\ q.op = "resend" /\ q.email = e BY DEF Request, Idle
<1>3. user[e].made /\ request' = [request EXCEPT ![r] = q] BY DEF BeginResend
<1>4. Relies(q)' BY <1>1, <1>2, <1>3 DEF Relies
<1> QED BY <1>1, <1>2, <1>3, <1>4, OnlyRequest

LEMMA ResendKeeps ==
    ASSUME AccountsInv, NEW r \in Requests, ResendVerification(r)
    PROVE  AccountsInv' /\ Grows
<1>1. PICK e \in Emails : e = request[r].email /\ user[e].made
  BY Typing DEF Relies, ResendVerification
<1> DEFINE rec == [user[e] EXCEPT !.verifyLink = NewLink]
<1>2. NewLink \in 1..MaxLinks /\ links' \subseteq Link /\ IsFiniteSet(links')
  BY <1>1, MailStep DEF ResendVerification
<1>3. user[e] \in User /\ RowSound(user[e]) BY Typing
<1>4. /\ rec \in User /\ RowSound(rec) /\ RowGrows(user[e], rec)
      /\ rec.active = user[e].active /\ rec.subject = user[e].subject
  BY <1>1, <1>2, <1>3 DEF User, RowSound, RowGrows
<1>5. UNCHANGED <<identity, sessions, referral, ledger, enabled>> BY DEF ResendVerification
<1>6. user' = [user EXCEPT ![e] = rec] BY <1>1, Typing DEF ResendVerification
<1>7. request' = [request EXCEPT ![r] = Idle] BY DEF ResendVerification
<1> QED BY <1>2, <1>4, <1>5, <1>6, <1>7, RowOnly
\* An account is active now, as it was or made or verified by the step, with a
\* row that stays sound; a request leads on, and the triggers run
LEMMA ActiveStep ==
    ASSUME AccountsInv, NEW e \in Emails, NEW rec \in User, RowSound(rec),
           RowGrows(user[e], rec), rec.active, user' = [user EXCEPT ![e] = rec],
           NEW ref \in ReferralRow, ref.signup = referral[e].signup,
           ref.provider = referral[e].provider, Reconcile(e, ref, TRUE),
           identity' \in [Subjects -> Emails \cup {NoEmail}], OneIdentity',
           request' \in [Requests -> Request] /\ \A p \in Requests : Relies(request[p])',
           OneSignIn',
           UNCHANGED <<links, sessions, enabled>>
    PROVE  AccountsInv' /\ Grows
<1>1. /\ user' \in [Emails -> User] /\ user'[e] = rec
      /\ \A f \in Emails : f # e => user'[f] = user[f]
      /\ \A f \in Emails : RowSound(user'[f])
      /\ Grows /\ \A t \in sessions' : Given(t)'
  BY RowStep
<1>2. user'[e].active /\ \A f \in Emails : f # e => user'[f].active = user[f].active BY <1>1
<1>3. /\ referral' \in [Emails -> ReferralRow] /\ ledger' \in [Emails -> [Rewards -> 0..1]]
      /\ RewardsMatch'
  BY <1>2, ReconcileKeeps
<1>4. links' \subseteq Link
         /\ IsFiniteSet(links')
  BY LinksStay
<1>5. sessions' \subseteq Session /\ enabled' \in {"always", "paused", "resumed"} BY Typing
<1>6. AccountsInv' BY <1>1, <1>3, <1>4, <1>5, PartsKeep
<1> QED BY <1>1, <1>6

LEMMA VerifyKeeps ==
    ASSUME AccountsInv, NEW r \in Requests, NEW link \in links, VerifyEmail(r, link)
    PROVE  AccountsInv' /\ Grows
<1>1. PICK e \in Emails : e = link.email /\ user[e].verifyLink = link.number /\ link.number # 0
  BY DEF AccountsInv, TypeOK, VerifyEmail
<1>2. user[e] \in User /\ RowSound(user[e]) /\ user[e].made BY <1>1, Typing DEF RowSound
<1>3. PICK rec : rec = [user[e] EXCEPT !.active = TRUE, !.verifyLink = 0] OBVIOUS
<1>4. /\ rec \in User /\ rec.active /\ rec.subject = user[e].subject
      /\ RowSound(rec) /\ RowGrows(user[e], rec)
  <2>1. 0 \in 0..MaxLinks BY AccountsAssumption
  <2>2. rec \in User BY <1>2, <1>3, <2>1 DEF User
  <2>3. /\ rec.made = user[e].made /\ rec.active = TRUE /\ rec.subject = user[e].subject
        /\ rec.version = user[e].version /\ rec.password = user[e].password
        /\ rec.verifyLink = 0
    BY <1>2, <1>3 DEF User
  <2>4. user[e].version \in Nat BY <1>2 DEF User
  <2> QED BY <1>2, <2>2, <2>3, <2>4 DEF RowSound, RowGrows
<1>5. user' = [user EXCEPT ![e] = rec] BY <1>1, <1>3, Typing DEF VerifyEmail
<1>6. UNCHANGED <<identity, links, sessions, enabled>> BY DEF VerifyEmail
<1>7. /\ user'[e] = rec /\ \A f \in Emails : f # e => user'[f] = user[f]
      /\ Grows
  BY <1>4, <1>5, <1>6, RowStep
<1>8. OneIdentity' BY <1>4, <1>6, <1>7, IdentityStays
<1>9. /\ request' \in [Requests -> Request] /\ \A p \in Requests : Relies(request[p])'
      /\ OneSignIn'
  <2>1. PICK q : q = [Idle EXCEPT !.op = "welcome", !.email = e] OBVIOUS
  <2>2. q \in Request /\ q.op = "welcome" /\ q.email = e BY <2>1 DEF Request, Idle
  <2>3. Relies(q)' BY <1>4, <1>7, <2>2 DEF Relies, Active
  <2>4. request' = [request EXCEPT ![r] = q] BY <1>1, <2>1 DEF VerifyEmail
  <2> QED BY <1>6, <1>7, <2>2, <2>3, <2>4, RequestStep
<1>10. referral[e] \in ReferralRow BY Typing
<1>11. Reconcile(e, referral[e], TRUE) BY <1>1 DEF VerifyEmail
<1>12. identity' \in [Subjects -> Emails \cup {NoEmail}] BY <1>6, Typing
<1> QED BY <1>4, <1>5, <1>6, <1>8, <1>9, <1>10, <1>11, <1>12, ActiveStep

------------------------------------------------------------------------------
(* Passwords and sessions.                                                    *)

LEMMA ForgotKeeps ==
    ASSUME AccountsInv, NEW e \in Emails, ForgotPassword(e)
    PROVE  AccountsInv' /\ Grows
<1>1. NewLink \in 1..MaxLinks /\ links' \subseteq Link /\ IsFiniteSet(links')
  BY MailStep DEF ForgotPassword
<1> DEFINE rec == [user[e] EXCEPT !.resetLink = NewLink]
<1>2. user[e] \in User /\ RowSound(user[e]) BY Typing
<1>3. /\ rec \in User /\ RowSound(rec) /\ RowGrows(user[e], rec)
      /\ rec.active = user[e].active /\ rec.subject = user[e].subject
  BY <1>1, <1>2 DEF User, RowSound, RowGrows
<1>4. UNCHANGED <<identity, request, sessions, referral, ledger, enabled>>
  BY DEF ForgotPassword
<1>5. user' = [user EXCEPT ![e] = rec] BY Typing DEF ForgotPassword
<1> QED BY <1>1, <1>3, <1>4, <1>5, RowOnly

LEMMA ResetKeeps ==
    ASSUME AccountsInv, NEW link \in links, ResetPassword(link)
    PROVE  AccountsInv' /\ Grows
<1>1. PICK e \in Emails : e = link.email BY DEF AccountsInv, TypeOK
<1>2. PICK rec : rec = [user[e] EXCEPT !.password = @ + 1, !.resetLink = 0, !.version = @ + 1]
  OBVIOUS
<1>3. user[e] \in User /\ RowSound(user[e]) /\ user[e].password <= MaxResets
  BY <1>1, Typing DEF ResetPassword
<1>4. /\ rec.made = user[e].made /\ rec.active = user[e].active
      /\ rec.subject = user[e].subject /\ rec.verifyLink = user[e].verifyLink
      /\ rec.password = user[e].password + 1 /\ rec.version = user[e].version + 1
      /\ rec.resetLink = 0
  BY <1>2, <1>3 DEF User
<1>5. user[e].password \in Nat /\ user[e].version \in Nat /\ user[e].version <= user[e].password
  BY <1>3 DEF User, RowSound
<1>6. /\ user[e].password + 1 \in 0..(MaxResets + 1)
      /\ user[e].version + 1 \in 0..(MaxResets + 1) /\ 0 \in 0..MaxLinks
  BY <1>3, <1>5, AccountsAssumption
<1>7. rec \in User BY <1>2, <1>3, <1>6 DEF User
<1>8. RowSound(rec) /\ RowGrows(user[e], rec) BY <1>3, <1>4, <1>5 DEF RowSound, RowGrows
<1>9. UNCHANGED <<identity, links, request, sessions, referral, ledger, enabled>>
  BY DEF ResetPassword
<1>10. user' = [user EXCEPT ![e] = rec] BY <1>1, <1>2, Typing DEF ResetPassword
<1>11. links' \subseteq Link
         /\ IsFiniteSet(links')
  BY <1>9, LinksStay
<1> QED BY <1>4, <1>7, <1>8, <1>9, <1>10, <1>11, RowOnly

LEMMA LoginKeeps ==
    ASSUME AccountsInv, NEW r \in Requests, NEW e \in Emails, Login(r, e)
    PROVE  AccountsInv' /\ Grows
<1>1. UNCHANGED <<user, identity, links, sessions, referral, ledger, enabled>> BY DEF Login
<1> DEFINE q == [Idle EXCEPT !.op = "respond", !.email = e]
<1>2. q \in Request /\ q.op = "respond" /\ q.email = e BY DEF Request, Idle
<1>3. Active(e) /\ request' = [request EXCEPT ![r] = q] BY DEF Login
<1>4. Relies(q)' BY <1>1, <1>2, <1>3 DEF Relies, Active
<1> QED BY <1>1, <1>2, <1>3, <1>4, OnlyRequest

LEMMA RespondKeeps ==
    ASSUME AccountsInv, NEW r \in Requests, RespondSession(r)
    PROVE  AccountsInv' /\ Grows
<1>1. PICK e \in Emails : e = request[r].email /\ Active(e)
  BY Typing DEF Relies, RespondSession
<1>2. UNCHANGED <<user, identity, links, referral, ledger, enabled>> BY DEF RespondSession
<1>3. user[e] \in User BY Typing
<1>4. PICK t \in Session : t = [email |-> e, version |-> user[e].version]
  BY <1>3 DEF Session, User
<1>5. sessions' = sessions \cup {t} BY <1>1, <1>4 DEF RespondSession
<1>6. /\ user' \in [Emails -> User] /\ \A f \in Emails : RowSound(user'[f])
      /\ Grows
  BY <1>2, RowsStay
<1>7. Idle \in Request /\ Idle.op = "idle" BY DEF Request, Idle
<1>8. Relies(Idle)' BY <1>7 DEF Relies
<1>9. request' = [request EXCEPT ![r] = Idle] BY DEF RespondSession
<1>10. /\ request' \in [Requests -> Request] /\ \A p \in Requests : Relies(request[p])'
      /\ OneSignIn'
  BY <1>2, <1>6, <1>7, <1>8, <1>9, RequestStep
<1>11. \A z \in sessions' : Given(z)'
  <2>1. user[e].version \in Nat BY <1>3 DEF User
  <2>2. Given(t)' BY <1>1, <1>2, <1>4, <2>1 DEF Given, Active
  <2>3. \A z \in sessions : Given(z)' BY <1>2, Typing DEF Given, Active
  <2> QED BY <1>5, <2>2, <2>3
<1>12. OneIdentity' BY <1>2, IdentityStays
<1>13. /\ referral' \in [Emails -> ReferralRow] /\ ledger' \in [Emails -> [Rewards -> 0..1]]
       /\ RewardsMatch'
  BY <1>2, RewardsStay
<1>14. links' \subseteq Link
         /\ IsFiniteSet(links')
  BY <1>2, LinksStay
<1>15. /\ identity' \in [Subjects -> Emails \cup {NoEmail}] /\ sessions' \subseteq Session
       /\ enabled' \in {"always", "paused", "resumed"}
  BY <1>2, <1>4, <1>5, Typing
<1>16. AccountsInv' BY <1>6, <1>10, <1>11, <1>12, <1>13, <1>14, <1>15, PartsKeep
<1> QED BY <1>6, <1>16
------------------------------------------------------------------------------
(* Google sign-in, and what follows a sign-in.                                *)

LEMMA BeginGoogleKeeps ==
    ASSUME AccountsInv, NEW r \in Requests, NEW s \in Subjects, NEW e \in Emails,
           BeginGoogle(r, s, e)
    PROVE  AccountsInv' /\ Grows
<1>1. UNCHANGED <<user, identity, links, sessions, referral, ledger, enabled>>
  BY DEF BeginGoogle
<1>2. PICK q : q = [op |-> "google", email |-> e, subject |-> s, found |-> Found(s, e)]
  OBVIOUS
<1>3. Found(s, e) \in Emails \cup {NoEmail} BY Typing DEF Found
<1>4. q \in Request BY <1>2, <1>3 DEF Request
<1>5. q.op = "google" /\ q.email = e /\ q.subject = s /\ q.found = Found(s, e) BY <1>2
<1>6. identity[s] # NoEmail => q.found = identity[s] BY <1>5 DEF Found
<1>7. Relies(q)' BY <1>1, <1>5, <1>6 DEF Relies
<1>8. request' = [request EXCEPT ![r] = q] BY <1>2 DEF BeginGoogle
<1>9. \A p \in Requests : request[p].op = "google" => request[p].subject # q.subject
  BY <1>5 DEF BeginGoogle
<1> QED BY <1>1, <1>4, <1>7, <1>8, <1>9, OnlyRequest

\* The request of a sign-in that succeeded goes on to the welcome
LEMMA WelcomeStep ==
    ASSUME AccountsInv, NEW r \in Requests, NEW e \in Emails, Welcome(r, e),
           request[r].op = "google", Grows, user'[e].active,
           \A s \in Subjects : s # request[r].subject => identity'[s] = identity[s]
    PROVE  /\ request' \in [Requests -> Request]
           /\ \A p \in Requests : Relies(request[p])'
           /\ OneSignIn'
<1>1. PICK q : q = [request[r] EXCEPT !.op = "welcome", !.email = e] OBVIOUS
<1>2. request[r] \in Request BY Typing
<1>3. q \in Request /\ q.op = "welcome" /\ q.email = e BY <1>1, <1>2 DEF Request
<1>4. Relies(q)' BY <1>3 DEF Relies, Active
<1>5. request' = [request EXCEPT ![r] = q] BY <1>1, Typing DEF Welcome
<1>6. \A s \in Subjects : identity'[s] # identity[s] =>
          request[r].op = "google" /\ request[r].subject = s
  OBVIOUS
<1> QED BY <1>3, <1>4, <1>5, <1>6, RequestStep

\* A row left alone is a row that grows
LEMMA SameRow ==
    ASSUME AccountsInv, NEW e \in Emails
    PROVE  /\ user[e] \in User /\ RowSound(user[e]) /\ RowGrows(user[e], user[e])
           /\ user = [user EXCEPT ![e] = user[e]]
<1>1. user \in [Emails -> User] /\ user[e] \in User /\ RowSound(user[e]) BY Typing
<1>2. user[e].version \in Nat BY <1>1 DEF User
<1> QED BY <1>1, <1>2 DEF RowGrows

LEMMA GoogleKnownKeeps ==
    ASSUME AccountsInv, NEW r \in Requests, GoogleKnown(r)
    PROVE  AccountsInv' /\ Grows
<1>1. PICK e \in Emails : e = request[r].email /\ user[e].active
  BY Typing DEF Relies, GoogleKnown, Active
<1>2. UNCHANGED <<user, identity, links, sessions, enabled>> BY DEF GoogleKnown
<1>3. Grows BY <1>2, RowsStay
<1>4. request[r].op = "google" /\ Welcome(r, e) BY <1>1 DEF GoogleKnown
<1>5. user'[e].active BY <1>1, <1>2
<1>6. /\ request' \in [Requests -> Request] /\ \A p \in Requests : Relies(request[p])'
      /\ OneSignIn'
  BY <1>2, <1>3, <1>4, <1>5, WelcomeStep
<1>7. OneIdentity' BY <1>2, IdentityStays
<1>8. PICK rec : rec = user[e] OBVIOUS
<1>9. rec \in User /\ RowSound(rec) /\ RowGrows(user[e], rec) /\ rec.active
  BY <1>1, <1>8, SameRow
<1>10. user' = [user EXCEPT ![e] = rec] BY <1>2, <1>8, SameRow
<1>11. referral[e] \in ReferralRow BY Typing
<1>12. Reconcile(e, referral[e], TRUE) BY <1>1 DEF GoogleKnown
<1>13. identity' \in [Subjects -> Emails \cup {NoEmail}] BY <1>2, Typing
<1> QED BY <1>2, <1>6, <1>7, <1>9, <1>10, <1>11, <1>12, <1>13, ActiveStep

LEMMA GoogleLinkKeeps ==
    ASSUME AccountsInv, NEW r \in Requests, GoogleLink(r)
    PROVE  AccountsInv' /\ Grows
<1>1. PICK e \in Emails, s \in Subjects :
           /\ e = request[r].email /\ s = request[r].subject
           /\ identity[s] # NoEmail => request[r].found = identity[s]
  BY Typing DEF Relies, GoogleLink
<1>2. request[r].op = "google" /\ request[r].found = e /\ identity[s] # e /\ user[e].active
  BY <1>1 DEF GoogleLink, Active
<1>3. identity[s] = NoEmail BY <1>1, <1>2
<1>4. user[e].subject = NoSubject
  BY <1>1, <1>2, AccountsAssumption DEF GoogleLink, AccountsInv, OneIdentity
<1>5. PICK rec : rec = [user[e] EXCEPT !.subject = s] OBVIOUS
<1>6. user[e] \in User /\ RowSound(user[e]) BY Typing
<1>7. rec \in User /\ rec.active = user[e].active /\ rec.subject = s /\ rec.made = user[e].made
         /\ rec.version = user[e].version /\ rec.password = user[e].password
         /\ rec.verifyLink = user[e].verifyLink
  BY <1>5, <1>6 DEF User
<1>8. user[e].version \in Nat BY <1>6 DEF User
<1>9. RowSound(rec) /\ RowGrows(user[e], rec) /\ rec.active
  BY <1>2, <1>6, <1>7, <1>8 DEF RowSound, RowGrows
<1>10. user' = [user EXCEPT ![e] = rec] BY <1>1, <1>5, Typing DEF GoogleLink
<1>11. identity' = [identity EXCEPT ![s] = IF @ = NoEmail THEN e ELSE @]
  BY <1>1 DEF GoogleLink
<1>12. UNCHANGED <<links, sessions, enabled>> BY DEF GoogleLink
<1>13. /\ user'[e] = rec /\ \A f \in Emails : f # e => user'[f] = user[f]
       /\ Grows
  BY <1>7, <1>9, <1>10, <1>12, RowStep
<1>14. user'[e].subject = s /\ user'[e].active BY <1>7, <1>9, <1>13
<1>15. OneIdentity' BY <1>3, <1>4, <1>11, <1>13, <1>14, IdentityLinked
<1>16. identity' \in [Subjects -> Emails \cup {NoEmail}] BY <1>11, Typing
<1>17. \A z \in Subjects : z # request[r].subject => identity'[z] = identity[z]
  BY <1>1, <1>11, Typing
<1>18. Welcome(r, e) BY <1>1 DEF GoogleLink
<1>19. /\ request' \in [Requests -> Request] /\ \A p \in Requests : Relies(request[p])'
       /\ OneSignIn'
  BY <1>2, <1>13, <1>14, <1>17, <1>18, WelcomeStep
<1>20. referral[e] \in ReferralRow BY Typing
<1>21. Reconcile(e, referral[e], TRUE) BY <1>1 DEF GoogleLink
<1> QED BY <1>7, <1>9, <1>10, <1>12, <1>15, <1>16, <1>19, <1>20, <1>21, ActiveStep

LEMMA GoogleCreateKeeps ==
    ASSUME AccountsInv, NEW r \in Requests, NEW referred \in BOOLEAN, GoogleCreate(r, referred)
    PROVE  AccountsInv' /\ Grows
<1>1. PICK e \in Emails, s \in Subjects :
           /\ e = request[r].email /\ s = request[r].subject
           /\ identity[s] # NoEmail => request[r].found = identity[s]
  BY Typing DEF Relies, GoogleCreate
<1>2. request[r].op = "google" /\ request[r].found = NoEmail /\ ~user[e].made
  BY <1>1 DEF GoogleCreate
<1>3. identity[s] = NoEmail BY <1>1, <1>2
<1>4. ~user[e].active /\ user[e].subject = NoSubject BY <1>2, Typing DEF RowSound
<1>5. PICK rec : rec = [NoUser EXCEPT !.made = TRUE, !.active = TRUE, !.subject = s] OBVIOUS
<1>6. /\ rec.made /\ rec.active /\ rec.subject = s /\ rec.password = 0
      /\ rec.version = 0 /\ rec.verifyLink = 0 /\ rec.resetLink = 0
  BY <1>5 DEF NoUser
<1>7. rec \in User
  <2>1. 0 \in 0..(MaxResets + 1) /\ 0 \in 0..MaxLinks BY AccountsAssumption
  <2>2. NoUser \in User BY <2>1 DEF NoUser, User
  <2> QED BY <1>5, <2>2 DEF User
<1>8. RowSound(rec) /\ RowGrows(user[e], rec) BY <1>2, <1>4, <1>6 DEF RowSound, RowGrows
<1>9. user' = [user EXCEPT ![e] = rec] BY <1>1, <1>5 DEF GoogleCreate
<1>10. identity' = [identity EXCEPT ![s] = IF @ = NoEmail THEN e ELSE @]
  BY <1>1 DEF GoogleCreate
<1>11. UNCHANGED <<links, sessions, enabled>> BY DEF GoogleCreate
<1>12. /\ user'[e] = rec /\ \A f \in Emails : f # e => user'[f] = user[f]
       /\ Grows
  BY <1>7, <1>8, <1>9, <1>11, RowStep
<1>13. user'[e].subject = s /\ user'[e].active BY <1>6, <1>12
<1>14. OneIdentity' BY <1>3, <1>4, <1>10, <1>12, <1>13, IdentityLinked
<1>15. identity' \in [Subjects -> Emails \cup {NoEmail}] BY <1>10, Typing
<1>16. \A z \in Subjects : z # request[r].subject => identity'[z] = identity[z]
  BY <1>1, <1>10, Typing
<1>17. Welcome(r, e) BY <1>1 DEF GoogleCreate
<1>18. /\ request' \in [Requests -> Request] /\ \A p \in Requests : Relies(request[p])'
       /\ OneSignIn'
  BY <1>2, <1>12, <1>13, <1>16, <1>17, WelcomeStep
<1>19. PICK ref : ref = [referral[e] EXCEPT !.attached = referred] OBVIOUS
<1>20. ref \in ReferralRow /\ ref.signup = referral[e].signup
          /\ ref.provider = referral[e].provider
  BY <1>19, Typing DEF ReferralRow
<1>21. Reconcile(e, ref, TRUE) BY <1>1, <1>19 DEF GoogleCreate
<1> QED BY <1>6, <1>7, <1>8, <1>9, <1>11, <1>14, <1>15, <1>18, <1>20, <1>21, ActiveStep

LEMMA AbandonKeeps ==
    ASSUME AccountsInv, NEW r \in Requests, Abandon(r)
    PROVE  AccountsInv' /\ Grows
<1>1. UNCHANGED <<user, identity, links, sessions, referral, ledger, enabled>> BY DEF Abandon
<1>2. Idle \in Request /\ Idle.op = "idle" BY DEF Request, Idle
<1>3. Relies(Idle)' BY <1>2 DEF Relies
<1>4. request' = [request EXCEPT ![r] = Idle] BY DEF Abandon
<1> QED BY <1>1, <1>2, <1>3, <1>4, OnlyRequest

LEMMA AwardWelcomeKeeps ==
    ASSUME AccountsInv, NEW r \in Requests, NEW given \in BOOLEAN, AwardWelcome(r, given)
    PROVE  AccountsInv' /\ Grows
<1>1. PICK e \in Emails : e = request[r].email /\ user[e].active
  BY Typing DEF Relies, AwardWelcome, Active
<1>2. UNCHANGED <<user, identity, links, sessions, referral, enabled>> BY DEF AwardWelcome
<1>3. /\ user' \in [Emails -> User] /\ \A f \in Emails : RowSound(user'[f])
      /\ Grows
  BY <1>2, RowsStay
<1>4. PICK q : q = IF request[r].subject = NoSubject THEN Idle
                   ELSE [request[r] EXCEPT !.op = "respond"]
  OBVIOUS
<1>5. request' = [request EXCEPT ![r] = q] BY <1>4, Typing DEF AwardWelcome
<1>6. q \in Request /\ (q.op = "idle" \/ (q.op = "respond" /\ q.email = e))
  <2>1. Idle \in Request /\ Idle.op = "idle" BY DEF Request, Idle
  <2>2. request[r] \in Request BY Typing
  <2>3. CASE request[r].subject = NoSubject BY <1>4, <2>1, <2>3
  <2>4. CASE request[r].subject # NoSubject BY <1>1, <1>4, <2>2, <2>4 DEF Request
  <2> QED BY <2>3, <2>4
<1>7. Relies(q)' BY <1>1, <1>2, <1>6 DEF Relies, Active
<1>8. /\ request' \in [Requests -> Request] /\ \A p \in Requests : Relies(request[p])'
      /\ OneSignIn'
  BY <1>2, <1>3, <1>5, <1>6, <1>7, RequestStep
<1>9. OneIdentity' BY <1>2, IdentityStays
<1>10. ledger' \in [Emails -> [Rewards -> 0..1]] /\ RewardsMatch'
  <2>1. ledger' = [ledger EXCEPT ![e]["welcome"] = 1] \/ ledger' = ledger
    BY <1>1 DEF AwardWelcome, Award
  <2>2. CASE ledger' = [ledger EXCEPT ![e]["welcome"] = 1]
    <3>1. /\ "welcome" \in Rewards
          /\ ledger \in [Emails -> [Rewards -> 0..1]]
      BY Typing DEF Rewards
    <3>2. ledger' \in [Emails -> [Rewards -> 0..1]] BY <2>2, <3>1
    <3>3. \A f \in Emails, what \in Rewards :
              ledger'[f][what] = IF f = e /\ what = "welcome" THEN 1 ELSE ledger[f][what]
      BY <2>2, <3>1
    <3>4. \A f \in Emails : /\ ledger'[f]["referral_signup"] = ledger[f]["referral_signup"]
                            /\ ledger'[f]["referral_provider"] = ledger[f]["referral_provider"]
      BY <3>3 DEF Rewards
    <3>5. \A f \in Emails, what \in Rewards : ledger'[f][what] # 0 => user[f].active
      BY <1>1, <3>3 DEF AccountsInv, RewardsMatch, Active
    <3>6. RewardsMatch' BY <1>2, <3>4, <3>5 DEF AccountsInv, RewardsMatch, Active
    <3> QED BY <3>2, <3>6
  <2>3. CASE ledger' = ledger BY <1>2, <2>3, RewardsStay
  <2> QED BY <2>1, <2>2, <2>3
<1>11. /\ links' \subseteq Link
       /\ IsFiniteSet(links')
  BY <1>2, LinksStay
<1>12. /\ identity' \in [Subjects -> Emails \cup {NoEmail}] /\ sessions' \subseteq Session
       /\ referral' \in [Emails -> ReferralRow] /\ enabled' \in {"always", "paused", "resumed"}
  BY <1>2, Typing
<1>13. \A t \in sessions' : Given(t)' BY <1>2, Typing DEF Given, Active
<1>14. AccountsInv' BY <1>3, <1>8, <1>9, <1>10, <1>11, <1>12, <1>13, PartsKeep
<1> QED BY <1>3, <1>14

------------------------------------------------------------------------------
(* Payments of providers, the switch, and steps that change nothing.          *)

LEMMA PayKeeps ==
    ASSUME AccountsInv, NEW e \in Emails, PayProvider(e)
    PROVE  AccountsInv' /\ Grows
<1>1. user[e].active /\ UNCHANGED <<user, identity, links, request, sessions, enabled>>
  BY DEF PayProvider, Active
<1>2. Grows BY <1>1, RowsStay
<1>3. /\ request' \in [Requests -> Request] /\ \A p \in Requests : Relies(request[p])'
      /\ OneSignIn'
  BY <1>1, <1>2, RequestsStay
<1>4. OneIdentity' BY <1>1, IdentityStays
<1>5. PICK rec : rec = user[e] OBVIOUS
<1>6. rec \in User /\ RowSound(rec) /\ RowGrows(user[e], rec) /\ rec.active
  BY <1>1, <1>5, SameRow
<1>7. user' = [user EXCEPT ![e] = rec] BY <1>1, <1>5, SameRow
<1>8. PICK ref : ref = [referral[e] EXCEPT !.paid = TRUE] OBVIOUS
<1>9. ref \in ReferralRow /\ ref.signup = referral[e].signup
         /\ ref.provider = referral[e].provider
  BY <1>8, Typing DEF ReferralRow
<1>10. Reconcile(e, ref, TRUE) BY <1>8 DEF PayProvider
<1>11. identity' \in [Subjects -> Emails \cup {NoEmail}] BY <1>1, Typing
<1> QED BY <1>1, <1>3, <1>4, <1>6, <1>7, <1>9, <1>10, <1>11, ActiveStep

LEMMA NothingElseKeeps ==
    ASSUME AccountsInv,
           UNCHANGED <<user, identity, links, request, sessions, referral, ledger>>,
           enabled' \in {"always", "paused", "resumed"},
           enabled' = "always" => enabled = "always"
    PROVE  AccountsInv' /\ Grows
<1>1. /\ user' \in [Emails -> User] /\ \A f \in Emails : RowSound(user'[f])
      /\ Grows
  BY RowsStay
<1>2. /\ request' \in [Requests -> Request] /\ \A p \in Requests : Relies(request[p])'
      /\ OneSignIn'
  BY <1>1, RequestsStay
<1>3. OneIdentity' BY IdentityStays
<1>4. /\ referral' \in [Emails -> ReferralRow] /\ ledger' \in [Emails -> [Rewards -> 0..1]]
      /\ RewardsMatch'
  BY RewardsStay
<1>5. /\ links' \subseteq Link
      /\ IsFiniteSet(links')
  BY LinksStay
<1>6. identity' \in [Subjects -> Emails \cup {NoEmail}] /\ sessions' \subseteq Session BY Typing
<1>7. \A t \in sessions' : Given(t)' BY Typing DEF Given, Active
<1>8. AccountsInv' BY <1>1, <1>2, <1>3, <1>4, <1>5, <1>6, <1>7, PartsKeep
<1> QED BY <1>1, <1>8

------------------------------------------------------------------------------
LEMMA AccountsBegin == Init => AccountsInv
<1> SUFFICES ASSUME Init PROVE AccountsInv
  OBVIOUS
<1>1. /\ 1 \in 0..(MaxResets + 1) /\ 0 \in 0..(MaxResets + 1) /\ 0 \in 0..MaxLinks
  BY AccountsAssumption
<1>2. NoUser \in User BY <1>1 DEF NoUser, User
<1>3. PICK first : first = [NoUser EXCEPT !.made = TRUE, !.active = TRUE, !.password = 1]
  OBVIOUS
<1>4. /\ first \in User /\ first.made /\ first.active /\ first.subject = NoSubject
      /\ first.version = 0 /\ first.password = 1 /\ first.verifyLink = 0
  BY <1>1, <1>2, <1>3 DEF NoUser, User
<1>5. /\ \A e \in Emails : user[e] = IF e = Referrer THEN first ELSE NoUser
      /\ user \in [Emails -> User]
  BY <1>2, <1>3, <1>4 DEF Init
<1>6. NoUser.subject = NoSubject /\ NoUser.active = FALSE /\ RowSound(NoUser)
  BY DEF NoUser, RowSound
<1>7. \A e \in Emails : RowSound(user[e]) /\ user[e].subject = NoSubject
  BY <1>4, <1>5, <1>6 DEF RowSound
<1>8. \A r \in Requests : request[r] = Idle BY DEF Init
<1>9. (\A r \in Requests : Relies(request[r])) /\ OneSignIn
  BY <1>8 DEF Relies, OneSignIn, Idle
<1>10. links = {} /\ IsFiniteSet(links) /\ sessions = {} BY FS_EmptySet DEF Init
<1>11. TypeOK
  <2>1. Idle \in Request BY DEF Idle, Request
  <2>2. NoReferral \in ReferralRow BY DEF NoReferral, ReferralRow
  <2>3. request \in [Requests -> Request] BY <2>1 DEF Init
  <2>4. referral \in [Emails -> ReferralRow] BY <2>2 DEF Init
  <2>5. ledger \in [Emails -> [Rewards -> 0..1]] BY DEF Init
  <2>6. identity \in [Subjects -> Emails \cup {NoEmail}] BY DEF Init
  <2>7. enabled \in {"always", "paused", "resumed"} BY DEF Init
  <2> QED BY <1>5, <1>10, <2>3, <2>4, <2>5, <2>6, <2>7 DEF TypeOK, User, Request, ReferralRow
<1>12. OneIdentity BY <1>7, AccountsAssumption DEF Init, OneIdentity
<1>13. RewardsMatch BY DEF Init, RewardsMatch, NoReferral, Rewards
<1> QED BY <1>7, <1>9, <1>10, <1>11, <1>12, <1>13 DEF AccountsInv

LEMMA AccountsStep == AccountsInv /\ [Next]_vars => AccountsInv' /\ Grows
<1> SUFFICES ASSUME AccountsInv, [Next]_vars PROVE AccountsInv' /\ Grows
  OBVIOUS
<1>1. ASSUME NEW e \in Emails, \/ \E referred \in BOOLEAN : Signup(e, referred)
                               \/ ForgotPassword(e) \/ PayProvider(e)
      PROVE  AccountsInv' /\ Grows
  BY <1>1, SignupKeeps, ForgotKeeps, PayKeeps
<1>2. ASSUME NEW link \in links,
             ResetPassword(link) \/ \E r \in Requests : VerifyEmail(r, link)
      PROVE  AccountsInv' /\ Grows
  BY <1>2, ResetKeeps, VerifyKeeps
<1>3. ASSUME NEW r \in Requests, NEW e \in Emails,
             \/ BeginResend(r, e) \/ Login(r, e) \/ \E s \in Subjects : BeginGoogle(r, s, e)
      PROVE  AccountsInv' /\ Grows
  BY <1>3, BeginResendKeeps, LoginKeeps, BeginGoogleKeeps
<1>4. ASSUME NEW r \in Requests,
             \/ ResendVerification(r) \/ RespondSession(r) \/ Abandon(r)
             \/ GoogleKnown(r) \/ GoogleLink(r)
             \/ \E referred \in BOOLEAN : GoogleCreate(r, referred)
             \/ \E given \in BOOLEAN : AwardWelcome(r, given)
      PROVE  AccountsInv' /\ Grows
  BY <1>4, ResendKeeps, RespondKeeps, AbandonKeeps, GoogleKnownKeeps, GoogleLinkKeeps,
     GoogleCreateKeeps, AwardWelcomeKeeps
<1>5. CASE SwitchProgram
  BY <1>5, NothingElseKeeps DEF SwitchProgram
<1>6. CASE UNCHANGED vars
  <2>1. enabled' \in {"always", "paused", "resumed"} BY <1>6, Typing DEF vars
  <2> QED BY <1>6, <2>1, NothingElseKeeps DEF vars
<1> QED BY <1>1, <1>2, <1>3, <1>4, <1>5, <1>6 DEF Next

LEMMA AccountsAlways == Spec => []AccountsInv
<1>1. AccountsInv /\ [Next]_vars => AccountsInv' BY AccountsStep
<1> QED BY AccountsBegin, <1>1, PTL DEF Spec

\* Rows, links and requests stay in their domains and a reward has one entry at
\* most, for any number of accounts, Google identities, requests and links
THEOREM AccountTypesHold == Spec => []TypeOK
<1>1. AccountsInv => TypeOK BY DEF AccountsInv
<1> QED BY <1>1, AccountsAlways, PTL

\* However Google sign-ins, sign-ups, links and payments cross, an identity and
\* its account name each other, and the ledger, the referral and the account
\* tell the same story of what was earned
THEOREM AccountsNeverDiverge == Spec => []AccountsAgree
<1>1. AccountsInv => AccountsAgree BY DEF AccountsInv, AccountsAgree
<1> QED BY <1>1, AccountsAlways, PTL

\* A new password ends every session there was, and a session that has ended
\* is not accepted again, whatever is opened, sent or signed into later
THEOREM EndedSessionsStayEnded == Spec => SignedOutForGood
<1> DEFINE Ended == \A t \in sessions :
         /\ user'[t.email].password # user[t.email].password => ~Accepted(t)'
         /\ ~Accepted(t) => ~Accepted(t)'
<1>1. AccountsInv /\ AccountsInv' /\ [Next]_vars => [Ended]_vars
  <2> SUFFICES ASSUME AccountsInv, AccountsInv', [Next]_vars, NEW t \in sessions
               PROVE  /\ user'[t.email].password # user[t.email].password => ~Accepted(t)'
                      /\ ~Accepted(t) => ~Accepted(t)'
    OBVIOUS
  <2>1. PICK e \in Emails : e = t.email /\ t.version \in Nat BY DEF AccountsInv, TypeOK
  <2>2. user[e].active /\ t.version <= user[e].version
    BY <2>1, Typing DEF Given, Active
  <2>3. RowGrows(user[e], user'[e]) BY AccountsStep DEF Grows
  <2>4. user[e].version \in Nat BY Typing DEF User
  <2>5. user'[e].version \in Nat
    <3>1. user'[e] \in [made : BOOLEAN, active : BOOLEAN, subject : Subjects \cup {NoSubject},
                        password : 0..(MaxResets + 1), version : 0..(MaxResets + 1),
                        verifyLink : 0..MaxLinks, resetLink : 0..MaxLinks]
      BY DEF AccountsInv, TypeOK
    <3> QED BY <3>1
  <2>6. Accepted(t) <=> t.version = user[e].version BY <2>1, <2>2 DEF Accepted, Active
  <2>7. Accepted(t)' => t.version = user'[e].version BY <2>1 DEF Accepted, Active
  <2> QED BY <2>1, <2>2, <2>3, <2>4, <2>5, <2>6, <2>7 DEF RowGrows
<1>2. AccountsInv /\ AccountsInv' /\ [Next]_vars => [\A t \in sessions :
         /\ user'[t.email].password # user[t.email].password => ~Accepted(t)'
         /\ ~Accepted(t) => ~Accepted(t)']_vars
  BY <1>1
<1> QED BY <1>2, AccountsAlways, PTL DEF Spec, SignedOutForGood

------------------------------------------------------------------------------
(* Administrators.                                                            *)

USE AdminAssumption

\* A request on its way has a caller
Called == \A r \in Changes : change[r].at # "idle" => change[r].actor \in Admins

\* Only accounts that were made are active
MadeFirst == \A a \in Admins : admin[a].active => admin[a].made

AdminInv == AdminTypeOK /\ Called /\ MadeFirst /\ OneChangeAtATime /\ LastAdminStays

LEMMA AdminBegins == AdminInit => AdminInv
<1> SUFFICES ASSUME AdminInit PROVE AdminInv
  OBVIOUS
<1>1. AdminTypeOK /\ MadeFirst
  BY DEF AdminInit, AdminTypeOK, MadeFirst, Row, Roles, NoChange
<1>2. Called /\ OneChangeAtATime BY DEF AdminInit, Called, OneChangeAtATime, NoChange
<1>3. LastAdminStays
  <2>1. PICK a \in Founders : TRUE OBVIOUS
  <2>2. a \in Admins /\ IsSuper(a) BY <2>1 DEF AdminInit, IsSuper
  <2> QED BY <2>2 DEF LastAdminStays, Supers
<1> QED BY <1>1, <1>2, <1>3 DEF AdminInv

\* Whoever holds the lock is a super administrator, and nobody else holds it
LEMMA HolderIsSuper ==
    ASSUME AdminInv, NEW r \in Changes, change[r].at = "locked"
    PROVE  /\ change[r].actor \in Admins /\ IsSuper(change[r].actor)
           /\ \A q \in Changes : q # r => change[q].at # "locked"
BY DEF AdminInv, Called, OneChangeAtATime

\* A commit under the lock, about another row or leaving every row as it is
LEMMA CommitKeeps ==
    ASSUME AdminInv, NEW r \in Changes, NEW a \in Admins, NEW rec \in Row,
           change[r].at = "locked", a # change[r].actor \/ rec = admin[a], rec.made,
           Commit(r, a, rec)
    PROVE  AdminInv'
<1>1. PICK holder \in Admins : holder = change[r].actor /\ IsSuper(holder)
  BY HolderIsSuper
<1>2. AdminTypeOK'
  <2>1. admin' \in [Admins -> Row] BY DEF AdminInv, AdminTypeOK, Commit
  <2>2. events' \in 0..MaxEvents BY DEF AdminInv, AdminTypeOK, Commit
  <2>3. UNCHANGED granted BY DEF Commit
  <2> QED BY <2>1, <2>2, <2>3 DEF AdminInv, AdminTypeOK, Commit, NoChange
<1>8. MadeFirst' BY DEF AdminInv, AdminTypeOK, MadeFirst, Commit, Row
<1>3. \A q \in Changes : q # r => change'[q] = change[q]
  BY DEF AdminInv, AdminTypeOK, Commit
<1>4. change'[r] = NoChange BY DEF AdminInv, AdminTypeOK, Commit
<1>5. Called' BY <1>3, <1>4 DEF AdminInv, Called, NoChange
<1>6. OneChangeAtATime'
  <2>1. \A q \in Changes : change'[q].at # "locked"
    BY <1>3, <1>4, HolderIsSuper DEF NoChange
  <2> QED BY <2>1 DEF OneChangeAtATime
<1>7. LastAdminStays'
  <2>1. IsSuper(holder)' BY <1>1 DEF AdminInv, AdminTypeOK, Commit, IsSuper
  <2> QED BY <1>1, <2>1 DEF LastAdminStays, Supers
<1> QED BY <1>2, <1>5, <1>6, <1>7, <1>8 DEF AdminInv

\* Only changes move along, none of them to the lock
LEMMA OthersKeep ==
    ASSUME AdminInv, UNCHANGED admin, AdminTypeOK', Called',
           \A q \in Changes : change'[q].at = "locked" => change'[q] = change[q]
    PROVE  AdminInv'
<1>1. OneChangeAtATime' BY DEF AdminInv, OneChangeAtATime, IsSuper
<1>2. LastAdminStays' /\ MadeFirst' BY DEF AdminInv, LastAdminStays, MadeFirst, Supers, IsSuper
<1> QED BY <1>1, <1>2 DEF AdminInv

LEMMA AdminStepKeeps == AdminInv /\ [AdminNext]_adminVars => AdminInv'
<1> SUFFICES ASSUME AdminInv, [AdminNext]_adminVars PROVE AdminInv'
  OBVIOUS
<1>1. ASSUME NEW a \in Admins, AdminLogin(a) PROVE AdminInv'
  <2>1. AdminTypeOK' /\ Called' BY <1>1 DEF AdminInv, AdminTypeOK, Called, AdminLogin
  <2> QED BY <1>1, <2>1, OthersKeep DEF AdminLogin
<1>2. ASSUME NEW r \in Changes, NEW a \in Admins,
             NEW op \in {"create", "update", "password"}, Authorize(r, a, op)
      PROVE  AdminInv'
  <2>1. AdminTypeOK' BY <1>2 DEF AdminInv, AdminTypeOK, Authorize
  <2>2. Called' BY <1>2 DEF AdminInv, AdminTypeOK, Called, Authorize
  <2>3. \A q \in Changes : change'[q].at = "locked" => change'[q] = change[q]
    BY <1>2 DEF AdminInv, AdminTypeOK, Authorize
  <2> QED BY <1>2, <2>1, <2>2, <2>3, OthersKeep DEF Authorize
<1>3. ASSUME NEW r \in Changes, BeginAdminAccess(r) PROVE AdminInv'
  <2>1. AdminTypeOK' BY <1>3 DEF AdminInv, AdminTypeOK, BeginAdminAccess
  <2>2. Called' BY <1>3 DEF AdminInv, AdminTypeOK, Called, BeginAdminAccess
  <2>3. OneChangeAtATime'
    BY <1>3 DEF AdminInv, AdminTypeOK, OneChangeAtATime, BeginAdminAccess, IsSuper
  <2>4. LastAdminStays' /\ MadeFirst'
    BY <1>3 DEF AdminInv, LastAdminStays, MadeFirst, Supers, IsSuper, BeginAdminAccess
  <2> QED BY <2>1, <2>2, <2>3, <2>4 DEF AdminInv
<1>4. ASSUME NEW r \in Changes, AbandonChange(r) PROVE AdminInv'
  <2>1. AdminTypeOK' BY <1>4 DEF AdminInv, AdminTypeOK, AbandonChange, NoChange
  <2>2. Called' BY <1>4 DEF AdminInv, AdminTypeOK, Called, AbandonChange, NoChange
  <2>3. \A q \in Changes : change'[q].at = "locked" => change'[q] = change[q]
    BY <1>4 DEF AdminInv, AdminTypeOK, AbandonChange, NoChange
  <2> QED BY <1>4, <2>1, <2>2, <2>3, OthersKeep DEF AbandonChange
<1>5. ASSUME NEW r \in Changes, NEW a \in Admins, NEW role \in Roles, CreateAdmin(r, a, role)
      PROVE  AdminInv'
  <2> DEFINE rec == [made |-> TRUE, role |-> role, active |-> TRUE]
  <2>1. rec \in Row BY DEF Row
  <2>2. a # change[r].actor
    BY <1>5, HolderIsSuper DEF AdminInv, MadeFirst, CreateAdmin, IsSuper
  <2> QED BY <1>5, <2>1, <2>2, CommitKeeps DEF CreateAdmin
<1>6. ASSUME NEW r \in Changes, NEW a \in Admins, NEW role \in Roles, NEW active \in BOOLEAN,
             UpdateAdminAccess(r, a, role, active)
      PROVE  AdminInv'
  <2>1. [made |-> TRUE, role |-> role, active |-> active] \in Row BY DEF Row
  <2> QED BY <1>6, <2>1, CommitKeeps DEF UpdateAdminAccess
<1>7. ASSUME NEW r \in Changes, NEW a \in Admins, ResetAdminPassword(r, a) PROVE AdminInv'
  <2>1. admin[a] \in Row BY DEF AdminInv, AdminTypeOK
  <2> QED BY <1>7, <2>1, CommitKeeps DEF ResetAdminPassword
<1>8. CASE UNCHANGED adminVars
  <2>1. AdminTypeOK' /\ Called' BY <1>8 DEF AdminInv, AdminTypeOK, Called, adminVars
  <2> QED BY <1>8, <2>1, OthersKeep DEF adminVars
<1> QED BY <1>1, <1>2, <1>3, <1>4, <1>5, <1>6, <1>7, <1>8 DEF AdminNext

LEMMA AdminAlways == AdminSpec => []AdminInv
BY AdminBegins, AdminStepKeeps, PTL DEF AdminSpec

------------------------------------------------------------------------------
\* Rows and requests stay in their domains, for any number of them
THEOREM AdminTypesHold == AdminSpec => []AdminTypeOK
<1>1. AdminInv => AdminTypeOK BY DEF AdminInv
<1> QED BY <1>1, AdminAlways, PTL

\* However many super administrators disable, demote and create each other at
\* once, an active super administrator is left
THEOREM AdminNeverLost == AdminSpec => []LastAdminStays
<1>1. AdminInv => LastAdminStays BY DEF AdminInv
<1> QED BY <1>1, AdminAlways, PTL

\* Every recorded change of access is made by an administrator who is a super
\* administrator at the commit, not only when the request came in
THEOREM NoStalePrivilege == AdminSpec => PrivilegeHeld
<1>1. AdminInv /\ [AdminNext]_adminVars => [ByHolder]_adminVars
  <2> SUFFICES ASSUME AdminInv, AdminNext, events' # events PROVE ByHolder
    BY DEF adminVars, ByHolder
  <2>1. PICK r \in Changes, a \in Admins :
             \/ \E role \in Roles : CreateAdmin(r, a, role)
             \/ \E role \in Roles, active \in BOOLEAN : UpdateAdminAccess(r, a, role, active)
             \/ ResetAdminPassword(r, a)
    BY DEF AdminNext, AdminLogin, Authorize, BeginAdminAccess, AbandonChange
  <2>2. change[r].at = "locked" /\ change'[r] = NoChange
    BY <2>1 DEF CreateAdmin, UpdateAdminAccess, ResetAdminPassword, Commit, AdminInv, AdminTypeOK
  <2>3. IsSuper(change[r].actor) /\ change[r] # NoChange
    BY <2>2, HolderIsSuper DEF NoChange
  <2> QED BY <2>2, <2>3 DEF ByHolder
<1> QED BY <1>1, AdminAlways, PTL DEF AdminSpec, PrivilegeHeld

------------------------------------------------------------------------------
(* Public pages.                                                              *)

USE CacheAssumption

\* A page in Redis was read no earlier than the token it is kept under
StoredOK ==
    \A k \in Keys : stored[k] # Absent =>
        /\ stored[k].body \in Bodies
        /\ stored[k].body.page = k[1] /\ stored[k].body.whose = Nobody
        /\ AtLeast(stored[k].body.at, k[2])

Looking == {"lookup", "register", "waiting", "recheck", "store"}
Flying == {"recheck", "handler", "store", "answer"}

\* What a fetch has found out so far
FetchOK(q) ==
    /\ At(q, "idle") => fetch[q] = NoFetch
    /\ AtLeast(Now, fetch[q].since)
    /\ ~At(q, "idle") => fetch[q].page \in Pages
    /\ At(q, "token") => fetch[q].token.rev >= fetch[q].since.rev
    /\ (fetch[q].step \in Looking \/ (~At(q, "idle") /\ Fills(q))) =>
         AtLeast(fetch[q].token, fetch[q].since) /\ AtLeast(Now, fetch[q].token)
         /\ ~fetch[q].signed
    /\ At(q, "token") => fetch[q].token.rev <= revision /\ ~fetch[q].signed
    /\ (fetch[q].step \in {"recheck", "store"} \/ (At(q, "handler") /\ fetch[q].missed)) => Fills(q)
    /\ fetch[q].missed => fetch[q].step \in {"handler", "store", "answer"}
    /\ At(q, "store") =>
         /\ fetch[q].body \in Bodies
         /\ fetch[q].body.page = fetch[q].page /\ fetch[q].body.whose = Nobody
         /\ AtLeast(fetch[q].body.at, fetch[q].token)

CacheInv ==
    /\ CacheTypeOK
    /\ StoredOK
    /\ \A q \in Fetches : FetchOK(q)
    /\ FreshPages
    /\ FlightsAreFlown
    /\ FilledOnce

LEMMA NoFetchTyped ==
    NoFetch \in [step : Steps, at : Replicas \cup {NoReplica}, page : Pages \cup {NoPage},
                 signed : BOOLEAN, since : Versions, token : Versions, missed : BOOLEAN,
                 body : Bodies \cup {NoBody}]
BY DEF NoFetch, NoBody, Versions, Steps

\* Of a fetch that is not open there is nothing to say
LEMMA IdleOK ==
    ASSUME NEW q \in Fetches, fetch'[q] = NoFetch, revision' \in Nat, minute' \in Nat
    PROVE  FetchOK(q)'
BY DEF FetchOK, At, NoFetch, NoBody, AtLeast, Now, Looking, Fills

LEMMA CacheBegins == CacheInit => CacheInv
<1> SUFFICES ASSUME CacheInit PROVE CacheInv
  OBVIOUS
<1>1. CacheTypeOK
  <2>1. Absent \in [body : Bodies \cup {NoBody}, by : SUBSET Replicas] BY DEF Absent
  <2> QED BY <2>1, NoFetchTyped DEF CacheInit, CacheTypeOK, At, NoFetch
<1>2. StoredOK BY DEF CacheInit, StoredOK
<1>3. ASSUME NEW q \in Fetches PROVE FetchOK(q)
  BY DEF CacheInit, FetchOK, At, NoFetch, NoBody, AtLeast, Now, Looking, Fills
<1>4. FreshPages /\ FilledOnce BY DEF CacheInit, FreshPages, FilledOnce, At, NoFetch
<1>5. FlightsAreFlown
  <2> SUFFICES ASSUME NEW p \in Replicas
               PROVE  slots[p] = Cardinality(Open(p)) /\ slots[p] <= site.slots
    BY DEF CacheInit, FlightsAreFlown, At, NoFetch, Open
  <2>1. Open(p) = {} BY DEF CacheInit, Open, NoFetch
  <2> QED BY <2>1, FS_EmptySet DEF CacheInit
<1> QED BY <1>1, <1>2, <1>3, <1>4, <1>5 DEF CacheInv

\* Only q moves, and only on its own record
Moves(q) ==
    /\ \A r \in Fetches : r # q => fetch'[r] = fetch[r]
    /\ fetch'[q].at = fetch[q].at

FetchTypes ==
    [step : Steps, at : Replicas \cup {NoReplica}, page : Pages \cup {NoPage},
     signed : BOOLEAN, since : Versions, token : Versions, missed : BOOLEAN,
     body : Bodies \cup {NoBody}]

\* What a fetch that is under way is typed as, and where it is
LEMMA UnderWay ==
    ASSUME CacheInv, NEW q \in Fetches, ~At(q, "idle")
    PROVE  /\ fetch[q] \in FetchTypes
           /\ fetch[q].at \in Replicas /\ fetch[q].page \in Pages
           /\ Key(q) \in Keys /\ Now \in Versions
           /\ revision \in Nat /\ minute \in Nat
<1>1. fetch[q] \in FetchTypes /\ fetch[q].at \in Replicas
  BY DEF CacheInv, CacheTypeOK, FetchTypes, At
<1>2. fetch[q].page \in Pages BY DEF CacheInv, FetchOK
<1>3. Key(q) \in Keys BY <1>1, <1>2 DEF Key, Keys, FetchTypes
<1>4. Now \in Versions /\ revision \in Nat /\ minute \in Nat
  BY DEF CacheInv, CacheTypeOK, Now, Versions
<1> QED BY <1>1, <1>2, <1>3, <1>4

\* Whoever has a flight is filling or done with it
LEMMA FlightOf ==
    ASSUME CacheInv, NEW q \in Fetches, Fills(q), fetch[q].at \in Replicas
    PROVE  fetch[q].step \in Flying
BY DEF CacheInv, FlightsAreFlown, Fills, Flight, Flying

\* A fetch has no flight in a replica it is not in, nor under another key
LEMMA OneFlight ==
    ASSUME CacheInv, NEW p \in Replicas, NEW f \in flights[p]
    PROVE  /\ f[2] \in Fetches /\ f[1] \in Keys /\ f = <<f[1], f[2]>>
           /\ fetch[f[2]].at = p /\ f = Flight(f[2]) /\ Fills(f[2])
<1>1. f \in Keys \X Fetches BY DEF CacheInv, CacheTypeOK
<1>2. fetch[f[2]].at = p /\ Key(f[2]) = f[1] BY <1>1 DEF CacheInv, FlightsAreFlown
<1>3. f = <<f[1], f[2]>> /\ f[1] \in Keys /\ f[2] \in Fetches BY <1>1
<1> QED BY <1>2, <1>3 DEF Flight, Fills

\* A step of q on its own record only keeps the flights, if it keeps its own
LEMMA MoveFlies ==
    ASSUME CacheInv, NEW q \in Fetches, Moves(q), UNCHANGED <<site, flights, slots>>,
           Fills(q) => Key(q)' = Key(q) /\ fetch'[q].step \in Flying,
           fetch'[q].step = "waiting" =>
             \E r \in Fetches : <<Key(q)', r>> \in flights[fetch[q].at]
    PROVE  FlightsAreFlown'
<1> USE DEF Moves
<1> SUFFICES ASSUME NEW p \in Replicas
             PROVE  /\ \A r \in Open(p)' : At(r, "waiting")' =>
                         \E x \in Fetches : <<Key(r)', x>> \in flights[p]
                    /\ \A f \in flights[p] :
                         /\ fetch'[f[2]].at = p /\ Key(f[2])' = f[1]
                         /\ fetch'[f[2]].step \in Flying
                    /\ \A f, g \in flights[p] : f[1] = g[1] => f = g
                    /\ slots[p] = Cardinality(Open(p)') /\ slots[p] <= site.slots
  BY DEF FlightsAreFlown, Flying
<1>1. Open(p)' = Open(p) BY DEF Open
<1>2. ASSUME NEW r \in Open(p)', At(r, "waiting")'
      PROVE  \E x \in Fetches : <<Key(r)', x>> \in flights[p]
  <2>1. CASE r = q BY <1>2, <2>1 DEF Open, At
  <2>2. CASE r # q
    <3>1. r \in Open(p) /\ At(r, "waiting") /\ Key(r)' = Key(r)
      BY <1>1, <1>2, <2>2 DEF Open, At, Key
    <3> QED BY <3>1 DEF CacheInv, FlightsAreFlown
  <2> QED BY <2>1, <2>2
<1>3. ASSUME NEW f \in flights[p]
      PROVE  fetch'[f[2]].at = p /\ Key(f[2])' = f[1] /\ fetch'[f[2]].step \in Flying
  <2>1. f[2] \in Fetches /\ fetch[f[2]].at = p /\ Key(f[2]) = f[1] /\ Fills(f[2])
    BY OneFlight DEF CacheInv, FlightsAreFlown, Flight
  <2>2. CASE f[2] = q BY <2>1, <2>2
  <2>3. CASE f[2] # q
    <3>1. fetch'[f[2]] = fetch[f[2]] BY <2>1, <2>3
    <3> QED BY <2>1, <3>1, FlightOf DEF Key
  <2> QED BY <2>2, <2>3
<1> QED BY <1>1, <1>2, <1>3 DEF CacheInv, FlightsAreFlown

\* A step of q that touches neither Redis, nor flights, nor slots, keeps everything
\* if it keeps what is said of q
LEMMA MoveKeeps ==
    ASSUME CacheInv, NEW q \in Fetches, ~At(q, "idle"), Moves(q),
           fetch' = [fetch EXCEPT ![q] = fetch'[q]],
           UNCHANGED <<site, revision, minute, stored, flights, slots>>,
           fetch'[q] \in FetchTypes, fetch'[q].step # "idle", FetchOK(q)',
           Fills(q) => Key(q)' = Key(q) /\ fetch'[q].step \in Flying,
           fetch'[q].step = "waiting" =>
             \E r \in Fetches : <<Key(q)', r>> \in flights[fetch[q].at],
           fetch'[q].step \in {"handler", "store"} /\ fetch'[q].missed =>
             fetch[q].at \notin stored[Key(q)'].by,
           At(q, "answer")' /\ fetch'[q].body # NoBody =>
             /\ fetch'[q].body.page = fetch'[q].page
             /\ AtLeast(fetch'[q].body.at, fetch'[q].since)
             /\ fetch'[q].body.whose \in {Nobody, q}
    PROVE  CacheInv'
<1> USE DEF Moves
<1>0. fetch[q].at \in Replicas /\ fetch[q].at # NoReplica BY UnderWay
<1>1. CacheTypeOK' BY <1>0 DEF CacheInv, CacheTypeOK, FetchTypes, At
<1>2. StoredOK' BY DEF CacheInv, StoredOK, AtLeast
<1>3. ASSUME NEW r \in Fetches PROVE FetchOK(r)'
  <2>1. CASE r = q BY <2>1
  <2>2. CASE r # q
    <3>1. fetch'[r] = fetch[r] BY <2>2
    <3> QED BY <3>1 DEF CacheInv, FetchOK, At, Fills, Flight, Key, Now, AtLeast
  <2> QED BY <2>1, <2>2
<1>4. FreshPages'
  <2> SUFFICES ASSUME NEW r \in Fetches, At(r, "answer")', fetch'[r].body # NoBody
               PROVE  /\ fetch'[r].body.page = fetch'[r].page
                      /\ AtLeast(fetch'[r].body.at, fetch'[r].since)
                      /\ fetch'[r].body.whose \in {Nobody, r}
    BY DEF FreshPages, AtLeast
  <2> QED BY DEF CacheInv, FreshPages, At
<1>5. FlightsAreFlown' BY MoveFlies
<1>6. FilledOnce'
  <2> SUFFICES ASSUME NEW r \in Fetches, fetch'[r].step \in {"handler", "store"},
                      fetch'[r].missed
               PROVE  fetch'[r].at \notin stored[Key(r)'].by
    BY DEF FilledOnce
  <2>1. CASE r = q BY <2>1
  <2>2. CASE r # q
    <3>1. fetch'[r] = fetch[r] /\ Key(r)' = Key(r) BY <2>2 DEF Key
    <3> QED BY <3>1 DEF CacheInv, FilledOnce
  <2> QED BY <2>1, <2>2
<1> QED BY <1>1, <1>2, <1>3, <1>4, <1>5, <1>6 DEF CacheInv

\* A fetch that is not filling has no flight under any key
LEMMA NoFlight ==
    ASSUME CacheInv, NEW q \in Fetches, ~At(q, "idle"), fetch[q].step \notin Flying, NEW k
    PROVE  <<k, q>> \notin flights[fetch[q].at]
<1> SUFFICES ASSUME <<k, q>> \in flights[fetch[q].at] PROVE FALSE
  OBVIOUS
<1>1. fetch[q].at \in Replicas BY UnderWay
<1>2. Fills(q) BY <1>1, OneFlight
<1> QED BY <1>1, <1>2, FlightOf

\* While the token is made, nothing hangs on it yet
LEMMA ReadRevisionKeeps ==
    ASSUME CacheInv, NEW q \in Fetches, ReadRevision(q)
    PROVE  CacheInv'
<1> USE DEF At, Flying, Looking
<1>1. ~At(q, "idle") /\ fetch[q].step = "revision" BY DEF ReadRevision
<1>2. /\ fetch[q] \in FetchTypes /\ fetch[q].at \in Replicas /\ fetch[q].page \in Pages
      /\ revision \in Nat /\ minute \in Nat /\ Now \in Versions
  BY <1>1, UnderWay
<1>3. fetch \in [Fetches -> FetchTypes] BY DEF CacheInv, CacheTypeOK, FetchTypes
<1>4. \E s \in {"handler", "token"}, v \in Versions :
        /\ fetch' = [fetch EXCEPT ![q].step = s, ![q].token = v]
        /\ s = "token" => v.rev = revision /\ ~fetch[q].signed
  <2>1. CASE Goto(q, "handler")
    <3>1. fetch' = [fetch EXCEPT ![q].step = "handler", ![q].token = fetch[q].token]
      BY <1>2, <1>3, <2>1 DEF Goto, FetchTypes
    <3> QED BY <1>2, <3>1 DEF FetchTypes
  <2>2. CASE fetch' = [fetch EXCEPT
                 ![q].step = IF fetch[q].signed THEN "handler" ELSE "token",
                 ![q].token.rev = revision]
    <3> DEFINE v == [fetch[q].token EXCEPT !.rev = revision]
               s == IF fetch[q].signed THEN "handler" ELSE "token"
    <3>1. v \in Versions /\ v.rev = revision BY <1>2 DEF FetchTypes, Versions, Now
    <3>2. fetch' = [fetch EXCEPT ![q].step = s, ![q].token = v]
      BY <1>2, <1>3, <2>2 DEF FetchTypes
    <3> QED BY <3>1, <3>2
  <2> QED BY <2>1, <2>2 DEF ReadRevision
<1>5. PICK s \in {"handler", "token"}, v \in Versions :
        /\ fetch' = [fetch EXCEPT ![q].step = s, ![q].token = v]
        /\ s = "token" => v.rev = revision /\ ~fetch[q].signed
  BY <1>4
<1>6. fetch'[q] = [fetch[q] EXCEPT !.step = s, !.token = v] BY <1>3, <1>5
<1>7. UNCHANGED <<site, revision, minute, stored, flights, slots>> BY DEF ReadRevision
<1>8. Moves(q) /\ fetch' = [fetch EXCEPT ![q] = fetch'[q]]
  BY <1>2, <1>3, <1>5, <1>6 DEF Moves, FetchTypes
<1>9. ~Fills(q) /\ ~Fills(q)'
  BY <1>1, <1>2, <1>6, <1>7, NoFlight DEF Fills, Flight, FetchTypes
<1>10. fetch'[q] \in FetchTypes BY <1>2, <1>6 DEF FetchTypes, Steps
<1>11. FetchOK(q) BY DEF CacheInv
<1>12. ~fetch[q].missed BY <1>1, <1>11 DEF FetchOK
<1>13. FetchOK(q)'
  <2>1. fetch'[q].step = s /\ fetch'[q].token = v /\ fetch'[q].since = fetch[q].since
        /\ fetch'[q].page \in Pages /\ ~fetch'[q].missed /\ fetch'[q].signed = fetch[q].signed
    BY <1>2, <1>6, <1>12 DEF FetchTypes
  <2>2. AtLeast(Now, fetch[q].since)' /\ AtLeast(Now, fetch[q].since)
    BY <1>7, <1>11, <2>1 DEF FetchOK, AtLeast, Now
  <2>3. At(q, "token")' => v.rev >= fetch[q].since.rev /\ v.rev <= revision /\ ~fetch[q].signed
    BY <1>2, <1>5, <2>1, <2>2 DEF AtLeast, Now
  <2> QED BY <1>7, <1>9, <2>1, <2>2, <2>3 DEF FetchOK
<1> QED BY <1>1, <1>2, <1>6, <1>7, <1>8, <1>9, <1>10, <1>12, <1>13, MoveKeeps DEF FetchTypes

LEMMA TakeTokenKeeps ==
    ASSUME CacheInv, NEW q \in Fetches, TakeToken(q)
    PROVE  CacheInv'
<1> USE DEF At, Flying, Looking
<1>1. ~At(q, "idle") /\ fetch[q].step = "token" BY DEF TakeToken
<1>2. /\ fetch[q] \in FetchTypes /\ fetch[q].at \in Replicas /\ fetch[q].page \in Pages
      /\ revision \in Nat /\ minute \in Nat /\ Now \in Versions
  BY <1>1, UnderWay
<1>3. fetch \in [Fetches -> FetchTypes] BY DEF CacheInv, CacheTypeOK, FetchTypes
<1> DEFINE v == [fetch[q].token EXCEPT !.min = minute]
<1>4. v \in Versions /\ v.rev = fetch[q].token.rev /\ v.min = minute
  BY <1>2 DEF FetchTypes, Versions, Now
<1>5. fetch' = [fetch EXCEPT ![q].step = "lookup", ![q].token = v]
  BY <1>2, <1>3 DEF TakeToken, FetchTypes
<1> HIDE DEF v
<1>6. fetch'[q] = [fetch[q] EXCEPT !.step = "lookup", !.token = v] BY <1>3, <1>5
<1>7. UNCHANGED <<site, revision, minute, stored, flights, slots>> BY DEF TakeToken
<1>8. Moves(q) /\ fetch' = [fetch EXCEPT ![q] = fetch'[q]]
  BY <1>2, <1>3, <1>5, <1>6 DEF Moves, FetchTypes
<1>9. ~Fills(q) /\ ~Fills(q)'
  BY <1>1, <1>2, <1>6, <1>7, NoFlight DEF Fills, Flight, FetchTypes
<1>10. fetch'[q] \in FetchTypes BY <1>2, <1>4, <1>6 DEF FetchTypes, Steps
<1>11. FetchOK(q) BY DEF CacheInv
<1>12. ~fetch[q].missed BY <1>1, <1>11 DEF FetchOK
<1>13. FetchOK(q)'
  BY <1>1, <1>2, <1>4, <1>6, <1>7, <1>9, <1>11, <1>12
     DEF FetchOK, FetchTypes, Versions, Now, AtLeast
<1> QED BY <1>1, <1>2, <1>6, <1>7, <1>8, <1>9, <1>10, <1>12, <1>13, MoveKeeps DEF FetchTypes

\* A step of a fetch whose token stays as it is
Step(q, s, m, b) ==
    /\ fetch' = [fetch EXCEPT ![q].step = s, ![q].missed = m, ![q].body = b]
    /\ UNCHANGED <<site, revision, minute, stored, flights, slots>>

\* A body that q may keep for others, and one that it may answer with
MayStore(q, b) ==
    b \in Bodies /\ b.page = fetch[q].page /\ b.whose = Nobody /\ AtLeast(b.at, fetch[q].token)
MayAnswer(q, b) ==
    b # NoBody => /\ b.page = fetch[q].page /\ AtLeast(b.at, fetch[q].since)
                  /\ b.whose \in {Nobody, q}

\* What follows such a step, given what is known of its new values
LEMMA StepKeeps ==
    ASSUME CacheInv, NEW q \in Fetches, ~At(q, "idle"),
           NEW s \in {"register", "waiting", "recheck", "handler", "store", "answer"},
           NEW m \in BOOLEAN, NEW b \in Bodies \cup {NoBody}, Step(q, s, m, b),
           Fills(q) => s \in Flying,
           s \in Looking => fetch[q].step \in Looking \/ Fills(q),
           s \in {"recheck", "store"} \/ (s = "handler" /\ m) => Fills(q),
           m => s \in {"handler", "store", "answer"},
           s = "waiting" => \E r \in Fetches : <<Key(q), r>> \in flights[fetch[q].at],
           s = "store" => MayStore(q, b),
           s \in {"handler", "store"} /\ m => fetch[q].at \notin stored[Key(q)].by,
           s = "answer" => MayAnswer(q, b)
    PROVE  CacheInv'
<1>1. /\ fetch[q] \in FetchTypes /\ fetch[q].at \in Replicas /\ fetch[q].page \in Pages
      /\ revision \in Nat /\ minute \in Nat /\ Now \in Versions
  BY UnderWay
<1>2. fetch \in [Fetches -> FetchTypes] BY DEF CacheInv, CacheTypeOK, FetchTypes
<1>3. fetch'[q] = [fetch[q] EXCEPT !.step = s, !.missed = m, !.body = b]
  BY <1>2 DEF Step
<1>4. UNCHANGED <<site, revision, minute, stored, flights, slots>> BY DEF Step
<1>5. Moves(q) /\ fetch' = [fetch EXCEPT ![q] = fetch'[q]]
  BY <1>1, <1>2, <1>3 DEF Moves, FetchTypes, Step
<1>6. Key(q)' = Key(q) /\ Fills(q)' = Fills(q)
  BY <1>1, <1>3, <1>4 DEF Key, Fills, Flight, FetchTypes
<1>7. fetch'[q] \in FetchTypes BY <1>1, <1>3 DEF FetchTypes, Steps
<1>8. FetchOK(q) BY DEF CacheInv
<1>9. FetchOK(q)'
  <2>1. AtLeast(Now, fetch[q].since)' /\ ~At(q, "token")' /\ ~At(q, "idle")'
    BY <1>1, <1>3, <1>4, <1>8 DEF FetchOK, FetchTypes, At, AtLeast, Now
  <2>2. (fetch'[q].step \in Looking \/ Fills(q)') =>
          /\ AtLeast(fetch'[q].token, fetch'[q].since) /\ AtLeast(Now, fetch[q].token)'
          /\ ~fetch'[q].signed
    BY <1>1, <1>3, <1>4, <1>6, <1>8 DEF FetchOK, FetchTypes, AtLeast, Now
  <2>3. /\ (fetch'[q].step \in {"recheck", "store"} \/ (At(q, "handler")' /\ fetch'[q].missed)) =>
             Fills(q)'
        /\ fetch'[q].missed => fetch'[q].step \in {"handler", "store", "answer"}
    BY <1>1, <1>3, <1>6 DEF FetchTypes, At
  <2>4. At(q, "store")' =>
          /\ fetch'[q].body \in Bodies
          /\ fetch'[q].body.page = fetch'[q].page /\ fetch'[q].body.whose = Nobody
          /\ AtLeast(fetch'[q].body.at, fetch'[q].token)
    BY <1>1, <1>3 DEF FetchTypes, At, MayStore, AtLeast
  <2>5. fetch'[q].page \in Pages BY <1>1, <1>3 DEF FetchTypes
  <2> QED BY <2>1, <2>2, <2>3, <2>4, <2>5 DEF FetchOK, AtLeast
<1>10. At(q, "answer")' /\ fetch'[q].body # NoBody =>
         /\ fetch'[q].body.page = fetch'[q].page
         /\ AtLeast(fetch'[q].body.at, fetch'[q].since)
         /\ fetch'[q].body.whose \in {Nobody, q}
  BY <1>1, <1>3 DEF MayAnswer, At, FetchTypes, AtLeast
<1>11. fetch'[q].step = s /\ fetch'[q].missed = m BY <1>1, <1>3 DEF FetchTypes
<1> QED BY <1>4, <1>5, <1>6, <1>7, <1>9, <1>10, <1>11, MoveKeeps DEF Flying

\* A page that Redis has may be answered with
LEMMA HitMayAnswer ==
    ASSUME CacheInv, NEW q \in Fetches, fetch[q].step \in Looking, stored[Key(q)] # Absent
    PROVE  stored[Key(q)].body \in Bodies /\ MayAnswer(q, stored[Key(q)].body)
<1>1. ~At(q, "idle") BY DEF At, Looking
<1>2. /\ fetch[q] \in FetchTypes /\ Key(q) \in Keys
  BY <1>1, UnderWay
<1>3. /\ stored[Key(q)].body \in Bodies
      /\ stored[Key(q)].body.page = fetch[q].page /\ stored[Key(q)].body.whose = Nobody
      /\ AtLeast(stored[Key(q)].body.at, fetch[q].token)
  BY <1>2 DEF CacheInv, StoredOK, Key
<1>4. AtLeast(fetch[q].token, fetch[q].since) BY DEF CacheInv, FetchOK
<1>5. AtLeast(stored[Key(q)].body.at, fetch[q].since)
  BY <1>2, <1>3, <1>4 DEF AtLeast, FetchTypes, Bodies, Versions
<1> QED BY <1>3, <1>5 DEF MayAnswer

LEMMA LookupKeeps == ASSUME CacheInv, NEW q \in Fetches, Lookup(q) PROVE CacheInv'
<1>1. ~At(q, "idle") /\ fetch[q].step = "lookup" BY DEF Lookup, At
<1>2. fetch[q] \in FetchTypes /\ ~fetch[q].missed /\ ~Fills(q)
  BY <1>1, UnderWay, FlightOf DEF CacheInv, FetchOK, Flying
<1>3. fetch \in [Fetches -> FetchTypes] BY DEF CacheInv, CacheTypeOK, FetchTypes
<1>4. ASSUME NEW s \in {"register", "handler"}, Goto(q, s) PROVE CacheInv'
  <2>1. Step(q, s, FALSE, fetch[q].body)
    BY <1>2, <1>3, <1>4 DEF Lookup, Goto, Step, FetchTypes
  <2>2. fetch[q].body \in Bodies \cup {NoBody} BY <1>2 DEF FetchTypes
  <2>3. s \in {"register", "waiting", "recheck", "handler", "store", "answer"}
        /\ s \notin {"waiting", "recheck", "store", "answer"}
    BY <1>4
  <2>4. s \in Looking => fetch[q].step \in Looking BY <1>1 DEF Looking
  <2> QED BY <1>1, <1>2, <2>1, <2>2, <2>3, <2>4, StepKeeps
<1>5. ASSUME stored[Key(q)] # Absent, Serve(q, stored[Key(q)].body) PROVE CacheInv'
  <2>1. stored[Key(q)].body \in Bodies /\ MayAnswer(q, stored[Key(q)].body)
    BY <1>1, <1>5, HitMayAnswer DEF Looking
  <2>2. Step(q, "answer", FALSE, stored[Key(q)].body)
    BY <1>2, <1>3, <1>5 DEF Lookup, Serve, Step, FetchTypes
  <2> QED BY <1>1, <1>2, <2>1, <2>2, StepKeeps DEF Flying, Looking
<1> QED BY <1>4, <1>5 DEF Lookup

LEMMA GiveUpKeeps == ASSUME CacheInv, NEW q \in Fetches, GiveUp(q) PROVE CacheInv'
<1>1. ~At(q, "idle") /\ fetch[q].step = "waiting" BY DEF GiveUp, At
<1>2. fetch[q] \in FetchTypes /\ ~fetch[q].missed /\ ~Fills(q)
  BY <1>1, UnderWay, FlightOf DEF CacheInv, FetchOK, Flying
<1>3. fetch \in [Fetches -> FetchTypes] BY DEF CacheInv, CacheTypeOK, FetchTypes
<1>4. Step(q, "answer", FALSE, NoBody)
  BY <1>2, <1>3 DEF GiveUp, Serve, Step, FetchTypes
<1> QED BY <1>1, <1>2, <1>4, StepKeeps DEF Flying, Looking, MayAnswer

LEMMA RecheckKeeps == ASSUME CacheInv, NEW q \in Fetches, Recheck(q) PROVE CacheInv'
<1>1. ~At(q, "idle") /\ fetch[q].step = "recheck" BY DEF Recheck, At
<1>2. fetch[q] \in FetchTypes /\ ~fetch[q].missed /\ Fills(q)
      /\ fetch[q].at \in Replicas /\ Key(q) \in Keys
  BY <1>1, UnderWay DEF CacheInv, FetchOK, At
<1>3. fetch \in [Fetches -> FetchTypes] BY DEF CacheInv, CacheTypeOK, FetchTypes
<1>0. UNCHANGED <<site, revision, minute, stored, flights, slots>> BY DEF Recheck
<1>4. ASSUME stored[Key(q)] # Absent, Serve(q, stored[Key(q)].body) PROVE CacheInv'
  <2>1. stored[Key(q)].body \in Bodies /\ MayAnswer(q, stored[Key(q)].body)
    BY <1>1, <1>4, HitMayAnswer DEF Looking
  <2>2. Step(q, "answer", FALSE, stored[Key(q)].body)
    BY <1>0, <1>2, <1>3, <1>4 DEF Serve, Step, FetchTypes
  <2> QED BY <1>1, <1>2, <2>1, <2>2, StepKeeps DEF Flying, Looking
<1>5. ASSUME NEW m \in BOOLEAN, m => stored[Key(q)] = Absent,
             fetch' = [fetch EXCEPT ![q].step = "handler", ![q].missed = m]
      PROVE  CacheInv'
  <2>1. Step(q, "handler", m, fetch[q].body)
    BY <1>0, <1>2, <1>3, <1>5 DEF Step, FetchTypes
  <2>2. fetch[q].body \in Bodies \cup {NoBody} BY <1>2 DEF FetchTypes
  <2>3. m => fetch[q].at \notin stored[Key(q)].by BY <1>5 DEF Absent
  <2>4. "handler" \in Flying /\ "handler" \notin Looking BY DEF Flying, Looking
  <2> QED BY <1>1, <1>2, <2>1, <2>2, <2>3, <2>4, StepKeeps
<1> QED BY <1>4, <1>5 DEF Recheck

LEMMA LoadKeeps == ASSUME CacheInv, NEW q \in Fetches, Load(q) PROVE CacheInv'
<1>1. ~At(q, "idle") /\ fetch[q].step = "handler" BY DEF Load, At
<1>2. /\ fetch[q] \in FetchTypes /\ fetch[q].at \in Replicas /\ Key(q) \in Keys
      /\ fetch[q].page \in Pages /\ Now \in Versions
  BY <1>1, UnderWay
<1>3. fetch \in [Fetches -> FetchTypes] BY DEF CacheInv, CacheTypeOK, FetchTypes
<1>4. FetchOK(q) BY DEF CacheInv
<1>5. fetch[q].missed => Fills(q) /\ fetch[q].at \notin stored[Key(q)].by
  BY <1>1, <1>4 DEF CacheInv, FetchOK, FilledOnce, At
<1>6. ASSUME Serve(q, NoBody) PROVE CacheInv'
  <2>1. Step(q, "answer", fetch[q].missed, NoBody)
    BY <1>2, <1>3, <1>6 DEF Load, Serve, Step, FetchTypes
  <2>2. fetch[q].missed \in BOOLEAN /\ MayAnswer(q, NoBody) BY <1>2 DEF FetchTypes, MayAnswer
  <2>3. "answer" \in Flying /\ "answer" \notin Looking BY DEF Flying, Looking
  <2> QED BY <1>1, <1>2, <2>1, <2>2, <2>3, StepKeeps
<1> DEFINE b == [page |-> fetch[q].page, at |-> Now,
                 whose |-> IF fetch[q].signed THEN q ELSE Nobody]
           s == IF Fills(q) THEN "store" ELSE "answer"
<1>7. ASSUME fetch' = [fetch EXCEPT ![q].step = s, ![q].body = b] PROVE CacheInv'
  <2>1. Step(q, s, fetch[q].missed, b) BY <1>2, <1>3, <1>7 DEF Load, Step, FetchTypes
  <2>2. b \in Bodies /\ fetch[q].missed \in BOOLEAN BY <1>2 DEF Bodies, FetchTypes
  <2>3. MayAnswer(q, b) BY <1>4 DEF MayAnswer, FetchOK
  <2>4. Fills(q) => MayStore(q, b) BY <1>1, <1>4, <2>2 DEF MayStore, FetchOK
  <2> HIDE DEF b
  <2>5. CASE Fills(q)
    <3>1. s = "store" BY <2>5
    <3> QED BY <1>1, <1>2, <1>5, <2>1, <2>2, <2>4, <2>5, <3>1, StepKeeps DEF Flying
  <2>6. CASE ~Fills(q)
    <3>1. s = "answer" BY <2>6
    <3> QED BY <1>1, <1>2, <1>5, <2>1, <2>2, <2>3, <2>6, <3>1, StepKeeps DEF Looking
  <2> QED BY <2>5, <2>6
<1> QED BY <1>6, <1>7 DEF Load

LEMMA RegisterKeeps == ASSUME CacheInv, NEW q \in Fetches, Register(q) PROVE CacheInv'
<1> DEFINE p == fetch[q].at
<1>1. ~At(q, "idle") /\ fetch[q].step = "register" BY DEF Register, At
<1>2. /\ fetch[q] \in FetchTypes /\ p \in Replicas /\ Key(q) \in Keys
      /\ fetch[q].page \in Pages /\ fetch[q].body \in Bodies \cup {NoBody}
  BY <1>1, UnderWay DEF FetchTypes
<1>3. fetch \in [Fetches -> FetchTypes] BY DEF CacheInv, CacheTypeOK, FetchTypes
<1>4. ~fetch[q].missed /\ \A k : <<k, q>> \notin flights[p]
  BY <1>1, NoFlight DEF CacheInv, FetchOK, Flying
<1>5. ASSUME \E r \in Fetches : <<Key(q), r>> \in flights[p], Goto(q, "waiting"),
             UNCHANGED flights
      PROVE  CacheInv'
  <2>1. Step(q, "waiting", FALSE, fetch[q].body)
    BY <1>2, <1>3, <1>4, <1>5 DEF Register, Goto, Step, FetchTypes
  <2>2. ~Fills(q) BY <1>4 DEF Fills, Flight
  <2>3. fetch[q].step \in Looking BY <1>1 DEF Looking
  <2> QED BY <1>1, <1>2, <1>5, <2>1, <2>2, <2>3, StepKeeps
<1>6. ASSUME \A r \in Fetches : <<Key(q), r>> \notin flights[p], Goto(q, "recheck"),
             flights' = [flights EXCEPT ![p] = @ \cup {Flight(q)}]
      PROVE  CacheInv'
  <2>1. fetch'[q] = [fetch[q] EXCEPT !.step = "recheck"] BY <1>3, <1>6 DEF Goto
  <2>2. \A r \in Fetches : r # q => fetch'[r] = fetch[r] BY <1>3, <1>6 DEF Goto
  <2>3. UNCHANGED <<site, revision, minute, stored, slots>> BY DEF Register
  <2>4. fetch'[q] \in FetchTypes /\ fetch'[q].at = p BY <1>2, <2>1 DEF FetchTypes, Steps
  <2>5. \A r \in Fetches : Key(r)' = Key(r) /\ fetch'[r].at = fetch[r].at
    BY <1>2, <2>1, <2>2 DEF Key, FetchTypes
  <2>6. flights \in [Replicas -> SUBSET (Keys \X Fetches)] BY DEF CacheInv, CacheTypeOK
  <2>7. Flight(q) \in Keys \X Fetches BY <1>2 DEF Flight
  <2>8. \A r \in Fetches : r # q /\ fetch[r].at \in Replicas => Fills(r)' = Fills(r)
    BY <1>2, <1>6, <2>5, <2>6 DEF Fills, Flight
  <2>9. Fills(q)' BY <1>2, <1>6, <2>5, <2>6 DEF Fills, Flight
  <2>10. CacheTypeOK'
    <3>1. fetch' \in [Fetches -> FetchTypes] BY <1>3, <1>6, <2>1, <2>2, <2>4 DEF Goto
    <3>2. flights' \in [Replicas -> SUBSET (Keys \X Fetches)] BY <1>6, <2>6, <2>7
    <3>3. p # NoReplica BY <1>2
    <3> QED BY <1>1, <1>2, <2>1, <2>2, <2>3, <2>4, <3>1, <3>2, <3>3
           DEF CacheInv, CacheTypeOK, FetchTypes, At
  <2>11. StoredOK' BY <2>3 DEF CacheInv, StoredOK, AtLeast
  <2>12. ASSUME NEW r \in Fetches PROVE FetchOK(r)'
    <3>1. CASE r = q
      <4>1. FetchOK(q) BY DEF CacheInv
      <4> QED BY <1>1, <1>2, <1>4, <2>1, <2>3, <2>9, <3>1, <4>1
             DEF FetchOK, FetchTypes, At, AtLeast, Now, Looking
    <3>2. CASE r # q
      <4>1. FetchOK(r) /\ fetch'[r] = fetch[r] BY <2>2, <3>2 DEF CacheInv
      <4>2. CASE fetch[r].at \in Replicas
        BY <2>3, <2>8, <3>2, <4>1, <4>2 DEF FetchOK, At, AtLeast, Now
      <4>3. CASE fetch[r].at \notin Replicas
        <5>1. At(r, "idle") BY <4>3, <1>3 DEF CacheInv, CacheTypeOK, FetchTypes
        <5> QED BY <2>3, <4>1, <5>1, IdleOK DEF CacheInv, CacheTypeOK, FetchOK
      <4> QED BY <4>2, <4>3
    <3> QED BY <3>1, <3>2
  <2>13. FreshPages'
    BY <1>2, <2>1, <2>2 DEF CacheInv, FreshPages, At, FetchTypes, AtLeast
  <2>14. FilledOnce'
    BY <1>2, <2>1, <2>2, <2>3, <2>5 DEF CacheInv, FilledOnce, FetchTypes
  <2>15. FlightsAreFlown'
    <3> SUFFICES ASSUME NEW v \in Replicas
                 PROVE  /\ \A r \in Open(v)' : At(r, "waiting")' =>
                             \E x \in Fetches : <<Key(r)', x>> \in flights'[v]
                        /\ \A f \in flights'[v] :
                             /\ fetch'[f[2]].at = v /\ Key(f[2])' = f[1]
                             /\ fetch'[f[2]].step \in Flying
                        /\ \A f, g \in flights'[v] : f[1] = g[1] => f = g
                        /\ slots[v] = Cardinality(Open(v)') /\ slots[v] <= site.slots
      BY <2>3 DEF FlightsAreFlown, Flying
    <3>1. Open(v)' = Open(v) BY <2>5 DEF Open
    <3>2. flights'[v] = IF v = p THEN flights[v] \cup {Flight(q)} ELSE flights[v]
      BY <1>2, <1>6, <2>6
    <3>3. ASSUME NEW r \in Open(v)', At(r, "waiting")'
          PROVE  \E x \in Fetches : <<Key(r)', x>> \in flights'[v]
      <4>1. r # q BY <1>2, <2>1, <3>3 DEF At, FetchTypes
      <4>2. r \in Open(v) /\ At(r, "waiting") /\ Key(r)' = Key(r)
        BY <2>2, <2>5, <3>1, <3>3, <4>1 DEF At, Open
      <4>3. \E x \in Fetches : <<Key(r), x>> \in flights[v]
        BY <4>2 DEF CacheInv, FlightsAreFlown
      <4> QED BY <3>2, <4>2, <4>3
    <3>4. ASSUME NEW f \in flights[v]
          PROVE  /\ fetch'[f[2]].at = v /\ Key(f[2])' = f[1]
                 /\ fetch'[f[2]].step \in Flying
      <4>1. f[2] \in Fetches /\ fetch[f[2]].at = v /\ Key(f[2]) = f[1] /\ Fills(f[2])
        BY OneFlight DEF Flight
      <4>2. f[2] # q BY <1>4, <4>1 DEF Fills, Flight
      <4> QED BY <2>2, <2>5, <4>1, <4>2, FlightOf
    <3>5. ASSUME v = p
          PROVE  /\ fetch'[Flight(q)[2]].at = v /\ Key(Flight(q)[2])' = Flight(q)[1]
                 /\ fetch'[Flight(q)[2]].step \in Flying
                 /\ \A f \in flights[v] : f[1] # Flight(q)[1]
      <4>1. \A f \in flights[v] : f[1] # Key(q) BY <1>6, <2>6, <3>5
      <4> QED BY <1>2, <2>1, <2>4, <2>5, <3>5, <4>1 DEF Flight, Flying, FetchTypes
    <3>6. /\ \A f, g \in flights[v] : f[1] = g[1] => f = g
          /\ slots[v] = Cardinality(Open(v)) /\ slots[v] <= site.slots
      BY DEF CacheInv, FlightsAreFlown
    <3>7. \A f, g \in flights'[v] : f[1] = g[1] => f = g BY <3>2, <3>5, <3>6
    <3>8. \A f \in flights'[v] :
            /\ fetch'[f[2]].at = v /\ Key(f[2])' = f[1]
            /\ fetch'[f[2]].step \in Flying
      <4>1. CASE v # p BY <3>2, <3>4, <4>1
      <4>2. CASE v = p
        <5>1. \A f \in flights'[v] : f \in flights[v] \/ f = Flight(q) BY <3>2, <4>2
        <5>2. CASE p = v
          <6> SUFFICES ASSUME NEW f \in flights'[v]
                       PROVE  /\ fetch'[f[2]].at = v /\ Key(f[2])' = f[1]
                              /\ fetch'[f[2]].step \in Flying
            OBVIOUS
          <6>1. CASE f \in flights[v] BY <3>4, <6>1
          <6>2. CASE f = Flight(q)
            <7>1. f[2] = q /\ f[1] = Key(q) BY <6>2 DEF Flight
            <7>2. fetch'[q].at = v /\ fetch'[q].step = "recheck"
              BY <1>2, <2>1, <2>4, <4>2 DEF FetchTypes
            <7>3. Key(f[2])' = f[1] BY <2>5, <7>1
            <7> QED BY <7>1, <7>2, <7>3 DEF Flying
          <6> QED BY <5>1, <6>1, <6>2
        <5> QED BY <4>2, <5>2
      <4> QED BY <4>1, <4>2
    <3> QED BY <3>1, <3>3, <3>6, <3>7, <3>8
  <2> QED BY <2>10, <2>11, <2>12, <2>13, <2>14, <2>15 DEF CacheInv
<1> QED BY <1>5, <1>6 DEF Register

LEMMA StoreKeeps == ASSUME CacheInv, NEW q \in Fetches, Store(q) PROVE CacheInv'
<1> DEFINE p == fetch[q].at
           b == fetch[q].body
<1>1. ~At(q, "idle") /\ fetch[q].step = "store" BY DEF Store, At
<1>2. /\ fetch[q] \in FetchTypes /\ p \in Replicas /\ Key(q) \in Keys
      /\ fetch[q].page \in Pages /\ Now \in Versions
  BY <1>1, UnderWay
<1>3. fetch \in [Fetches -> FetchTypes] BY DEF CacheInv, CacheTypeOK, FetchTypes
<1>4. FetchOK(q) BY DEF CacheInv
<1>5. /\ Fills(q) /\ b \in Bodies /\ b.page = fetch[q].page /\ b.whose = Nobody
      /\ AtLeast(b.at, fetch[q].token) /\ AtLeast(fetch[q].token, fetch[q].since)
  BY <1>1, <1>4 DEF FetchOK, At, Looking
<1>6. AtLeast(b.at, fetch[q].since) BY <1>2, <1>5 DEF AtLeast, FetchTypes, Bodies, Versions
<1>7. UNCHANGED <<site, revision, minute, flights, slots>> /\ Goto(q, "answer") BY DEF Store
<1>8. ASSUME UNCHANGED stored PROVE CacheInv'
  <2>1. Step(q, "answer", fetch[q].missed, b)
    BY <1>2, <1>3, <1>7, <1>8 DEF Goto, Step, FetchTypes
  <2>2. fetch[q].missed \in BOOLEAN /\ MayAnswer(q, b)
    BY <1>2, <1>5, <1>6 DEF FetchTypes, MayAnswer
  <2>3. "answer" \in Flying /\ "answer" \notin Looking BY DEF Flying, Looking
  <2> QED BY <1>1, <1>2, <1>5, <2>1, <2>2, <2>3, StepKeeps
<1>9. ASSUME stored' = [stored EXCEPT ![Key(q)] =
                          [body |-> b, by |-> stored[Key(q)].by \cup {p}]]
      PROVE  CacheInv'
  <2>1. fetch'[q] = [fetch[q] EXCEPT !.step = "answer"] BY <1>3, <1>7 DEF Goto
  <2>2. \A r \in Fetches : r # q => fetch'[r] = fetch[r] BY <1>3, <1>7 DEF Goto
  <2>3. fetch'[q] \in FetchTypes /\ fetch'[q].at = p BY <1>2, <2>1 DEF FetchTypes, Steps
  <2>4. \A r \in Fetches : Key(r)' = Key(r) /\ fetch'[r].at = fetch[r].at
    BY <1>2, <2>1, <2>2 DEF Key, FetchTypes
  <2>5. \A r \in Fetches : Fills(r)' = Fills(r) BY <1>7, <2>4 DEF Fills, Flight
  <2>6. Moves(q) BY <2>2, <2>3 DEF Moves
  <2>7. stored \in [Keys -> [body : Bodies \cup {NoBody}, by : SUBSET Replicas]]
    BY DEF CacheInv, CacheTypeOK
  <2>8. \A k \in Keys : stored'[k] =
          IF k = Key(q) THEN [body |-> b, by |-> stored[k].by \cup {p}] ELSE stored[k]
    BY <1>2, <1>9, <2>7
  <2>9. CacheTypeOK'
    <3>1. fetch' \in [Fetches -> FetchTypes] BY <1>3, <1>7, <2>1, <2>2, <2>3 DEF Goto
    <3>2. stored' \in [Keys -> [body : Bodies \cup {NoBody}, by : SUBSET Replicas]]
      BY <1>2, <1>5, <1>9, <2>7
    <3>3. \A r \in Fetches : At(r, "idle")' <=> fetch'[r].at = NoReplica
      BY <1>1, <1>2, <2>1, <2>2, <2>3 DEF CacheInv, CacheTypeOK, FetchTypes, At
    <3> QED BY <1>7, <3>1, <3>2, <3>3 DEF CacheInv, CacheTypeOK, FetchTypes
  <2>10. StoredOK'
    <3> SUFFICES ASSUME NEW k \in Keys, stored'[k] # Absent
                 PROVE  /\ stored'[k].body \in Bodies
                        /\ stored'[k].body.page = k[1] /\ stored'[k].body.whose = Nobody
                        /\ AtLeast(stored'[k].body.at, k[2])
      BY DEF StoredOK, AtLeast
    <3>1. CASE k = Key(q)
      <4>0. stored'[k] = [body |-> b, by |-> stored[k].by \cup {p}] BY <2>8, <3>1
      <4>1. stored'[k].body = b BY <4>0
      <4>2. k[1] = fetch[q].page /\ k[2] = fetch[q].token BY <3>1 DEF Key
      <4> QED BY <1>5, <4>1, <4>2
    <3>2. CASE k # Key(q) BY <2>8, <3>2 DEF CacheInv, StoredOK
    <3> QED BY <3>1, <3>2
  <2>11. ASSUME NEW r \in Fetches PROVE FetchOK(r)'
    <3>1. CASE r = q
      BY <1>1, <1>2, <1>4, <1>5, <1>7, <2>1, <2>5, <3>1
         DEF FetchOK, FetchTypes, At, AtLeast, Now, Looking
    <3>2. CASE r # q
      <4>1. FetchOK(r) /\ fetch'[r] = fetch[r] BY <2>2, <3>2 DEF CacheInv
      <4> QED BY <1>7, <2>5, <4>1 DEF FetchOK, At, AtLeast, Now
    <3> QED BY <3>1, <3>2
  <2>12. FreshPages'
    <3> SUFFICES ASSUME NEW r \in Fetches, At(r, "answer")', fetch'[r].body # NoBody
                 PROVE  /\ fetch'[r].body.page = fetch'[r].page
                        /\ AtLeast(fetch'[r].body.at, fetch'[r].since)
                        /\ fetch'[r].body.whose \in {Nobody, r}
      BY DEF FreshPages, AtLeast
    <3>1. CASE r = q BY <1>2, <1>5, <1>6, <2>1, <3>1 DEF FetchTypes
    <3>2. CASE r # q BY <2>2, <3>2 DEF CacheInv, FreshPages, At
    <3> QED BY <3>1, <3>2
  <2>13. FlightsAreFlown'
    <3>1. fetch'[q].step = "answer" BY <1>2, <2>1 DEF FetchTypes
    <3>2. "answer" \in Flying BY DEF Flying
    <3> QED BY <1>7, <2>4, <2>6, <3>1, <3>2, MoveFlies
  <2>14. FilledOnce'
    <3> SUFFICES ASSUME NEW r \in Fetches, fetch'[r].step \in {"handler", "store"},
                        fetch'[r].missed
                 PROVE  fetch'[r].at \notin stored'[Key(r)'].by
      BY DEF FilledOnce
    <3>1. r # q BY <1>2, <2>1 DEF FetchTypes
    <3>2. fetch'[r] = fetch[r] /\ Key(r)' = Key(r) BY <2>2, <2>4, <3>1
    <3>3. fetch[r].at \notin stored[Key(r)].by BY <3>2 DEF CacheInv, FilledOnce
    <3>4. ~At(r, "idle") BY <3>2 DEF At
    <3>5. Fills(r) /\ fetch[r].at \in Replicas /\ Key(r) \in Keys
      BY <3>2, <3>4, UnderWay DEF CacheInv, FetchOK, At
    <3>6. ~(fetch[r].at = p /\ Key(r) = Key(q))
      <4> SUFFICES ASSUME fetch[r].at = p, Key(r) = Key(q) PROVE FALSE
        OBVIOUS
      <4>1. Flight(r) \in flights[p] /\ Flight(q) \in flights[p] BY <1>5, <3>5 DEF Fills
      <4>2. Flight(r)[1] = Flight(q)[1] BY DEF Flight
      <4>3. Flight(r) = Flight(q) BY <1>2, <4>1, <4>2 DEF CacheInv, FlightsAreFlown
      <4> QED BY <3>1, <4>3 DEF Flight
    <3>7. CASE Key(r) = Key(q)
      <4>0. stored'[Key(r)] = [body |-> b, by |-> stored[Key(r)].by \cup {p}]
        BY <2>8, <3>5, <3>7
      <4>1. stored'[Key(r)].by = stored[Key(r)].by \cup {p} BY <4>0
      <4>2. fetch[r].at # p BY <3>6, <3>7
      <4> HIDE DEF p
      <4> QED BY <3>2, <3>3, <4>1, <4>2
    <3>8. CASE Key(r) # Key(q)
      <4>1. stored'[Key(r)] = stored[Key(r)] BY <2>8, <3>5, <3>8
      <4> QED BY <3>2, <3>3, <4>1
    <3> QED BY <3>7, <3>8
  <2> QED BY <2>9, <2>10, <2>11, <2>12, <2>13, <2>14 DEF CacheInv
<1> QED BY <1>8, <1>9 DEF Store

\* The slots of a replica are counted by finite sets
LEMMA OpenFinite == ASSUME NEW p PROVE IsFiniteSet(Open(p))
<1>1. Open(p) \in SUBSET Fetches BY DEF Open
<1> QED BY <1>1, FS_Subset

\* What becomes of a record that goes to another step
LEMMA StepTyped ==
    ASSUME NEW x \in FetchTypes, NEW s \in Steps, NEW y, y = [x EXCEPT !.step = s]
    PROVE  /\ y \in FetchTypes /\ y.step = s /\ y.at = x.at /\ y.page = x.page
           /\ y.token = x.token
BY DEF FetchTypes

LEMMA AnswerKeeps == ASSUME CacheInv, NEW q \in Fetches, Answer(q) PROVE CacheInv'
<1> DEFINE p == fetch[q].at
           woken == {r \in Open(p) : At(r, "waiting") /\ Key(r) = Key(q) /\ Fills(q)}
<1>1. ~At(q, "idle") /\ fetch[q].step = "answer" BY DEF Answer, At
<1>2. /\ fetch[q] \in FetchTypes /\ p \in Replicas /\ Key(q) \in Keys
      /\ Now \in Versions /\ revision \in Nat /\ minute \in Nat
  BY <1>1, UnderWay
<1>3. fetch \in [Fetches -> FetchTypes] BY DEF CacheInv, CacheTypeOK, FetchTypes
<1>4. fetch' = [r \in Fetches |-> IF r = q THEN NoFetch
                                  ELSE IF r \in woken THEN [fetch[r] EXCEPT !.step = "lookup"]
                                  ELSE fetch[r]]
  BY DEF Answer
<1>5. /\ UNCHANGED <<site, revision, minute, stored>>
      /\ flights' = [flights EXCEPT ![p] = @ \ {Flight(q)}]
      /\ slots' = [slots EXCEPT ![p] = @ - 1]
  BY DEF Answer
<1>6. fetch'[q] = NoFetch BY <1>4
<1>7. \A r \in Fetches : r # q /\ r \notin woken => fetch'[r] = fetch[r] BY <1>4
<1>8. \A r \in woken : /\ r \in Fetches /\ r # q /\ fetch[r].step = "waiting"
                       /\ fetch'[r] = [fetch[r] EXCEPT !.step = "lookup"]
  BY <1>1, <1>4 DEF Open, At
<1> HIDE DEF woken
<1>9. \A r \in Fetches : r # q => /\ fetch'[r] \in FetchTypes
                                  /\ fetch'[r].at = fetch[r].at /\ Key(r)' = Key(r)
  <2> SUFFICES ASSUME NEW r \in Fetches, r # q
               PROVE  /\ fetch'[r] \in FetchTypes
                      /\ fetch'[r].at = fetch[r].at /\ Key(r)' = Key(r)
    OBVIOUS
  <2>1. CASE r \in woken
    <3>1. fetch[r] \in FetchTypes /\ "lookup" \in Steps
          /\ fetch'[r] = [fetch[r] EXCEPT !.step = "lookup"]
      BY <1>3, <1>8, <2>1 DEF Steps
    <3>2. /\ fetch'[r] \in FetchTypes /\ fetch'[r].at = fetch[r].at
          /\ fetch'[r].page = fetch[r].page /\ fetch'[r].token = fetch[r].token
      BY <3>1, StepTyped
    <3> QED BY <3>2 DEF Key
  <2>2. CASE r \notin woken
    <3>1. fetch'[r] = fetch[r] BY <1>7, <2>2
    <3> QED BY <1>3, <3>1 DEF Key
  <2> QED BY <2>1, <2>2
<1>10. NoFetch \in FetchTypes BY NoFetchTyped DEF FetchTypes
<1>24. \A r \in woken : fetch'[r].step = "lookup"
  <2>1. "lookup" \in Steps BY DEF Steps
  <2>2. ASSUME NEW r \in woken PROVE fetch'[r].step = "lookup"
    <3>1. fetch[r] \in FetchTypes /\ fetch'[r] = [fetch[r] EXCEPT !.step = "lookup"]
      BY <1>3, <1>8
    <3> QED BY <2>1, <3>1, StepTyped
  <2> QED BY <2>2
<1>11. /\ flights \in [Replicas -> SUBSET (Keys \X Fetches)] /\ slots \in [Replicas -> Nat]
       /\ \A v \in Replicas :
            /\ slots[v] = Cardinality(Open(v)) /\ slots[v] <= site.slots
            /\ \A f, g \in flights[v] : f[1] = g[1] => f = g
  BY DEF CacheInv, CacheTypeOK, FlightsAreFlown
<1>12. \A v \in Replicas : flights'[v] = IF v = p THEN flights[v] \ {Flight(q)} ELSE flights[v]
  BY <1>2, <1>5, <1>11
<1>13. NoReplica \notin Replicas /\ NoFetch.at = NoReplica /\ NoFetch.step = "idle"
       /\ ~NoFetch.missed
  BY DEF NoFetch
<1>14. \A v \in Replicas : Open(v)' = IF v = p THEN Open(v) \ {q} ELSE Open(v)
  BY <1>2, <1>6, <1>9, <1>13 DEF Open
<1>15. slots[p] >= 1 /\ Cardinality(Open(p) \ {q}) = slots[p] - 1
  <2>1. q \in Open(p) BY DEF Open
  <2>2. Cardinality(Open(p) \ {q}) = Cardinality(Open(p)) - 1
    <3>1. IsFiniteSet(Open(p)) BY OpenFinite
    <3>2. DEFINE S == Open(p)
    <3>3. IsFiniteSet(S) /\ q \in S BY <2>1, <3>1
    <3> HIDE DEF S
    <3>4. Cardinality(S \ {q}) = Cardinality(S) - 1 BY <3>3, FS_RemoveElement
    <3> QED BY <3>4 DEF S
  <2>3. IsFiniteSet(Open(p) \ {q}) BY OpenFinite, FS_RemoveElement
  <2>4. Cardinality(Open(p) \ {q}) \in Nat BY <2>3, FS_CardinalityType
  <2>5. slots[p] \in Nat /\ slots[p] = Cardinality(Open(p)) BY <1>2, <1>11
  <2> QED BY <2>2, <2>4, <2>5
<1>16. CacheTypeOK'
  <2>1. fetch' \in [Fetches -> FetchTypes] BY <1>4, <1>6, <1>9, <1>10
  <2>2. flights' \in [Replicas -> SUBSET (Keys \X Fetches)] BY <1>5, <1>11
  <2>3. slots' \in [Replicas -> Nat] BY <1>2, <1>5, <1>11, <1>15
  <2>4. ASSUME NEW r \in Fetches PROVE At(r, "idle")' <=> fetch'[r].at = NoReplica
    <3>1. CASE r = q BY <1>6, <1>13, <3>1 DEF At
    <3>2. CASE r \in woken
      BY <1>3, <1>8, <3>2 DEF CacheInv, CacheTypeOK, At, FetchTypes
    <3>3. CASE r # q /\ r \notin woken BY <1>7, <3>3 DEF CacheInv, CacheTypeOK, At
    <3> QED BY <3>1, <3>2, <3>3
  <2> QED BY <1>5, <2>1, <2>2, <2>3, <2>4 DEF CacheInv, CacheTypeOK, FetchTypes
<1>17. StoredOK' BY <1>5 DEF CacheInv, StoredOK, AtLeast
<1>18. ASSUME NEW r \in Fetches, r # q, fetch[r].at \in Replicas
       PROVE  Fills(r)' <=> Fills(r)
  <2>1. Flight(r)' = Flight(r) BY <1>9, <1>18 DEF Flight
  <2>2. Flight(r) # Flight(q) BY <1>18 DEF Flight
  <2>3. Fills(r) <=> Flight(r) \in flights[fetch[r].at] BY DEF Fills
  <2>4. Fills(r)' <=> Flight(r)' \in flights'[fetch'[r].at] BY DEF Fills
  <2>5. fetch'[r].at = fetch[r].at BY <1>9, <1>18
  <2>6. Flight(r) \in flights'[fetch[r].at] <=> Flight(r) \in flights[fetch[r].at]
    BY <1>12, <1>18, <2>2
  <2> QED BY <2>1, <2>3, <2>4, <2>5, <2>6
<1>19. ASSUME NEW r \in Fetches PROVE FetchOK(r)'
  <2>1. CASE r = q BY <1>2, <1>5, <1>6, <2>1, IdleOK
  <2>2. CASE r \in woken
    <3>1. ~At(r, "idle") /\ r # q BY <1>8, <2>2 DEF At
    <3>2. fetch[r] \in FetchTypes /\ fetch[r].at \in Replicas BY <3>1, UnderWay
    <3>3. ~Fills(r) BY <1>8, <2>2, <3>1, <3>2, FlightOf DEF Flying
    <3>4. ~Fills(r)' BY <1>18, <3>1, <3>2, <3>3
    <3>5. FetchOK(r) BY DEF CacheInv
    <3> QED BY <1>5, <1>8, <2>2, <3>1, <3>2, <3>4, <3>5
           DEF FetchOK, At, AtLeast, Now, Looking, FetchTypes
  <2>3. CASE r # q /\ r \notin woken
    <3>1. FetchOK(r) /\ fetch'[r] = fetch[r] BY <1>7, <2>3 DEF CacheInv
    <3>2. CASE At(r, "idle") BY <1>2, <1>5, <3>1, <3>2, IdleOK DEF FetchOK
    <3>3. CASE ~At(r, "idle")
      <4>1. Fills(r)' <=> Fills(r) BY <1>18, <2>3, <3>3, UnderWay
      <4> QED BY <1>5, <3>1, <4>1 DEF FetchOK, At, AtLeast, Now
    <3> QED BY <3>2, <3>3
  <2> QED BY <2>1, <2>2, <2>3
<1>20. \A r \in Fetches : fetch'[r].step \in {"handler", "store", "answer"} =>
         r # q /\ fetch'[r] = fetch[r]
  BY <1>6, <1>7, <1>13, <1>24
<1>21. FreshPages' BY <1>20 DEF CacheInv, FreshPages, At, AtLeast
<1>22. FilledOnce' BY <1>5, <1>9, <1>20 DEF CacheInv, FilledOnce
<1>23. FlightsAreFlown'
  <2> SUFFICES ASSUME NEW v \in Replicas
               PROVE  /\ \A r \in Open(v)' : At(r, "waiting")' =>
                           \E x \in Fetches : <<Key(r)', x>> \in flights'[v]
                      /\ \A f \in flights'[v] :
                           /\ fetch'[f[2]].at = v /\ Key(f[2])' = f[1]
                           /\ fetch'[f[2]].step \in Flying
                      /\ \A f, g \in flights'[v] : f[1] = g[1] => f = g
                      /\ slots'[v] = Cardinality(Open(v)') /\ slots'[v] <= site.slots
    BY <1>5 DEF FlightsAreFlown, Flying
  <2>1. ASSUME NEW r \in Open(v)', At(r, "waiting")'
        PROVE  \E x \in Fetches : <<Key(r)', x>> \in flights'[v]
    <3>1. r \in Fetches /\ r # q BY <1>6, <1>13, <2>1 DEF Open, At
    <3>2. r \notin woken BY <1>24, <2>1 DEF At
    <3>3. fetch'[r] = fetch[r] BY <1>7, <3>1, <3>2
    <3>4. r \in Open(v) /\ At(r, "waiting") /\ Key(r)' = Key(r)
      BY <1>9, <2>1, <3>1, <3>3 DEF Open, At
    <3>5. PICK x \in Fetches : <<Key(r), x>> \in flights[v]
      BY <3>4 DEF CacheInv, FlightsAreFlown
    <3>6. CASE v # p BY <1>12, <3>4, <3>5, <3>6
    <3>7. CASE v = p
      <4>1. <<Key(r), x>> # Flight(q)
        <5> SUFFICES ASSUME <<Key(r), x>> = Flight(q) PROVE FALSE
          OBVIOUS
        <5>1. Key(r) = Key(q) BY DEF Flight
        <5>2. Fills(q) BY <3>5, <3>7 DEF Fills
        <5> QED BY <3>2, <3>4, <3>7, <5>1, <5>2 DEF woken
      <4> QED BY <1>12, <3>4, <3>5, <3>7, <4>1
    <3> QED BY <3>6, <3>7
  <2>2. ASSUME NEW f \in flights'[v]
        PROVE  fetch'[f[2]].at = v /\ Key(f[2])' = f[1] /\ fetch'[f[2]].step \in Flying
    <3>1. f \in flights[v] BY <1>12
    <3>2. /\ f[2] \in Fetches /\ fetch[f[2]].at = v /\ Key(f[2]) = f[1] /\ Fills(f[2])
          /\ f = Flight(f[2])
      BY <3>1, OneFlight DEF Flight
    <3>3. fetch[f[2]].step \in Flying BY <3>2, FlightOf
    <3>4. f[2] # q
      <4> SUFFICES ASSUME f[2] = q PROVE FALSE
        OBVIOUS
      <4>1. v = p /\ f = Flight(q) BY <3>2
      <4> QED BY <1>12, <4>1
    <3>5. f[2] \notin woken BY <1>8, <3>3 DEF Flying
    <3> QED BY <1>7, <1>9, <3>2, <3>3, <3>4, <3>5
  <2>3. \A f, g \in flights'[v] : f[1] = g[1] => f = g BY <1>11, <1>12
  <2>4. slots'[v] = Cardinality(Open(v)') /\ slots'[v] <= site.slots
    <3>1. CASE v = p
      <4>1. slots'[p] = slots[p] - 1 BY <1>2, <1>5, <1>11
      <4>2. Open(v)' = Open(v) \ {q} BY <1>14, <3>1
      <4>3. site.slots \in Nat BY DEF CacheInv, CacheTypeOK
      <4>4. slots[p] \in Nat /\ slots[p] <= site.slots BY <1>2, <1>11
      <4>5. slots'[p] <= site.slots BY <4>1, <4>3, <4>4
      <4> QED BY <1>15, <3>1, <4>1, <4>2, <4>5
    <3>2. CASE v # p
      <4>1. slots'[v] = slots[v] BY <1>2, <1>5, <1>11, <3>2
      <4>2. Open(v)' = Open(v) BY <1>14, <3>2
      <4> QED BY <1>11, <4>1, <4>2
    <3> QED BY <3>1, <3>2
  <2> QED BY <2>1, <2>2, <2>3, <2>4
<1> QED BY <1>16, <1>17, <1>19, <1>21, <1>22, <1>23 DEF CacheInv

LEMMA AdmitKeeps ==
    ASSUME CacheInv, NEW q \in Fetches, NEW p \in Replicas, NEW page \in Pages,
           NEW signed \in BOOLEAN, Admit(q, p, page, signed)
    PROVE  CacheInv'
<1> DEFINE new == [NoFetch EXCEPT !.step = "revision", !.at = p, !.page = page,
                                  !.signed = signed, !.since = Now]
<1>1. At(q, "idle") /\ fetch[q].at = NoReplica BY DEF Admit, CacheInv, CacheTypeOK
<1>2. /\ fetch \in [Fetches -> FetchTypes] /\ revision \in Nat /\ minute \in Nat
      /\ Now \in Versions /\ site.slots \in Nat
  BY DEF CacheInv, CacheTypeOK, FetchTypes, Now, Versions
<1>3. /\ fetch' = [fetch EXCEPT ![q] = new] /\ slots' = [slots EXCEPT ![p] = @ + 1]
      /\ UNCHANGED <<site, revision, minute, stored, flights>> /\ slots[p] < site.slots
  BY DEF Admit
<1>4. /\ new \in FetchTypes /\ new.step = "revision" /\ new.at = p /\ new.page = page
      /\ new.since = Now /\ ~new.missed
  BY <1>2, NoFetchTyped DEF FetchTypes, Steps, NoFetch
<1> HIDE DEF new
<1>5. fetch'[q] = new /\ \A r \in Fetches : r # q => fetch'[r] = fetch[r] BY <1>2, <1>3
<1>6. NoReplica \notin Replicas OBVIOUS
<1>7. ASSUME NEW v \in Replicas, NEW f \in flights[v]
      PROVE  /\ f[2] \in Fetches /\ f[2] # q /\ fetch'[f[2]] = fetch[f[2]]
             /\ fetch[f[2]].at = v /\ f = Flight(f[2]) /\ fetch[f[2]].step \in Flying
  <2>1. f[2] \in Fetches /\ fetch[f[2]].at = v /\ f = Flight(f[2]) /\ Fills(f[2])
    BY <1>7, OneFlight
  <2> QED BY <1>1, <1>5, <1>6, <2>1, FlightOf
<1>8. \A v \in Replicas : Open(v)' = IF v = p THEN Open(v) \cup {q} ELSE Open(v)
  BY <1>1, <1>4, <1>5, <1>6 DEF Open
<1>9. /\ slots \in [Replicas -> Nat]
      /\ \A v \in Replicas :
           /\ slots[v] = Cardinality(Open(v)) /\ slots[v] <= site.slots
           /\ \A f, g \in flights[v] : f[1] = g[1] => f = g
  BY DEF CacheInv, CacheTypeOK, FlightsAreFlown
<1>10. CacheTypeOK'
  <2>1. fetch' \in [Fetches -> FetchTypes] BY <1>2, <1>3, <1>4
  <2>2. slots' \in [Replicas -> Nat] BY <1>3, <1>9
  <2>3. ASSUME NEW r \in Fetches PROVE At(r, "idle")' <=> fetch'[r].at = NoReplica
    <3>1. CASE r = q BY <1>4, <1>5, <1>6, <3>1 DEF At
    <3>2. CASE r # q BY <1>5, <3>2 DEF CacheInv, CacheTypeOK, At
    <3> QED BY <3>1, <3>2
  <2> QED BY <1>3, <2>1, <2>2, <2>3 DEF CacheInv, CacheTypeOK, FetchTypes
<1>11. StoredOK' BY <1>3 DEF CacheInv, StoredOK, AtLeast
<1>12. ASSUME NEW r \in Fetches PROVE FetchOK(r)'
  <2>1. CASE r = q
    <3>1. ~Fills(q)'
      <4>1. <<Key(q)', q>> \notin flights[p] BY <1>7
      <4> QED BY <1>3, <1>4, <1>5, <4>1 DEF Fills, Flight
    <3> QED BY <1>2, <1>3, <1>4, <1>5, <2>1, <3>1
           DEF FetchOK, At, AtLeast, Now, Looking, Versions
  <2>2. CASE r # q
    <3>1. FetchOK(r) /\ fetch'[r] = fetch[r] BY <1>5, <2>2 DEF CacheInv
    <3> QED BY <1>3, <3>1 DEF FetchOK, At, Fills, Flight, Key, Now, AtLeast
  <2> QED BY <2>1, <2>2
<1>13. FreshPages' BY <1>4, <1>5 DEF CacheInv, FreshPages, At, AtLeast
<1>14. FilledOnce'
  <2> SUFFICES ASSUME NEW r \in Fetches, fetch'[r].step \in {"handler", "store"},
                      fetch'[r].missed
               PROVE  fetch'[r].at \notin stored'[Key(r)'].by
    BY DEF FilledOnce
  <2>1. r # q BY <1>4, <1>5
  <2>2. fetch'[r] = fetch[r] /\ Key(r)' = Key(r) BY <1>5, <2>1 DEF Key
  <2> QED BY <1>3, <2>2 DEF CacheInv, FilledOnce
<1>15. FlightsAreFlown'
  <2> SUFFICES ASSUME NEW v \in Replicas
               PROVE  /\ \A r \in Open(v)' : At(r, "waiting")' =>
                           \E x \in Fetches : <<Key(r)', x>> \in flights[v]
                      /\ \A f \in flights[v] :
                           /\ fetch'[f[2]].at = v /\ Key(f[2])' = f[1]
                           /\ fetch'[f[2]].step \in Flying
                      /\ \A f, g \in flights[v] : f[1] = g[1] => f = g
                      /\ slots'[v] = Cardinality(Open(v)') /\ slots'[v] <= site.slots
    BY <1>3 DEF FlightsAreFlown, Flying
  <2>1. ASSUME NEW r \in Open(v)', At(r, "waiting")'
        PROVE  \E x \in Fetches : <<Key(r)', x>> \in flights[v]
    <3>1. r \in Fetches /\ r # q BY <1>4, <1>5, <2>1 DEF Open, At
    <3>2. fetch'[r] = fetch[r] /\ Key(r)' = Key(r) BY <1>5, <3>1 DEF Key
    <3>3. r \in Open(v) /\ At(r, "waiting") BY <2>1, <3>1, <3>2 DEF Open, At
    <3> QED BY <3>2, <3>3 DEF CacheInv, FlightsAreFlown
  <2>2. ASSUME NEW f \in flights[v]
        PROVE  fetch'[f[2]].at = v /\ Key(f[2])' = f[1] /\ fetch'[f[2]].step \in Flying
    <3>1. fetch'[f[2]] = fetch[f[2]] /\ fetch[f[2]].at = v /\ fetch[f[2]].step \in Flying
          /\ f = Flight(f[2])
      BY <1>7
    <3>2. Key(f[2])' = Key(f[2]) BY <3>1 DEF Key
    <3>3. f[1] = Key(f[2]) BY <3>1 DEF Flight
    <3> QED BY <3>1, <3>2, <3>3
  <2>3. slots'[v] = Cardinality(Open(v)') /\ slots'[v] <= site.slots
    <3>1. CASE v = p
      <4>1. q \notin Open(v) BY <1>1, <1>6 DEF Open
      <4>2. Cardinality(Open(v) \cup {q}) = Cardinality(Open(v)) + 1
        BY <4>1, OpenFinite, FS_AddElement
      <4>3. Open(v)' = Open(v) \cup {q} BY <1>8, <3>1
      <4>4. slots'[v] = slots[v] + 1 /\ slots[v] < site.slots /\ slots[v] \in Nat
        BY <1>3, <1>9, <3>1
      <4>5. slots'[v] <= site.slots BY <1>2, <4>4
      <4> QED BY <1>9, <4>2, <4>3, <4>4, <4>5
    <3>2. CASE v # p
      <4>1. slots'[v] = slots[v] BY <1>3, <1>9, <3>2
      <4>2. Open(v)' = Open(v) BY <1>8, <3>2
      <4> QED BY <1>9, <4>1, <4>2
    <3> QED BY <3>1, <3>2
  <2> QED BY <1>9, <2>1, <2>2, <2>3
<1> QED BY <1>10, <1>11, <1>12, <1>13, <1>14, <1>15 DEF CacheInv

\* Time and writes only move forward, and whoever read before them still did
LEMMA ClockKeeps ==
    ASSUME CacheInv, revision' \in Nat, minute' \in Nat, revision' >= revision, minute' >= minute,
           revision' + minute' <= MaxChanges,
           UNCHANGED <<site, stored, flights, slots, fetch>>
    PROVE  CacheInv'
<1>1. CacheTypeOK' BY DEF CacheInv, CacheTypeOK, At
<1>2. StoredOK' BY DEF CacheInv, StoredOK, AtLeast
<1>3. ASSUME NEW q \in Fetches PROVE FetchOK(q)'
  <2>1. FetchOK(q) BY DEF CacheInv
  <2>2. fetch[q].since \in Versions /\ fetch[q].token \in Versions
        /\ revision \in Nat /\ minute \in Nat
    BY DEF CacheInv, CacheTypeOK
  <2>3. AtLeast(Now, fetch[q].since)'
    BY <2>1, <2>2 DEF FetchOK, AtLeast, Now, Versions
  <2>4. AtLeast(Now, fetch[q].token) => AtLeast(Now, fetch[q].token)'
    BY <2>2 DEF AtLeast, Now, Versions
  <2>5. fetch[q].token.rev <= revision => fetch[q].token.rev <= revision'
    BY <2>2 DEF Versions
  <2> QED BY <2>1, <2>3, <2>4, <2>5 DEF FetchOK, At, Fills, Flight, Key, AtLeast
<1>4. FreshPages' BY DEF CacheInv, FreshPages, At, AtLeast
<1>5. FlightsAreFlown'
  <2>1. UNCHANGED <<site, flights, slots, fetch>> OBVIOUS
  <2>2. FlightsAreFlown BY DEF CacheInv
  <2> HIDE DEF CacheInv
  <2> QED BY <2>1, <2>2 DEF FlightsAreFlown, Open, At, Key
<1>6. FilledOnce' BY DEF CacheInv, FilledOnce, Key
<1> QED BY <1>1, <1>2, <1>3, <1>4, <1>5, <1>6 DEF CacheInv

LEMMA WriteCatalogKeeps == ASSUME CacheInv, WriteCatalog PROVE CacheInv'
<1>1. revision \in Nat /\ minute \in Nat BY DEF CacheInv, CacheTypeOK
<1> QED BY <1>1, ClockKeeps DEF WriteCatalog

LEMMA NextMinuteKeeps == ASSUME CacheInv, NextMinute PROVE CacheInv'
<1>1. revision \in Nat /\ minute \in Nat BY DEF CacheInv, CacheTypeOK
<1> QED BY <1>1, ClockKeeps DEF NextMinute

LEMMA EvictKeeps == ASSUME CacheInv, NEW k \in Keys, Evict(k) PROVE CacheInv'
<1>1. /\ stored \in [Keys -> [body : Bodies \cup {NoBody}, by : SUBSET Replicas]]
      /\ stored' = [stored EXCEPT ![k] = Absent]
      /\ UNCHANGED <<site, revision, minute, flights, slots, fetch>>
  BY DEF CacheInv, CacheTypeOK, Evict
<1>2. Absent \in [body : Bodies \cup {NoBody}, by : SUBSET Replicas] /\ Absent.by = {}
  BY DEF Absent
<1>3. \A x \in Keys : stored'[x] = IF x = k THEN Absent ELSE stored[x] BY <1>1
<1>4. CacheTypeOK'
  <2>1. stored' \in [Keys -> [body : Bodies \cup {NoBody}, by : SUBSET Replicas]]
    BY <1>1, <1>2
  <2> QED BY <1>1, <2>1 DEF CacheInv, CacheTypeOK, At
<1>5. StoredOK' BY <1>3 DEF CacheInv, StoredOK, AtLeast
<1>6. ASSUME NEW q \in Fetches PROVE FetchOK(q)'
  BY <1>1 DEF CacheInv, FetchOK, At, Fills, Flight, Key, AtLeast, Now
<1>7. FreshPages' BY <1>1 DEF CacheInv, FreshPages, At, AtLeast
<1>8. FlightsAreFlown' BY <1>1 DEF CacheInv, FlightsAreFlown, Open, At, Key
<1>9. FilledOnce'
  <2> SUFFICES ASSUME NEW q \in Fetches, fetch[q].step \in {"handler", "store"},
                      fetch[q].missed
               PROVE  fetch[q].at \notin stored'[Key(q)].by
    BY <1>1 DEF FilledOnce, Key
  <2>1. Key(q) \in Keys
    <3>1. ~At(q, "idle") BY DEF At
    <3> QED BY <3>1, UnderWay
  <2>2. fetch[q].at \notin stored[Key(q)].by BY DEF CacheInv, FilledOnce
  <2> QED BY <1>2, <1>3, <2>1, <2>2
<1> QED BY <1>4, <1>5, <1>6, <1>7, <1>8, <1>9 DEF CacheInv

LEMMA RestartKeeps == ASSUME CacheInv, NEW p \in Replicas, Restart(p) PROVE CacheInv'
<1>1. /\ fetch' = [q \in Fetches |-> IF fetch[q].at = p THEN NoFetch ELSE fetch[q]]
      /\ flights' = [flights EXCEPT ![p] = {}] /\ slots' = [slots EXCEPT ![p] = 0]
      /\ UNCHANGED <<site, revision, minute, stored>>
  BY DEF Restart
<1>2. /\ fetch \in [Fetches -> FetchTypes] /\ revision \in Nat /\ minute \in Nat
      /\ flights \in [Replicas -> SUBSET (Keys \X Fetches)]
      /\ slots \in [Replicas -> Nat] /\ site.slots \in Nat
  BY DEF CacheInv, CacheTypeOK, FetchTypes
<1>3. NoFetch \in FetchTypes /\ NoFetch.at = NoReplica /\ NoFetch.step = "idle"
      /\ ~NoFetch.missed
  BY NoFetchTyped DEF FetchTypes, NoFetch
<1>4. NoReplica \notin Replicas OBVIOUS
<1>5. \A q \in Fetches : fetch'[q] = IF fetch[q].at = p THEN NoFetch ELSE fetch[q] BY <1>1
<1>6. \A v \in Replicas : Open(v)' = IF v = p THEN {} ELSE Open(v)
  BY <1>3, <1>4, <1>5 DEF Open
<1>7. \A v \in Replicas : /\ flights'[v] = IF v = p THEN {} ELSE flights[v]
                          /\ slots'[v] = IF v = p THEN 0 ELSE slots[v]
  BY <1>1, <1>2
<1>8. CacheTypeOK'
  <2>1. fetch' \in [Fetches -> FetchTypes] BY <1>1, <1>2, <1>3
  <2>2. flights' \in [Replicas -> SUBSET (Keys \X Fetches)] /\ slots' \in [Replicas -> Nat]
    BY <1>1, <1>2
  <2>3. \A q \in Fetches : At(q, "idle")' <=> fetch'[q].at = NoReplica
    BY <1>3, <1>5 DEF CacheInv, CacheTypeOK, At
  <2> QED BY <1>1, <2>1, <2>2, <2>3 DEF CacheInv, CacheTypeOK, FetchTypes
<1>9. StoredOK' BY <1>1 DEF CacheInv, StoredOK, AtLeast
<1>10. ASSUME NEW q \in Fetches PROVE FetchOK(q)'
  <2>1. FetchOK(q) BY DEF CacheInv
  <2>2. CASE fetch'[q] = NoFetch BY <1>1, <1>2, <2>2, IdleOK
  <2>3. CASE fetch'[q] # NoFetch
    <3>1. fetch'[q] = fetch[q] /\ fetch[q].at # p BY <1>5, <2>3
    <3>2. ~At(q, "idle") BY <2>1, <2>3, <3>1 DEF FetchOK
    <3>3. fetch[q].at \in Replicas BY <3>2, UnderWay
    <3>4. flights'[fetch'[q].at] = flights[fetch[q].at] BY <1>7, <3>1, <3>3
    <3>5. Fills(q)' <=> Fills(q) BY <3>1, <3>4 DEF Fills, Flight, Key
    <3> QED BY <1>1, <2>1, <3>1, <3>5 DEF FetchOK, At, AtLeast, Now
  <2> QED BY <2>2, <2>3
<1>11. FreshPages' BY <1>3, <1>5 DEF CacheInv, FreshPages, At, AtLeast
<1>12. FilledOnce'
  <2> SUFFICES ASSUME NEW q \in Fetches, fetch'[q].step \in {"handler", "store"},
                      fetch'[q].missed
               PROVE  fetch'[q].at \notin stored'[Key(q)'].by
    BY DEF FilledOnce
  <2>1. fetch'[q] = fetch[q] BY <1>3, <1>5
  <2>2. Key(q)' = Key(q) BY <2>1 DEF Key
  <2> QED BY <1>1, <2>1, <2>2 DEF CacheInv, FilledOnce
<1>13. FlightsAreFlown'
  <2> SUFFICES ASSUME NEW v \in Replicas
               PROVE  /\ \A r \in Open(v)' : At(r, "waiting")' =>
                           \E x \in Fetches : <<Key(r)', x>> \in flights'[v]
                      /\ \A f \in flights'[v] :
                           /\ fetch'[f[2]].at = v /\ Key(f[2])' = f[1]
                           /\ fetch'[f[2]].step \in Flying
                      /\ \A f, g \in flights'[v] : f[1] = g[1] => f = g
                      /\ slots'[v] = Cardinality(Open(v)') /\ slots'[v] <= site.slots
    BY <1>1 DEF FlightsAreFlown, Flying
  <2>1. CASE v = p
    <3>1. Open(v)' = {} /\ flights'[v] = {} /\ slots'[v] = 0 BY <1>6, <1>7, <2>1
    <3> QED BY <1>2, <3>1, FS_EmptySet
  <2>2. CASE v # p
    <3>1. Open(v)' = Open(v) /\ flights'[v] = flights[v] /\ slots'[v] = slots[v]
      BY <1>6, <1>7, <2>2
    <3>2. \A r \in Open(v) : fetch'[r] = fetch[r] /\ Key(r)' = Key(r)
      BY <1>5, <2>2 DEF Open, Key
    <3>3. ASSUME NEW f \in flights[v]
          PROVE  fetch'[f[2]].at = v /\ Key(f[2])' = f[1] /\ fetch'[f[2]].step \in Flying
      <4>1. f[2] \in Fetches /\ fetch[f[2]].at = v /\ f = Flight(f[2]) /\ Fills(f[2])
        BY <3>3, OneFlight
      <4>2. f[2] \in Open(v) /\ fetch[f[2]].step \in Flying BY <4>1, FlightOf DEF Open
      <4>3. f[1] = Key(f[2]) BY <4>1 DEF Flight
      <4>4. fetch'[f[2]] = fetch[f[2]] /\ Key(f[2])' = Key(f[2]) BY <3>2, <4>2
      <4> QED BY <4>1, <4>2, <4>3, <4>4
    <3>4. \A r \in Open(v) : At(r, "waiting") =>
            \E x \in Fetches : <<Key(r), x>> \in flights[v]
      BY DEF CacheInv, FlightsAreFlown
    <3>5. \A r \in Open(v) : At(r, "waiting")' => At(r, "waiting") BY <3>2 DEF At
    <3>6. ASSUME NEW r \in Open(v)', At(r, "waiting")'
          PROVE  \E x \in Fetches : <<Key(r)', x>> \in flights'[v]
      <4>1. r \in Open(v) /\ At(r, "waiting") /\ Key(r)' = Key(r)
        BY <3>1, <3>2, <3>5, <3>6
      <4> QED BY <3>1, <3>4, <4>1
    <3>7. /\ \A f, g \in flights[v] : f[1] = g[1] => f = g
          /\ slots[v] = Cardinality(Open(v)) /\ slots[v] <= site.slots
      BY DEF CacheInv, FlightsAreFlown
    <3> QED BY <3>1, <3>3, <3>6, <3>7
  <2> QED BY <2>1, <2>2
<1> QED BY <1>8, <1>9, <1>10, <1>11, <1>12, <1>13 DEF CacheInv

\* The invariant is kept by every step
LEMMA CacheStepKeeps == CacheInv /\ [CacheNext]_cacheVars => CacheInv'
<1> SUFFICES ASSUME CacheInv, [CacheNext]_cacheVars PROVE CacheInv'
  OBVIOUS
<1>1. ASSUME NEW q \in Fetches, Visit(q) PROVE CacheInv'
  BY <1>1, AdmitKeeps, ReadRevisionKeeps, TakeTokenKeeps, LookupKeeps, RegisterKeeps,
     GiveUpKeeps, RecheckKeeps, LoadKeeps, StoreKeeps, AnswerKeeps DEF Visit
<1>2. CASE UNCHANGED cacheVars
  <2>1. revision \in Nat /\ minute \in Nat /\ revision + minute <= MaxChanges
    BY DEF CacheInv, CacheTypeOK
  <2> QED BY <1>2, <2>1, ClockKeeps DEF cacheVars
<1> QED BY <1>1, <1>2, EvictKeeps, RestartKeeps, WriteCatalogKeeps, NextMinuteKeeps
       DEF CacheNext

\* In every reachable state the variables have their types, and a fetch is in a
\* replica exactly as long as it is under way (the middleware's request state)
THEOREM CacheTypesHold == CacheSpec => []CacheTypeOK
<1>1. CacheInv => CacheTypeOK BY DEF CacheInv
<1> QED BY <1>1, CacheBegins, CacheStepKeeps, PTL DEF CacheSpec

\* However many replicas, fetches and pages there are: no answer is older than its
\* question, nobody waits for nobody, slots match the fetches under way, and no
\* replica fills a page it has stored (public_cache.go, admission.go)
THEOREM PagesStayFresh == CacheSpec => []PagesAreFresh
<1>1. CacheInv => PagesAreFresh BY DEF CacheInv, PagesAreFresh
<1> QED BY <1>1, CacheBegins, CacheStepKeeps, PTL DEF CacheSpec

------------------------------------------------------------------------------
(* The mail queue.  What a mail may still cost is counted: a place in the     *)
(* queue and every delivery under way are each good for one copy and one more *)
(* place in the queue, claims and final updates pass them on, and only a      *)
(* lease that lapses makes a new one.                                         *)

MailRow == [status : Waiting \cup Settled \cup {"absent", "sending"},
            attempts : Nat, due : BOOLEAN, lapsed : BOOLEAN]

\* The replicas with a delivery of m, with one that may still send it or put it
\* back, and with one that has attempts left
Holding(m) == {r \in Workers : \E j \in jobs[r] : j.mail = m}
Unspent(m) == {r \in Workers : \E j \in jobs[r] :
                 j.mail = m /\ j.step \in {"owner", "check", "send", "retry"}}
Young(m) == {r \in Workers : \E j \in jobs[r] : j.mail = m /\ j.attempt < MaxAttempts}

\* The place of a mail in the queue, or the one it may still take
InQueue(m) == IF row[m].status \in Waiting \cup {"absent"} THEN 1 ELSE 0

MailOK(m) ==
    /\ row[m].status = "absent" => row[m].attempts = 0
    /\ IsFiniteSet(Holding(m))
    /\ Cardinality(Holding(m)) + InQueue(m) <= 1 + lapses[m]
    /\ copies[m] + Cardinality(Unspent(m)) + InQueue(m) <= 1 + lapses[m] + lost[m]
    /\ row[m].attempts >= MaxAttempts =>
         row[m].attempts + Cardinality(Young(m)) + InQueue(m) <= MaxAttempts + lapses[m]

\* A pass delivers what it claimed before the next one begins, each mail once; a
\* delivery that was claimed too late does not reach the server
JobsOK ==
    \A r \in Workers :
        /\ stage[r] # "recover" => jobs[r] = {}
        /\ \A j, k \in jobs[r] : j.mail = k.mail => j = k
        /\ \A j \in jobs[r] :
             j.dirty => j.mail \in suppressed /\ j.step \notin {"send", "sent"}

MailInv == MailTypeOK /\ JobsOK /\ \A m \in Mails : MailOK(m)

LEMMA OneLess ==
    ASSUME NEW S, NEW x \in S, IsFiniteSet(S), NEW T \in SUBSET (S \ {x})
    PROVE  IsFiniteSet(T) /\ Cardinality(T) \in Nat /\ Cardinality(T) <= Cardinality(S) - 1
<1>1. IsFiniteSet(S \ {x}) /\ Cardinality(S \ {x}) = Cardinality(S) - 1
  BY FS_RemoveElement
<1>2. IsFiniteSet(T) /\ Cardinality(T) <= Cardinality(S \ {x}) BY <1>1, FS_Subset
<1> QED BY <1>1, <1>2, FS_CardinalityType

LEMMA CountsOfMail ==
    ASSUME NEW m, IsFiniteSet(Holding(m))
    PROVE  /\ Cardinality(Holding(m)) \in Nat
           /\ IsFiniteSet(Unspent(m)) /\ Cardinality(Unspent(m)) \in Nat
           /\ IsFiniteSet(Young(m)) /\ Cardinality(Young(m)) \in Nat
           /\ Cardinality(Young(m)) <= Cardinality(Holding(m))
<1>1. Unspent(m) \in SUBSET Holding(m) /\ Young(m) \in SUBSET Holding(m)
  BY DEF Unspent, Young, Holding
<1> QED BY <1>1, FS_Subset, FS_CardinalityType

\* No more deliveries, no new place in the queue
LEMMA MailStays ==
    ASSUME MailInv, NEW m \in Mails, MailTypeOK',
           Holding(m)' \subseteq Holding(m), Unspent(m)' \subseteq Unspent(m),
           Young(m)' \subseteq Young(m), InQueue(m)' <= InQueue(m),
           row'[m].status = "absent" => row[m].status = "absent",
           row'[m].attempts = row[m].attempts, copies'[m] = copies[m],
           lapses[m] <= lapses'[m], lost[m] <= lost'[m]
    PROVE  MailOK(m)'
<1>1. PICK h : h = Holding(m)' OBVIOUS
<1>2. PICK u : u = Unspent(m)' OBVIOUS
<1>3. PICK y : y = Young(m)' OBVIOUS
<1>4. MailOK(m) BY DEF MailInv
<1>5. IsFiniteSet(Holding(m)) BY <1>4 DEF MailOK
<1>6. /\ Cardinality(Holding(m)) \in Nat
      /\ IsFiniteSet(Unspent(m)) /\ Cardinality(Unspent(m)) \in Nat
      /\ IsFiniteSet(Young(m)) /\ Cardinality(Young(m)) \in Nat
  BY <1>5, CountsOfMail
<1>7. /\ IsFiniteSet(h) /\ Cardinality(h) \in Nat /\ Cardinality(h) <= Cardinality(Holding(m))
      /\ Cardinality(u) \in Nat /\ Cardinality(u) <= Cardinality(Unspent(m))
      /\ Cardinality(y) \in Nat /\ Cardinality(y) <= Cardinality(Young(m))
  BY <1>1, <1>2, <1>3, <1>5, <1>6, FS_Subset, FS_CardinalityType
<1>8. /\ InQueue(m) \in {0, 1} /\ InQueue(m)' \in {0, 1}
      /\ copies[m] \in Nat /\ lapses[m] \in Nat /\ lost[m] \in Nat
      /\ lapses'[m] \in Nat /\ lost'[m] \in Nat /\ row[m].attempts \in Nat
  BY DEF InQueue, MailInv, MailTypeOK
<1>9. MaxAttempts \in Nat BY LimitsAssumption
<1>10. IsFiniteSet(Holding(m)') /\ (row'[m].status = "absent" => row'[m].attempts = 0)
  BY <1>1, <1>4, <1>7 DEF MailOK
<1>11. Cardinality(Holding(m)') + InQueue(m)' <= 1 + lapses'[m]
  <2>1. Cardinality(Holding(m)) + InQueue(m) <= 1 + lapses[m] BY <1>4 DEF MailOK
  <2> QED BY <1>1, <1>6, <1>7, <1>8, <2>1
<1>12. copies'[m] + Cardinality(Unspent(m)') + InQueue(m)' <= 1 + lapses'[m] + lost'[m]
  <2>1. copies[m] + Cardinality(Unspent(m)) + InQueue(m) <= 1 + lapses[m] + lost[m]
    BY <1>4 DEF MailOK
  <2> QED BY <1>2, <1>6, <1>7, <1>8, <2>1
<1>13. row'[m].attempts >= MaxAttempts =>
         row'[m].attempts + Cardinality(Young(m)') + InQueue(m)' <= MaxAttempts + lapses'[m]
  <2>1. row[m].attempts >= MaxAttempts =>
          row[m].attempts + Cardinality(Young(m)) + InQueue(m) <= MaxAttempts + lapses[m]
    BY <1>4 DEF MailOK
  <2> QED BY <1>3, <1>6, <1>7, <1>8, <1>9, <2>1
<1> QED BY <1>10, <1>11, <1>12, <1>13 DEF MailOK

\* Nobody's deliveries change
LEMMA SameDeliveries ==
    ASSUME jobs' = jobs, NEW m
    PROVE  Holding(m)' = Holding(m) /\ Unspent(m)' = Unspent(m) /\ Young(m)' = Young(m)
BY DEF Holding, Unspent, Young

LEMMA JobsStay ==
    ASSUME MailInv, jobs' = jobs, suppressed \subseteq suppressed',
           \A r \in Workers : stage'[r] # "recover" => jobs[r] = {}
    PROVE  JobsOK'
BY DEF MailInv, JobsOK

------------------------------------------------------------------------------
(* The queue and its clock.                                                   *)

LEMMA MailBegins == MailInit => MailInv
<1> SUFFICES ASSUME MailInit PROVE MailInv OBVIOUS
<1>1. NoMail \in MailRow BY DEF NoMail, MailRow, Waiting
<1>2. MailTypeOK BY <1>1, LimitsAssumption DEF MailInit, MailTypeOK, MailRow
<1>3. JobsOK BY DEF MailInit, JobsOK
<1>4. ASSUME NEW m \in Mails PROVE MailOK(m)
  <2>1. Holding(m) = {} /\ Unspent(m) = {} /\ Young(m) = {}
    BY DEF MailInit, Holding, Unspent, Young
  <2>2. IsFiniteSet({}) /\ Cardinality({}) = 0 BY FS_EmptySet
  <2>3. /\ row[m].status = "absent" /\ row[m].attempts = 0 /\ InQueue(m) = 1
        /\ copies[m] = 0 /\ lapses[m] = 0 /\ lost[m] = 0
    BY DEF MailInit, NoMail, InQueue
  <2>4. MaxAttempts \in Nat \ {0} BY LimitsAssumption
  <2> QED BY <2>1, <2>2, <2>3, <2>4 DEF MailOK
<1> QED BY <1>2, <1>3, <1>4 DEF MailInv

\* Rows change, but no mail enters the queue and nobody's work changes
LEMMA RowsMoveOn ==
    ASSUME MailInv, MailTypeOK', jobs' = jobs, suppressed \subseteq suppressed',
           \A r \in Workers : stage'[r] # "recover" => jobs[r] = {},
           UNCHANGED history,
           \A m \in Mails : /\ row'[m].attempts = row[m].attempts
                            /\ row'[m].status = "absent" => row[m].status = "absent"
                            /\ row'[m].status \in Waiting \cup {"absent"} =>
                                 row[m].status \in Waiting \cup {"absent"}
    PROVE  MailInv'
<1>1. JobsOK' BY JobsStay
<1>2. ASSUME NEW m \in Mails PROVE MailOK(m)'
  <2>1. InQueue(m)' <= InQueue(m) BY DEF InQueue
  <2>2. /\ copies'[m] = copies[m] /\ lapses[m] <= lapses'[m] /\ lost[m] <= lost'[m]
    BY DEF history, MailInv, MailTypeOK
  <2> QED BY <2>1, <2>2, SameDeliveries, MailStays
<1> QED BY <1>1, <1>2 DEF MailInv

LEMMA QueueKeeps ==
    ASSUME MailInv, NEW m \in Mails,
           Queue(m) \/ Complain(m) \/ ChangeAddress(m) \/ BecomeDue(m) \/ Lapse(m)
    PROVE  MailInv'
<1>1. row \in [Mails -> MailRow] BY DEF MailInv, MailTypeOK, MailRow
<1>2. \A r \in Workers : stage[r] # "recover" => jobs[r] = {} BY DEF MailInv, JobsOK
<1>3. CASE Queue(m)
  <2>1. PICK e : e = [NoMail EXCEPT !.status = IF m \in suppressed THEN "suppressed" ELSE "pending",
                                    !.due = TRUE]
    OBVIOUS
  <2>2. row' = [row EXCEPT ![m] = e] /\ row[m] = NoMail BY <1>3, <2>1 DEF Queue
  <2>3. e \in MailRow /\ e.attempts = 0 /\ e.status # "absent"
    BY <2>1 DEF NoMail, MailRow, Waiting, Settled
  <2>4. MailTypeOK' BY <1>1, <1>3, <2>2, <2>3 DEF Queue, history, MailInv, MailTypeOK, MailRow
  <2> QED BY <1>1, <1>2, <1>3, <2>2, <2>3, <2>4, RowsMoveOn DEF Queue, history, NoMail
<1>4. CASE Complain(m)
  <2>1. PICK e : e = [row[m] EXCEPT !.status = IF @ \in Waiting THEN "suppressed" ELSE @] OBVIOUS
  <2>2. row' = [row EXCEPT ![m] = e] BY <1>1, <1>4, <2>1 DEF Complain
  <2>3. row[m] \in MailRow BY <1>1
  <2>4. /\ e \in MailRow /\ e.attempts = row[m].attempts
        /\ e.status = IF row[m].status \in Waiting THEN "suppressed" ELSE row[m].status
    BY <2>1, <2>3 DEF MailRow, Settled
  <2>5. MailTypeOK' BY <1>1, <1>4, <2>2, <2>4 DEF Complain, history, MailInv, MailTypeOK, MailRow
  <2> QED BY <1>1, <1>2, <1>4, <2>2, <2>4, <2>5, RowsMoveOn DEF Complain, Waiting
<1>5. CASE ChangeAddress(m)
  <2>1. MailTypeOK' BY <1>5 DEF ChangeAddress, history, MailInv, MailTypeOK
  <2> QED BY <1>2, <1>5, <2>1, RowsMoveOn DEF ChangeAddress
<1>6. CASE BecomeDue(m) \/ Lapse(m)
  <2>1. PICK e \in {[row[m] EXCEPT !.due = TRUE], [row[m] EXCEPT !.lapsed = TRUE]} :
           row' = [row EXCEPT ![m] = e]
    BY <1>1, <1>6 DEF BecomeDue, Lapse
  <2>2. row[m] \in MailRow BY <1>1
  <2>3. e \in MailRow /\ e.attempts = row[m].attempts /\ e.status = row[m].status
    BY <2>1, <2>2 DEF MailRow
  <2>4. faults' \in 0 .. MaxFaults
    BY <1>6, LimitsAssumption DEF BecomeDue, Lapse, Fault, MailInv, MailTypeOK
  <2>5. UNCHANGED <<suppressed, moved, stage, jobs, history>> BY <1>6 DEF BecomeDue, Lapse
  <2>6. MailTypeOK' BY <1>1, <2>1, <2>3, <2>4, <2>5 DEF history, MailInv, MailTypeOK, MailRow
  <2> QED BY <1>1, <1>2, <2>1, <2>3, <2>5, <2>6, RowsMoveOn
<1> QED BY <1>3, <1>4, <1>5, <1>6

LEMMA SweepKeeps ==
    ASSUME MailInv, NEW r \in Workers, Sweep(r)
    PROVE  MailInv'
<1>1. row \in [Mails -> MailRow] BY DEF MailInv, MailTypeOK, MailRow
<1>2. ASSUME NEW m \in Mails
      PROVE  /\ row'[m] \in MailRow /\ row'[m].attempts = row[m].attempts
             /\ row'[m].status \in {row[m].status, "suppressed"}
  <2>1. row[m] \in MailRow BY <1>1
  <2>2. row'[m] \in {row[m], [row[m] EXCEPT !.status = "suppressed"]} BY DEF Sweep
  <2> QED BY <2>1, <2>2 DEF MailRow, Settled
<1>3. stage' = [stage EXCEPT ![r] = "claim"] /\ stage[r] = "sweep" BY DEF Sweep
<1>4. row' \in [Mails -> MailRow] BY <1>2 DEF Sweep
<1>5. MailTypeOK' BY <1>3, <1>4 DEF Sweep, history, MailInv, MailTypeOK, MailRow
<1>6. \A q \in Workers : stage'[q] # "recover" => jobs[q] = {}
  BY <1>3 DEF MailInv, MailTypeOK, JobsOK
<1> QED BY <1>2, <1>5, <1>6, RowsMoveOn DEF Sweep, Waiting

\* A lease that is recovered puts a mail back, and pays for it
LEMMA RecoverKeeps ==
    ASSUME MailInv, NEW r \in Workers, Recover(r)
    PROVE  MailInv'
<1>1. row \in [Mails -> MailRow] BY DEF MailInv, MailTypeOK, MailRow
<1>2. PICK stale : stale = {m \in Mails : row[m].status = "sending" /\ row[m].lapsed} OBVIOUS
<1>3. /\ row' = [m \in Mails |-> IF m \in stale
                   THEN [row[m] EXCEPT !.status = "retry", !.due = TRUE, !.lapsed = FALSE]
                   ELSE row[m]]
      /\ lapses' = [m \in Mails |-> IF m \in stale THEN lapses[m] + 1 ELSE lapses[m]]
      /\ stage' = [stage EXCEPT ![r] = "sweep"] /\ jobs[r] = {}
      /\ UNCHANGED <<suppressed, moved, jobs, copies, lost, faults>>
  BY <1>2 DEF Recover
<1>4. ASSUME NEW m \in Mails
      PROVE  /\ row'[m] \in MailRow /\ row'[m].attempts = row[m].attempts
             /\ row'[m].status = IF m \in stale THEN "retry" ELSE row[m].status
  <2>1. row[m] \in MailRow BY <1>1
  <2>2. row'[m] = IF m \in stale
                  THEN [row[m] EXCEPT !.status = "retry", !.due = TRUE, !.lapsed = FALSE]
                  ELSE row[m]
    BY <1>3
  <2> QED BY <2>1, <2>2 DEF MailRow, Waiting
<1>5. row' \in [Mails -> MailRow] BY <1>3, <1>4
<1>6. MailTypeOK'
  <2>1. lapses' \in [Mails -> Nat]
    <3>1. ASSUME NEW m \in Mails
          PROVE  (IF m \in stale THEN lapses[m] + 1 ELSE lapses[m]) \in Nat
      <4>1. lapses[m] \in Nat BY DEF MailInv, MailTypeOK
      <4> QED BY <4>1
    <3> QED BY <1>3, <3>1
  <2>2. stage' \in [Workers -> {"recover", "sweep", "claim"}]
    BY <1>3 DEF MailInv, MailTypeOK
  <2> QED BY <1>3, <1>5, <2>1, <2>2 DEF MailInv, MailTypeOK, MailRow
<1>7. JobsOK'
  <2>1. \A q \in Workers : stage'[q] # "recover" => jobs[q] = {}
    BY <1>3 DEF MailInv, MailTypeOK, JobsOK
  <2> QED BY <1>3, <2>1, JobsStay
<1>8. ASSUME NEW m \in Mails PROVE MailOK(m)'
  <2>1. /\ copies[m] \in Nat /\ lapses[m] \in Nat /\ lost[m] \in Nat /\ row[m].attempts \in Nat
        /\ MaxAttempts \in Nat
    BY LimitsAssumption DEF MailInv, MailTypeOK
  <2>2. CASE m \notin stale
    <3>1. InQueue(m)' <= InQueue(m) BY <1>4, <2>2 DEF InQueue
    <3>2. lapses[m] <= lapses'[m] /\ lost[m] <= lost'[m] /\ copies'[m] = copies[m]
      <4>1. lapses'[m] = lapses[m] /\ lost' = lost /\ copies' = copies BY <1>3, <2>2
      <4> QED BY <2>1, <4>1
    <3> QED BY <1>3, <1>4, <1>6, <2>2, <3>1, <3>2, SameDeliveries, MailStays
  <2>3. CASE m \in stale
    <3>1. MailOK(m) BY DEF MailInv
    <3>2. /\ row'[m].status = "retry" /\ row'[m].attempts = row[m].attempts
          /\ row[m].status = "sending"
          /\ lapses'[m] = lapses[m] + 1 /\ copies'[m] = copies[m] /\ lost'[m] = lost[m]
      BY <1>2, <1>3, <1>4, <2>3
    <3>3. InQueue(m) = 0 /\ InQueue(m)' = 1 BY <3>2 DEF InQueue, Waiting
    <3>4. Holding(m)' = Holding(m) /\ Unspent(m)' = Unspent(m) /\ Young(m)' = Young(m)
      BY <1>3, SameDeliveries
    <3>5. /\ Cardinality(Holding(m)) \in Nat /\ Cardinality(Unspent(m)) \in Nat
          /\ Cardinality(Young(m)) \in Nat
      BY <3>1, CountsOfMail DEF MailOK
    <3> QED BY <2>1, <3>1, <3>2, <3>3, <3>4, <3>5 DEF MailOK
  <2> QED BY <2>2, <2>3
<1> QED BY <1>6, <1>7, <1>8 DEF MailInv

------------------------------------------------------------------------------
(* A pass and its deliveries.                                                 *)

LEMMA ClaimKeeps ==
    ASSUME MailInv, NEW r \in Workers, Claim(r)
    PROVE  MailInv'
<1>1. row \in [Mails -> MailRow] /\ jobs[r] = {}
  BY DEF Claim, MailInv, MailTypeOK, MailRow, JobsOK
<1>2. PICK batch \in SUBSET Claimable :
         /\ row' = [m \in Mails |-> IF m \in batch
                      THEN [row[m] EXCEPT !.status = "sending", !.attempts = @ + 1,
                                          !.lapsed = FALSE]
                      ELSE row[m]]
         /\ jobs' = [jobs EXCEPT ![r] =
                       {[mail |-> m, attempt |-> row[m].attempts + 1, step |-> "owner",
                         dirty |-> m \in suppressed] : m \in batch}]
  BY DEF Claim
<1>3. PICK new : new = {[mail |-> m, attempt |-> row[m].attempts + 1, step |-> "owner",
                         dirty |-> m \in suppressed] : m \in batch}
  OBVIOUS
<1>4. /\ stage' = [stage EXCEPT ![r] = "recover"]
      /\ UNCHANGED <<suppressed, moved, copies, lapses, lost, faults>>
  BY DEF Claim, history
<1>5. ASSUME NEW m \in Mails
      PROVE  /\ row'[m] \in MailRow
             /\ row'[m].status = (IF m \in batch THEN "sending" ELSE row[m].status)
             /\ row'[m].attempts = (IF m \in batch THEN row[m].attempts + 1
                                    ELSE row[m].attempts)
  <2>1. row[m] \in MailRow BY <1>1
  <2>2. row'[m] = IF m \in batch
                  THEN [row[m] EXCEPT !.status = "sending", !.attempts = @ + 1,
                                      !.lapsed = FALSE]
                  ELSE row[m]
    BY <1>2
  <2>3. CASE m \in batch
    <3>1. PICK a : a = row[m].attempts + 1 OBVIOUS
    <3>2. a \in Nat /\ "sending" \in Waiting \cup Settled \cup {"absent", "sending"}
      BY <2>1, <3>1 DEF MailRow
    <3>3. row'[m] = [row[m] EXCEPT !.status = "sending", !.attempts = a, !.lapsed = FALSE]
      BY <2>2, <2>3, <3>1
    <3> QED BY <2>1, <2>3, <3>1, <3>2, <3>3 DEF MailRow
  <2>4. CASE m \notin batch BY <2>1, <2>2, <2>4
  <2> QED BY <2>3, <2>4
<1>6. \A m \in batch : m \in Mails /\ row[m].status \in Waiting BY DEF Claimable
<1>7. \A m \in batch : row[m].attempts \in Nat BY <1>1, <1>6 DEF MailRow
<1>8. ASSUME NEW j \in new
      PROVE  /\ j \in Job /\ j.step = "owner" /\ j.mail \in batch
             /\ j.attempt = row[j.mail].attempts + 1
             /\ j.dirty => j.mail \in suppressed
  <2>1. PICK m \in batch : j = [mail |-> m, attempt |-> row[m].attempts + 1,
                                step |-> "owner", dirty |-> m \in suppressed]
    BY <1>3
  <2>2. (m \in suppressed) \in BOOLEAN OBVIOUS
  <2>3. row[m].attempts + 1 \in Nat BY <1>7
  <2>4. j \in Job BY <1>6, <2>1, <2>2, <2>3 DEF Job
  <2> QED BY <2>1, <2>4
<1>9. \A j, k \in new : j.mail = k.mail => j = k
  <2>1. ASSUME NEW j \in new, NEW k \in new, j.mail = k.mail PROVE j = k
    <3>1. PICK m \in batch : j = [mail |-> m, attempt |-> row[m].attempts + 1,
                                  step |-> "owner", dirty |-> m \in suppressed]
      BY <1>3
    <3>2. PICK n \in batch : k = [mail |-> n, attempt |-> row[n].attempts + 1,
                                  step |-> "owner", dirty |-> n \in suppressed]
      BY <1>3
    <3>3. m = n BY <2>1, <3>1, <3>2
    <3> QED BY <3>1, <3>2, <3>3
  <2> QED BY <2>1
<1>10. \A q \in Workers : jobs'[q] = IF q = r THEN new ELSE jobs[q]
  BY <1>2, <1>3 DEF MailInv, MailTypeOK
<1>11. row' \in [Mails -> MailRow] BY <1>2, <1>5
<1>12. MailTypeOK'
  <2>1. stage' \in [Workers -> {"recover", "sweep", "claim"}]
    BY <1>4 DEF MailInv, MailTypeOK
  <2>2. jobs' \in [Workers -> SUBSET Job]
    <3>1. new \in SUBSET Job BY <1>8
    <3> QED BY <1>2, <1>3, <3>1 DEF MailInv, MailTypeOK
  <2> QED BY <1>4, <1>11, <2>1, <2>2 DEF MailInv, MailTypeOK, MailRow
<1>13. JobsOK'
  <2>1. \A q \in Workers : stage'[q] = IF q = r THEN "recover" ELSE stage[q]
    BY <1>4 DEF MailInv, MailTypeOK
  <2>2. ASSUME NEW q \in Workers
        PROVE  /\ stage'[q] # "recover" => jobs'[q] = {}
               /\ \A j, k \in jobs'[q] : j.mail = k.mail => j = k
               /\ \A j \in jobs'[q] :
                    j.dirty => j.mail \in suppressed' /\ j.step \notin {"send", "sent"}
    <3>1. CASE q = r BY <1>4, <1>8, <1>9, <1>10, <2>1, <3>1
    <3>2. CASE q # r BY <1>4, <1>10, <2>1, <3>2 DEF MailInv, JobsOK
    <3> QED BY <3>1, <3>2
  <2> QED BY <2>2 DEF JobsOK
<1>14. \A m \in Mails : r \notin Holding(m) /\ r \notin Unspent(m) /\ r \notin Young(m)
  BY <1>1 DEF Holding, Unspent, Young
<1>15. ASSUME NEW m \in Mails, m \notin batch PROVE MailOK(m)'
  <2>1. \A j \in new : j.mail # m BY <1>8, <1>15
  <2>2. Holding(m)' \subseteq Holding(m) BY <1>10, <2>1 DEF Holding
  <2>3. Unspent(m)' \subseteq Unspent(m) BY <1>10, <2>1 DEF Unspent
  <2>4. Young(m)' \subseteq Young(m) BY <1>10, <2>1 DEF Young
  <2>5. InQueue(m)' <= InQueue(m) /\ row'[m].attempts = row[m].attempts
        /\ row'[m].status = row[m].status
    BY <1>5, <1>15 DEF InQueue
  <2>6. lapses[m] <= lapses'[m] /\ lost[m] <= lost'[m] /\ copies'[m] = copies[m]
    BY <1>4 DEF MailInv, MailTypeOK
  <2> QED BY <1>12, <2>2, <2>3, <2>4, <2>5, <2>6, MailStays
<1>16. ASSUME NEW m \in batch PROVE MailOK(m)'
  <2>1. m \in Mails /\ row[m].status \in Waiting BY <1>6
  <2>2. MailOK(m) BY <2>1 DEF MailInv
  <2>3. PICK h : h = Holding(m) OBVIOUS
  <2>4. PICK u : u = Unspent(m) OBVIOUS
  <2>5. PICK y : y = Young(m) OBVIOUS
  <2>6. PICK j \in new : j.mail = m /\ j.step = "owner" /\ j.attempt = row[m].attempts + 1
    <3>1. PICK j : j = [mail |-> m, attempt |-> row[m].attempts + 1, step |-> "owner",
                        dirty |-> m \in suppressed]
      OBVIOUS
    <3> QED BY <1>3, <3>1
  <2>7. Holding(m)' = h \cup {r} /\ Unspent(m)' = u \cup {r}
    <3>1. Holding(m)' = h \cup {r} BY <1>10, <2>3, <2>6 DEF Holding
    <3>2. Unspent(m)' = u \cup {r} BY <1>10, <2>4, <2>6 DEF Unspent
    <3> QED BY <3>1, <3>2
  <2>8. Young(m)' = IF row[m].attempts + 1 < MaxAttempts THEN y \cup {r} ELSE y
    <3>1. \A k \in new : k.mail = m => k.attempt = row[m].attempts + 1 BY <1>8
    <3>2. CASE row[m].attempts + 1 < MaxAttempts
      BY <1>10, <2>5, <2>6, <3>1, <3>2 DEF Young
    <3>3. CASE ~(row[m].attempts + 1 < MaxAttempts)
      BY <1>10, <1>14, <2>1, <2>5, <3>1, <3>3 DEF Young
    <3> QED BY <3>2, <3>3
  <2>9. /\ IsFiniteSet(h) /\ Cardinality(h) \in Nat /\ r \notin h
        /\ IsFiniteSet(u) /\ Cardinality(u) \in Nat /\ r \notin u
        /\ IsFiniteSet(y) /\ Cardinality(y) \in Nat /\ Cardinality(y) <= Cardinality(h)
    BY <1>14, <2>1, <2>2, <2>3, <2>4, <2>5, CountsOfMail DEF MailOK
  <2>10. /\ IsFiniteSet(h \cup {r}) /\ Cardinality(h \cup {r}) = Cardinality(h) + 1
         /\ Cardinality(u \cup {r}) = Cardinality(u) + 1
    BY <2>9, FS_AddElement
  <2>11. InQueue(m) = 1 /\ InQueue(m)' = 0 /\ row'[m].attempts = row[m].attempts + 1
         /\ row'[m].status = "sending"
    BY <1>5, <2>1 DEF InQueue, Waiting
  <2>12. /\ copies[m] \in Nat /\ lapses[m] \in Nat /\ lost[m] \in Nat /\ row[m].attempts \in Nat
         /\ MaxAttempts \in Nat /\ copies' = copies /\ lapses' = lapses /\ lost' = lost
    BY <1>4, <2>1, LimitsAssumption DEF MailInv, MailTypeOK
  <2>13. /\ Cardinality(h) + 1 <= 1 + lapses[m]
         /\ copies[m] + Cardinality(u) + 1 <= 1 + lapses[m] + lost[m]
         /\ row[m].attempts >= MaxAttempts =>
              row[m].attempts + Cardinality(y) + 1 <= MaxAttempts + lapses[m]
    BY <2>2, <2>3, <2>4, <2>5, <2>11 DEF MailOK
  <2>14. row[m].attempts + 1 >= MaxAttempts =>
           row[m].attempts + 1 + Cardinality(y) + 0 <= MaxAttempts + lapses[m]
    BY <2>9, <2>12, <2>13
  <2>15. row[m].attempts + 1 >= MaxAttempts => Young(m)' = y
    BY <2>8, <2>12
  <2>16. IsFiniteSet(Holding(m)') /\ (row'[m].status = "absent" => row'[m].attempts = 0)
    BY <2>7, <2>10, <2>11
  <2>17. Cardinality(Holding(m)') + InQueue(m)' <= 1 + lapses'[m]
    BY <2>7, <2>9, <2>10, <2>11, <2>12, <2>13
  <2>18. copies'[m] + Cardinality(Unspent(m)') + InQueue(m)' <= 1 + lapses'[m] + lost'[m]
    BY <2>7, <2>9, <2>10, <2>11, <2>12, <2>13
  <2>19. row'[m].attempts >= MaxAttempts =>
           row'[m].attempts + Cardinality(Young(m)') + InQueue(m)' <= MaxAttempts + lapses'[m]
    BY <2>11, <2>12, <2>14, <2>15
  <2> QED BY <2>16, <2>17, <2>18, <2>19 DEF MailOK
<1> QED BY <1>12, <1>13, <1>15, <1>16 DEF MailInv

\* A delivery goes on to its next step
LEMMA AdvanceMoves ==
    ASSUME MailInv, NEW r \in Workers, NEW j \in jobs[r],
           NEW step \in {"owner", "check", "send", "sent", "retry", "fail", "suppress"},
           Advance(r, j, step), j.step \in {"owner", "check", "send"},
           j.dirty => step \notin {"send", "sent"},
           UNCHANGED <<stage, suppressed>>
    PROVE  /\ JobsOK' /\ jobs' \in [Workers -> SUBSET Job]
           /\ \A m \in Mails : /\ Holding(m)' \subseteq Holding(m)
                               /\ Unspent(m)' \subseteq Unspent(m)
                               /\ Young(m)' \subseteq Young(m)
           /\ r \in Unspent(j.mail)
           /\ step = "sent" => r \notin Unspent(j.mail)'
<1>1. PICK k : k = [j EXCEPT !.step = step] OBVIOUS
<1>2. j \in Job BY DEF MailInv, MailTypeOK
<1>3. /\ k \in Job /\ k.mail = j.mail /\ k.attempt = j.attempt /\ k.dirty = j.dirty
      /\ k.step = step
  BY <1>1, <1>2 DEF Job
<1>4. \A q \in Workers : jobs'[q] = IF q = r THEN (jobs[r] \ {j}) \cup {k} ELSE jobs[q]
  BY <1>1 DEF Advance, MailInv, MailTypeOK
<1>5. jobs' \in [Workers -> SUBSET Job]
  <2>1. jobs[r] \in SUBSET Job BY DEF MailInv, MailTypeOK
  <2>2. (jobs[r] \ {j}) \cup {k} \in SUBSET Job BY <1>3, <2>1
  <2> QED BY <1>1, <2>2 DEF Advance, MailInv, MailTypeOK
<1>6. \A i \in jobs[r] : i.mail = j.mail => i = j BY DEF MailInv, JobsOK
<1>7. JobsOK'
  <2>1. ASSUME NEW q \in Workers
        PROVE  /\ stage'[q] # "recover" => jobs'[q] = {}
               /\ \A a, b \in jobs'[q] : a.mail = b.mail => a = b
               /\ \A a \in jobs'[q] :
                    a.dirty => a.mail \in suppressed' /\ a.step \notin {"send", "sent"}
    <3>1. CASE q # r BY <1>4, <3>1 DEF MailInv, JobsOK
    <3>2. CASE q = r
      <4>1. stage[r] = "recover" BY DEF MailInv, JobsOK
      <4>2. \A a, b \in jobs'[r] : a.mail = b.mail => a = b
        BY <1>3, <1>4, <1>6 DEF MailInv, JobsOK
      <4>3. \A a \in jobs'[r] :
              a.dirty => a.mail \in suppressed' /\ a.step \notin {"send", "sent"}
        BY <1>3, <1>4 DEF MailInv, JobsOK
      <4> QED BY <3>2, <4>1, <4>2, <4>3
    <3> QED BY <3>1, <3>2
  <2> QED BY <2>1 DEF JobsOK
<1>8. r \in Unspent(j.mail) BY DEF Unspent
<1>9. ASSUME NEW m \in Mails
      PROVE  /\ Holding(m)' \subseteq Holding(m) /\ Unspent(m)' \subseteq Unspent(m)
             /\ Young(m)' \subseteq Young(m)
  <2>1. Holding(m)' \subseteq Holding(m) BY <1>3, <1>4 DEF Holding
  <2>2. Unspent(m)' \subseteq Unspent(m) BY <1>3, <1>4, <1>8 DEF Unspent
  <2>3. Young(m)' \subseteq Young(m) BY <1>3, <1>4 DEF Young
  <2> QED BY <2>1, <2>2, <2>3
<1>10. ASSUME step = "sent" PROVE r \notin Unspent(j.mail)'
  <2>1. \A i \in jobs'[r] : i.mail = j.mail => i = k BY <1>3, <1>4, <1>6
  <2> QED BY <1>3, <1>10, <2>1 DEF Unspent
<1> QED BY <1>5, <1>7, <1>8, <1>9, <1>10

\* A lookup costs nothing
LEMMA LookupsKeep ==
    ASSUME MailInv, NEW r \in Workers, NEW j \in jobs[r],
           CheckOwner(r, j) \/ CheckSuppression(r, j)
    PROVE  MailInv'
<1>1. PICK step \in {"check", "fail", "suppress", "send", "retry"} :
         /\ Advance(r, j, step)
         /\ step = "send" => j.step = "check" /\ j.mail \notin suppressed
  BY DEF CheckOwner, CheckSuppression
<1>2. /\ UNCHANGED <<row, suppressed, moved, stage, history>>
      /\ j.step \in {"owner", "check", "send"} /\ faults' \in 0 .. MaxFaults
  BY LimitsAssumption DEF CheckOwner, CheckSuppression, Fault, MailInv, MailTypeOK
<1>3. j.dirty => step \notin {"send", "sent"} BY <1>1 DEF MailInv, JobsOK
<1>4. /\ JobsOK' /\ jobs' \in [Workers -> SUBSET Job]
      /\ \A m \in Mails : Holding(m)' \subseteq Holding(m) /\ Unspent(m)' \subseteq Unspent(m)
                          /\ Young(m)' \subseteq Young(m)
  BY <1>1, <1>2, <1>3, AdvanceMoves
<1>5. MailTypeOK' BY <1>2, <1>4 DEF history, MailInv, MailTypeOK
<1>6. ASSUME NEW m \in Mails PROVE MailOK(m)'
  <2>1. /\ lapses[m] <= lapses'[m] /\ lost[m] <= lost'[m] /\ copies'[m] = copies[m]
        /\ InQueue(m)' <= InQueue(m)
    BY <1>2 DEF history, InQueue, MailInv, MailTypeOK
  <2> QED BY <1>2, <1>4, <1>5, <2>1, MailStays
<1> QED BY <1>4, <1>5, <1>6 DEF MailInv

\* A copy is paid by the delivery that sent it or by the answer that was lost
LEMMA SendKeeps ==
    ASSUME MailInv, NEW r \in Workers, NEW j \in jobs[r], Send(r, j)
    PROVE  MailInv'
<1>1. PICK step \in {"sent", "retry"} :
         /\ Advance(r, j, step)
         /\ \/ copies' = [copies EXCEPT ![j.mail] = @ + 1] /\ lost' = lost /\ step = "sent"
            \/ copies' = copies /\ lost' = lost
            \/ /\ copies' = [copies EXCEPT ![j.mail] = @ + 1]
               /\ lost' = [lost EXCEPT ![j.mail] = @ + 1]
  BY DEF Send
<1>2. /\ UNCHANGED <<row, suppressed, moved, stage, lapses>> /\ j.step = "send"
      /\ faults' \in 0 .. MaxFaults
  BY LimitsAssumption DEF Send, Fault, MailInv, MailTypeOK
<1>3. ~j.dirty BY <1>2 DEF MailInv, JobsOK
<1>4. /\ JobsOK' /\ jobs' \in [Workers -> SUBSET Job]
      /\ \A m \in Mails : Holding(m)' \subseteq Holding(m) /\ Unspent(m)' \subseteq Unspent(m)
                          /\ Young(m)' \subseteq Young(m)
      /\ r \in Unspent(j.mail) /\ (step = "sent" => r \notin Unspent(j.mail)')
  BY <1>1, <1>2, <1>3, AdvanceMoves
<1>5. copies' \in [Mails -> Nat] /\ lost' \in [Mails -> Nat]
  BY <1>1 DEF MailInv, MailTypeOK
<1>6. MailTypeOK' BY <1>2, <1>4, <1>5 DEF MailInv, MailTypeOK
<1>7. PICK n : n = j.mail OBVIOUS
<1>8. n \in Mails BY <1>7 DEF MailInv, MailTypeOK, Job
<1>9. \A m \in Mails : /\ copies[m] \in Nat /\ lost[m] \in Nat /\ lapses[m] \in Nat
                       /\ row[m].attempts \in Nat
  BY DEF MailInv, MailTypeOK
<1>10. ASSUME NEW m \in Mails, copies'[m] = copies[m], lost'[m] = lost[m] PROVE MailOK(m)'
  <2>1. lapses[m] <= lapses'[m] /\ lost[m] <= lost'[m] /\ InQueue(m)' <= InQueue(m)
    BY <1>2, <1>9, <1>10 DEF InQueue
  <2> QED BY <1>2, <1>4, <1>6, <1>10, <2>1, MailStays
<1>11. ASSUME copies'[n] # copies[n] \/ lost'[n] # lost[n] PROVE MailOK(n)'
  <2>1. PICK h : h = Holding(n)' OBVIOUS
  <2>2. PICK u : u = Unspent(n)' OBVIOUS
  <2>3. PICK y : y = Young(n)' OBVIOUS
  <2>4. MailOK(n) /\ IsFiniteSet(Holding(n)) BY <1>8 DEF MailInv, MailOK
  <2>5. /\ Cardinality(Holding(n)) \in Nat
        /\ IsFiniteSet(Unspent(n)) /\ Cardinality(Unspent(n)) \in Nat
        /\ IsFiniteSet(Young(n)) /\ Cardinality(Young(n)) \in Nat
    BY <2>4, CountsOfMail
  <2>6. /\ IsFiniteSet(h) /\ Cardinality(h) \in Nat /\ Cardinality(h) <= Cardinality(Holding(n))
        /\ Cardinality(u) \in Nat /\ Cardinality(u) <= Cardinality(Unspent(n))
        /\ Cardinality(y) \in Nat /\ Cardinality(y) <= Cardinality(Young(n))
    BY <1>4, <1>8, <2>1, <2>2, <2>3, <2>4, <2>5, FS_Subset, FS_CardinalityType
  <2>7. copies'[n] + Cardinality(u) <= copies[n] + Cardinality(Unspent(n)) + lost'[n] - lost[n]
    <3>1. CASE copies' = [copies EXCEPT ![j.mail] = @ + 1] /\ lost' = lost /\ step = "sent"
      <4>1. u \in SUBSET (Unspent(n) \ {r}) BY <1>4, <1>7, <1>8, <2>2, <3>1
      <4>2. /\ IsFiniteSet(Unspent(n) \ {r})
            /\ Cardinality(Unspent(n) \ {r}) = Cardinality(Unspent(n)) - 1
        BY <1>4, <1>7, <2>5, FS_RemoveElement
      <4>3. Cardinality(u) <= Cardinality(Unspent(n)) - 1 BY <4>1, <4>2, FS_Subset
      <4>4. copies'[n] = copies[n] + 1 /\ lost'[n] = lost[n]
        BY <1>7, <1>8, <3>1 DEF MailInv, MailTypeOK
      <4> QED BY <1>8, <1>9, <2>5, <2>6, <4>3, <4>4
    <3>2. CASE copies' = copies /\ lost' = lost BY <1>11, <3>2
    <3>3. CASE /\ copies' = [copies EXCEPT ![j.mail] = @ + 1]
               /\ lost' = [lost EXCEPT ![j.mail] = @ + 1]
      <4>1. copies'[n] = copies[n] + 1 /\ lost'[n] = lost[n] + 1
        BY <1>7, <1>8, <3>3 DEF MailInv, MailTypeOK
      <4> QED BY <1>8, <1>9, <2>5, <2>6, <4>1
    <3> QED BY <1>1, <3>1, <3>2, <3>3
  <2>8. /\ InQueue(n)' = InQueue(n) /\ InQueue(n) \in {0, 1} /\ row' = row /\ lapses' = lapses
        /\ copies'[n] \in Nat /\ lost'[n] \in Nat /\ MaxAttempts \in Nat
    BY <1>2, <1>5, <1>8, LimitsAssumption DEF InQueue
  <2>9. Cardinality(Holding(n)') + InQueue(n)' <= 1 + lapses'[n]
    <3>1. Cardinality(Holding(n)) + InQueue(n) <= 1 + lapses[n] BY <2>4 DEF MailOK
    <3> QED BY <1>8, <1>9, <2>1, <2>5, <2>6, <2>8, <3>1
  <2>10. copies'[n] + Cardinality(Unspent(n)') + InQueue(n)' <= 1 + lapses'[n] + lost'[n]
    <3>1. copies[n] + Cardinality(Unspent(n)) + InQueue(n) <= 1 + lapses[n] + lost[n]
      BY <2>4 DEF MailOK
    <3> QED BY <1>8, <1>9, <2>2, <2>5, <2>6, <2>7, <2>8, <3>1
  <2>11. row'[n].attempts >= MaxAttempts =>
           row'[n].attempts + Cardinality(Young(n)') + InQueue(n)' <= MaxAttempts + lapses'[n]
    <3>1. row[n].attempts >= MaxAttempts =>
            row[n].attempts + Cardinality(Young(n)) + InQueue(n) <= MaxAttempts + lapses[n]
      BY <2>4 DEF MailOK
    <3> QED BY <1>8, <1>9, <2>3, <2>5, <2>6, <2>8, <3>1
  <2>12. IsFiniteSet(Holding(n)') /\ (row'[n].status = "absent" => row'[n].attempts = 0)
    BY <2>1, <2>4, <2>6, <2>8 DEF MailOK
  <2> QED BY <2>9, <2>10, <2>11, <2>12 DEF MailOK
<1>12. \A m \in Mails \ {n} : copies'[m] = copies[m] /\ lost'[m] = lost[m]
  BY <1>1, <1>7 DEF MailInv, MailTypeOK
<1> QED BY <1>4, <1>6, <1>8, <1>10, <1>11, <1>12 DEF MailInv

\* A delivery that ends gives up what it had
LEMMA DropMoves ==
    ASSUME MailInv, NEW r \in Workers, NEW j \in jobs[r], Drop(r, j),
           UNCHANGED <<stage, suppressed>>
    PROVE  /\ JobsOK' /\ jobs' \in [Workers -> SUBSET Job]
           /\ \A m \in Mails : /\ Holding(m)' \subseteq Holding(m)
                               /\ Unspent(m)' \subseteq Unspent(m)
                               /\ Young(m)' \subseteq Young(m)
           /\ r \in Holding(j.mail) /\ r \notin Holding(j.mail)'
           /\ r \notin Unspent(j.mail)' /\ r \notin Young(j.mail)'
<1>1. \A q \in Workers : jobs'[q] = IF q = r THEN jobs[r] \ {j} ELSE jobs[q]
  BY DEF Drop, MailInv, MailTypeOK
<1>2. \A i \in jobs'[r] : i.mail # j.mail BY <1>1 DEF MailInv, JobsOK
<1>3. \A q \in Workers : jobs'[q] \subseteq jobs[q] BY <1>1
<1>4. JobsOK' BY <1>3 DEF MailInv, JobsOK
<1>5. jobs' \in [Workers -> SUBSET Job]
  <2>1. jobs[r] \ {j} \in SUBSET Job BY DEF MailInv, MailTypeOK
  <2> QED BY <2>1 DEF Drop, MailInv, MailTypeOK
<1>6. ASSUME NEW m \in Mails
      PROVE  /\ Holding(m)' \subseteq Holding(m) /\ Unspent(m)' \subseteq Unspent(m)
             /\ Young(m)' \subseteq Young(m)
  BY <1>3 DEF Holding, Unspent, Young
<1>7. r \in Holding(j.mail) /\ r \notin Holding(j.mail)' BY <1>2 DEF Holding
<1>8. r \notin Unspent(j.mail)' /\ r \notin Young(j.mail)' BY <1>2 DEF Unspent, Young
<1> QED BY <1>4, <1>5, <1>6, <1>7, <1>8

\* A final update may put a mail back in the queue, whatever the row says, at the
\* cost of the delivery that wrote it
LEMMA RecordKeeps ==
    ASSUME MailInv, NEW r \in Workers, NEW j \in jobs[r], Record(r, j)
    PROVE  MailInv'
<1>1. PICK n : n = j.mail OBVIOUS
<1>2. j \in Job /\ n \in Mails /\ j.attempt \in Nat BY <1>1 DEF MailInv, MailTypeOK, Job
<1>3. /\ Drop(r, j) /\ UNCHANGED <<suppressed, moved, stage, copies, lapses, lost>>
      /\ j.step \in {"sent", "retry", "fail", "suppress"}
      /\ faults' \in 0 .. MaxFaults
  BY LimitsAssumption DEF Record, Fault, history, MailInv, MailTypeOK
<1>4. /\ JobsOK' /\ jobs' \in [Workers -> SUBSET Job]
      /\ \A m \in Mails : Holding(m)' \subseteq Holding(m) /\ Unspent(m)' \subseteq Unspent(m)
                          /\ Young(m)' \subseteq Young(m)
      /\ r \in Holding(n) /\ r \notin Holding(n)'
      /\ r \notin Unspent(n)' /\ r \notin Young(n)'
  BY <1>1, <1>3, DropMoves
<1>5. row \in [Mails -> MailRow] BY DEF MailInv, MailTypeOK, MailRow
<1>6. PICK e : e = Final(j) OBVIOUS
<1>7. /\ e \in MailRow /\ e.attempts = row[n].attempts /\ e.status # "absent"
      /\ e.status \in Waiting => j.step = "retry" /\ j.attempt < MaxAttempts
  <2>1. row[n] \in MailRow BY <1>2, <1>5
  <2>2. j.step = "retry" => e = [row[n] EXCEPT
            !.status = IF j.attempt >= MaxAttempts THEN "failed" ELSE "retry",
            !.due = FALSE, !.lapsed = FALSE]
    BY <1>1, <1>6 DEF Final
  <2>3. j.step # "retry" => \E st \in {"sent", "suppressed", "failed"} :
            e = [row[n] EXCEPT !.status = st, !.lapsed = FALSE]
    BY <1>1, <1>3, <1>6 DEF Final
  <2>4. CASE j.step = "retry"
    <3>1. PICK st : st = IF j.attempt >= MaxAttempts THEN "failed" ELSE "retry" OBVIOUS
    <3>2. e = [row[n] EXCEPT !.status = st, !.due = FALSE, !.lapsed = FALSE] BY <2>2, <2>4, <3>1
    <3>3. st = "failed" \/ (st = "retry" /\ j.attempt < MaxAttempts)
      BY <1>2, <3>1, LimitsAssumption
    <3> QED BY <2>1, <2>4, <3>2, <3>3 DEF MailRow, Waiting, Settled
  <2>5. CASE j.step # "retry" BY <2>1, <2>3, <2>5 DEF MailRow, Waiting, Settled
  <2> QED BY <2>4, <2>5
<1>8. row' = row \/ row' = [row EXCEPT ![n] = e] BY <1>1, <1>6 DEF Record
<1>9. row' \in [Mails -> MailRow] BY <1>5, <1>7, <1>8
<1>10. MailTypeOK' BY <1>3, <1>4, <1>9 DEF MailInv, MailTypeOK, MailRow
<1>11. \A m \in Mails : /\ copies[m] \in Nat /\ lost[m] \in Nat /\ lapses[m] \in Nat
                        /\ row[m].attempts \in Nat
  BY DEF MailInv, MailTypeOK
<1>12. ASSUME NEW m \in Mails, InQueue(m)' <= InQueue(m) PROVE MailOK(m)'
  <2>1. /\ row'[m].attempts = row[m].attempts
        /\ row'[m].status = "absent" => row[m].status = "absent"
    BY <1>5, <1>7, <1>8
  <2>2. lapses[m] <= lapses'[m] /\ lost[m] <= lost'[m] /\ copies'[m] = copies[m]
    BY <1>3, <1>11
  <2> QED BY <1>4, <1>10, <1>12, <2>1, <2>2, MailStays
<1>13. ASSUME NEW m \in Mails \ {n} PROVE InQueue(m)' <= InQueue(m)
  <2>1. row'[m] = row[m] BY <1>2, <1>5, <1>8
  <2> QED BY <2>1 DEF InQueue
<1>14. ASSUME ~(InQueue(n)' <= InQueue(n)) PROVE MailOK(n)'
  <2>1. InQueue(n) = 0 /\ InQueue(n)' = 1 BY <1>14 DEF InQueue
  <2>2. row' # row BY <2>1 DEF InQueue
  <2>3. row'[n] = e BY <1>2, <1>5, <1>8, <2>2
  <2>4. /\ j.step = "retry" /\ j.attempt < MaxAttempts /\ row'[n].attempts = row[n].attempts
        /\ row'[n].status # "absent"
    BY <1>7, <2>1, <2>3 DEF InQueue
  <2>5. r \in Unspent(n) /\ r \in Young(n) BY <1>1, <2>4 DEF Unspent, Young
  <2>6. PICK h : h = Holding(n)' OBVIOUS
  <2>7. PICK u : u = Unspent(n)' OBVIOUS
  <2>8. PICK y : y = Young(n)' OBVIOUS
  <2>9. MailOK(n) /\ IsFiniteSet(Holding(n)) BY <1>2 DEF MailInv, MailOK
  <2>10. /\ Cardinality(Holding(n)) \in Nat
         /\ IsFiniteSet(Unspent(n)) /\ Cardinality(Unspent(n)) \in Nat
         /\ IsFiniteSet(Young(n)) /\ Cardinality(Young(n)) \in Nat
    BY <2>9, CountsOfMail
  <2>11. h \subseteq Holding(n) \ {r} /\ u \subseteq Unspent(n) \ {r} /\ y \subseteq Young(n) \ {r}
    BY <1>2, <1>4, <2>6, <2>7, <2>8
  <2>12. IsFiniteSet(h) /\ Cardinality(h) \in Nat /\ Cardinality(h) <= Cardinality(Holding(n)) - 1
    BY <1>4, <2>9, <2>10, <2>11, OneLess
  <2>13. Cardinality(u) \in Nat /\ Cardinality(u) <= Cardinality(Unspent(n)) - 1
    BY <2>5, <2>10, <2>11, OneLess
  <2>14. Cardinality(y) \in Nat /\ Cardinality(y) <= Cardinality(Young(n)) - 1
    BY <2>5, <2>10, <2>11, OneLess
  <2>15. /\ copies' = copies /\ lapses' = lapses /\ lost' = lost /\ MaxAttempts \in Nat
    BY <1>3, LimitsAssumption
  <2>16. Cardinality(Holding(n)') + InQueue(n)' <= 1 + lapses'[n]
    <3>1. Cardinality(Holding(n)) + InQueue(n) <= 1 + lapses[n] BY <2>9 DEF MailOK
    <3> QED BY <1>2, <1>11, <2>1, <2>6, <2>10, <2>12, <2>15, <3>1
  <2>17. copies'[n] + Cardinality(Unspent(n)') + InQueue(n)' <= 1 + lapses'[n] + lost'[n]
    <3>1. copies[n] + Cardinality(Unspent(n)) + InQueue(n) <= 1 + lapses[n] + lost[n]
      BY <2>9 DEF MailOK
    <3> QED BY <1>2, <1>11, <2>1, <2>7, <2>10, <2>13, <2>15, <3>1
  <2>18. row'[n].attempts >= MaxAttempts =>
           row'[n].attempts + Cardinality(Young(n)') + InQueue(n)' <= MaxAttempts + lapses'[n]
    <3>1. row[n].attempts >= MaxAttempts =>
            row[n].attempts + Cardinality(Young(n)) + InQueue(n) <= MaxAttempts + lapses[n]
      BY <2>9 DEF MailOK
    <3> QED BY <1>2, <1>11, <2>1, <2>4, <2>8, <2>10, <2>14, <2>15, <3>1
  <2>19. IsFiniteSet(Holding(n)') /\ (row'[n].status = "absent" => row'[n].attempts = 0)
    BY <2>4, <2>6, <2>12
  <2> QED BY <2>16, <2>17, <2>18, <2>19 DEF MailOK
<1> QED BY <1>2, <1>4, <1>10, <1>12, <1>13, <1>14 DEF MailInv

LEMMA CrashKeeps ==
    ASSUME MailInv, NEW r \in Workers, Crash(r)
    PROVE  MailInv'
<1>1. /\ \A q \in Workers : jobs'[q] = IF q = r THEN {} ELSE jobs[q]
      /\ \A q \in Workers : stage'[q] = IF q = r THEN "recover" ELSE stage[q]
      /\ stage' \in [Workers -> {"recover", "sweep", "claim"}]
      /\ UNCHANGED <<row, suppressed, moved, history>> /\ faults' \in 0 .. MaxFaults
  BY LimitsAssumption DEF Crash, Fault, MailInv, MailTypeOK
<1>2. MailTypeOK'
  <2>1. jobs' \in [Workers -> SUBSET Job] BY DEF Crash, MailInv, MailTypeOK
  <2> QED BY <1>1, <2>1 DEF history, MailInv, MailTypeOK
<1>3. JobsOK' BY <1>1 DEF MailInv, JobsOK
<1>4. ASSUME NEW m \in Mails PROVE MailOK(m)'
  <2>1. /\ Holding(m)' \subseteq Holding(m) /\ Unspent(m)' \subseteq Unspent(m)
        /\ Young(m)' \subseteq Young(m)
    BY <1>1 DEF Holding, Unspent, Young
  <2>2. /\ lapses[m] <= lapses'[m] /\ lost[m] <= lost'[m] /\ copies'[m] = copies[m]
        /\ InQueue(m)' <= InQueue(m)
    BY <1>1 DEF history, InQueue, MailInv, MailTypeOK
  <2> QED BY <1>1, <1>2, <2>1, <2>2, MailStays
<1> QED BY <1>2, <1>3, <1>4 DEF MailInv

LEMMA MailStepKeeps == MailInv /\ [MailNext]_mailVars => MailInv'
<1> SUFFICES ASSUME MailInv, [MailNext]_mailVars PROVE MailInv' OBVIOUS
<1>1. ASSUME NEW r \in Workers, Pass(r) PROVE MailInv'
  BY <1>1, RecoverKeeps, SweepKeeps, ClaimKeeps DEF Pass
<1>2. ASSUME NEW r \in Workers, Deliver(r) PROVE MailInv'
  BY <1>2, LookupsKeep, SendKeeps, RecordKeeps DEF Deliver
<1>3. CASE UNCHANGED mailVars
  BY <1>3 DEF mailVars, history, MailInv, MailTypeOK, JobsOK, MailOK, Holding, Unspent, Young,
              InQueue
<1> QED BY <1>1, <1>2, <1>3, QueueKeeps, CrashKeeps DEF MailNext

\* The rows, the passes and their deliveries keep their types.
THEOREM MailTypesHold == MailSpec => []MailTypeOK
<1>1. MailInv => MailTypeOK BY DEF MailInv
<1> QED BY <1>1, MailBegins, MailStepKeeps, PTL DEF MailSpec

\* Every copy but the first is paid for by a lease that lapsed or an answer that
\* was lost, every attempt beyond the limit by a lapse, and no complaint that came
\* before the claim is ignored (RunEmailDeliveryBatch, deliverEmail, failEmail,
\* retryEmail): for any mails, replicas and limits.
THEOREM MailRulesHold == MailSpec => []MailRules
<1>1. MailInv => MailRules
  <2> SUFFICES ASSUME MailInv PROVE MailRules OBVIOUS
  <2>1. ASSUME NEW m \in Mails
        PROVE  /\ copies[m] <= 1 + lapses[m] + lost[m]
               /\ row[m].attempts <= MaxAttempts + lapses[m]
    <3>1. MailOK(m) /\ IsFiniteSet(Holding(m)) BY DEF MailInv, MailOK
    <3>2. Cardinality(Unspent(m)) \in Nat /\ Cardinality(Young(m)) \in Nat
      BY <3>1, CountsOfMail
    <3>3. /\ copies[m] \in Nat /\ lapses[m] \in Nat /\ lost[m] \in Nat
          /\ row[m].attempts \in Nat /\ MaxAttempts \in Nat /\ InQueue(m) \in Nat
      BY LimitsAssumption DEF InQueue, MailInv, MailTypeOK
    <3> QED BY <3>1, <3>2, <3>3 DEF MailOK
  <2>2. NoMailToSuppressed BY DEF NoMailToSuppressed, MailInv, JobsOK
  <2> QED BY <2>1, <2>2 DEF MailRules, CopiesBounded, AttemptsBounded
<1> QED BY <1>1, MailBegins, MailStepKeeps, PTL DEF MailSpec

------------------------------------------------------------------------------
(* Accounts, administrators and public pages together.                        *)

AccessInv == AccountsInv /\ AdminInv /\ CacheInv

LEMMA AccessStep == AccessInv /\ [AccessNext]_allVars => AccessInv'
<1> SUFFICES ASSUME AccessInv, [AccessNext]_allVars PROVE AccessInv'
  OBVIOUS
<1>1. AccountsInv /\ AdminInv /\ CacheInv BY DEF AccessInv
<1>2. [Next]_vars /\ [AdminNext]_adminVars /\ [CacheNext]_cacheVars
  BY DEF AccessNext, allVars
<1>3. AccountsInv' BY <1>1, <1>2, AccountsStep
<1>4. AdminInv' BY <1>1, <1>2, AdminStepKeeps
<1>5. CacheInv' BY <1>1, <1>2, CacheStepKeeps
<1> QED BY <1>3, <1>4, <1>5 DEF AccessInv

\* Rows, links, requests, tokens and pages stay in their domains, identities
\* and rewards agree with the accounts, a super administrator is left and no
\* answer is older than its question: all that stands before the handlers
\* (auth_controller.go, admin_access_controller.go, public_cache.go)
THEOREM AccessHolds ==
    AccessSpec => [](AccessTypeOK /\ AccountsAgree /\ LastAdminStays /\ PagesAreFresh)
<1>1. AccessInit => AccessInv
  BY AccountsBegin, AdminBegins, CacheBegins DEF AccessInit, AccessInv
<1>2. AccessInv => AccessTypeOK /\ AccountsAgree /\ LastAdminStays /\ PagesAreFresh
  BY DEF AccessInv, AccessTypeOK, AccountsInv, AccountsAgree, AdminInv, CacheInv, PagesAreFresh
<1> QED BY <1>1, <1>2, AccessStep, PTL DEF AccessSpec
=============================================================================
