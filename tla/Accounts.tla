------------------------------ MODULE Accounts ------------------------------
(* Accounts of users: sign-up and the links mailed for it, password reset,    *)
(* Google sign-in through Privy, bearer sessions, and the XP that new         *)
(* accounts earn for themselves and for who referred them.                    *)
(*                                                                            *)
(* An account is known by its email.  A mailed link may be opened at any      *)
(* moment, or never; links that expired are links nobody opens.  A sign-in    *)
(* with a password reads the account twice: the password hash first, the      *)
(* session version afterwards.  A Google sign-in is one transaction behind    *)
(* two advisory locks, the subject's and the email's; SignUp takes neither.   *)
(* The welcome reward follows the commit in a transaction of its own.         *)
(* Referral rewards are given by triggers on the account, on the referral     *)
(* and on the provider's payment, whichever comes last.                       *)
(*                                                                            *)
(* Sources: auth_controller.go, identity_service.go, reward_service.go,       *)
(* referral_controller.go, middleware/auth.go, auth/tokens.go, migrations     *)
(* 018, 102 and 104.                                                          *)
(*                                                                            *)
(* A definition introduced by "Slip:" is an operation with one plausible      *)
(* mistake; no behaviour of Spec uses it.                                     *)
EXTENDS Naturals, FiniteSets

CONSTANTS
    Emails,     \* email addresses, each one account at most
    Subjects,   \* Google identities as Privy names them
    Requests,   \* requests in progress
    Referrer,   \* the email of the account that refers others
    MaxLinks,   \* bound: links mailed
    MaxResets,  \* bound: passwords an account has had after its first
    NoEmail,    \* no account
    NoSubject   \* no Google identity

ASSUME AccountsAssumption ==
    /\ Referrer \in Emails
    /\ NoEmail \notin Emails /\ NoSubject \notin Subjects
    /\ MaxLinks \in Nat /\ MaxResets \in Nat

VARIABLES
    user,       \* the users row of an email
    identity,   \* user_identities: the account of a Google subject
    links,      \* links mailed: kind, address and number
    request,    \* what a request in progress has read
    sessions,   \* bearer tokens handed out
    referral,   \* user_referrals of a referred account
    ledger,     \* XP: welcome, referral_signup and referral_provider entries
    enabled     \* referral_program_settings

vars == <<user, identity, links, request, sessions, referral, ledger, enabled>>

NoUser == [made |-> FALSE, active |-> FALSE, subject |-> NoSubject, password |-> 0,
           version |-> 0, verifyLink |-> 0, resetLink |-> 0]
Idle == [op |-> "idle", email |-> NoEmail, subject |-> NoSubject, found |-> NoEmail]
NoReferral == [attached |-> FALSE, signup |-> FALSE, provider |-> FALSE, paid |-> FALSE]
Rewards == {"welcome", "referral_signup", "referral_provider"}

Init ==
    /\ user = [e \in Emails |->
         IF e = Referrer THEN [NoUser EXCEPT !.made = TRUE, !.active = TRUE, !.password = 1]
         ELSE NoUser]
    /\ identity = [s \in Subjects |-> NoEmail]
    /\ links = {}
    /\ request = [r \in Requests |-> Idle]
    /\ sessions = {}
    /\ referral = [e \in Emails |-> NoReferral]
    /\ ledger = [e \in Emails |-> [w \in Rewards |-> 0]]
    /\ enabled \in {"always", "paused"}

------------------------------------------------------------------------------
(* What a transaction sees and may write.                                     *)

\* email_verified and is_active are set together, by VerifyEmail or by Google
Active(e) == user[e].active

\* The row lock a Google sign-in holds on an account it found
Held(e) == \E r \in Requests : request[r].op = "google" /\ request[r].found = e

NewLink == Cardinality(links) + 1
Mail(kind, e) == links' = links \cup {[kind |-> kind, email |-> e, number |-> NewLink]}

On == enabled # "paused"

\* Slip: the reference is made for the call, not for the account (TypeOK).
AwardAgain(book, e, what) == [book EXCEPT ![e][what] = @ + 1]

\* RewardService.award and the inserts of the trigger: one entry per reference
Award(book, e, what) == [book EXCEPT ![e][what] = 1]

\* reconcile_referral_reward, run by the triggers on the account, the referral
\* and the payment, with the rows the transaction has just written.  The entry
\* goes to the referrer; it is kept here under the referred account
Reconcile(e, row, active) ==
    IF On /\ row.attached /\ active
    THEN /\ referral' = [referral EXCEPT ![e] =
                [row EXCEPT !.signup = TRUE, !.provider = @ \/ row.paid]]
         /\ ledger' = IF row.paid
                      THEN Award(Award(ledger, e, "referral_signup"), e, "referral_provider")
                      ELSE Award(ledger, e, "referral_signup")
    ELSE /\ referral' = [referral EXCEPT ![e] = row]
         /\ UNCHANGED ledger

\* attachReferralTx: a code is taken from new accounts only, while the program
\* runs; an unusable code refuses the whole sign-up
MayAttach(e) == On /\ e # Referrer

------------------------------------------------------------------------------
(* Sign-up with an email address.                                             *)

Signup(e, referred) ==
    /\ ~user[e].made /\ NewLink <= MaxLinks
    /\ referred => MayAttach(e)
    /\ user' = [user EXCEPT ![e] = [NoUser EXCEPT !.made = TRUE, !.password = 1,
                                                  !.verifyLink = NewLink]]
    /\ Mail("verify", e)
    /\ Reconcile(e, [referral[e] EXCEPT !.attached = referred], FALSE)
    /\ UNCHANGED <<identity, request, sessions, enabled>>

\* ResendVerification reads the account without locking it
BeginResend(r, e) ==
    /\ request[r] = Idle
    /\ user[e].made /\ ~Active(e)
    /\ request' = [request EXCEPT ![r] = [Idle EXCEPT !.op = "resend", !.email = e]]
    /\ UNCHANGED <<user, identity, links, sessions, referral, ledger, enabled>>

\* The new link replaces the one mailed before, also on an account verified
\* in the meantime
ResendVerification(r) ==
    LET e == request[r].email IN
    /\ request[r].op = "resend" /\ ~Held(e) /\ NewLink <= MaxLinks
    /\ user' = [user EXCEPT ![e].verifyLink = NewLink]
    /\ Mail("verify", e)
    /\ request' = [request EXCEPT ![r] = Idle]
    /\ UNCHANGED <<identity, sessions, referral, ledger, enabled>>

VerifyEmail(r, link) ==
    LET e == link.email IN
    /\ request[r] = Idle /\ ~Held(e)
    /\ link.kind = "verify" /\ user[e].verifyLink = link.number
    /\ user' = [user EXCEPT ![e].active = TRUE, ![e].verifyLink = 0]
    /\ request' = [request EXCEPT ![r] = [Idle EXCEPT !.op = "welcome", !.email = e]]
    /\ Reconcile(e, referral[e], TRUE)
    /\ UNCHANGED <<identity, links, sessions, enabled>>

------------------------------------------------------------------------------
(* Passwords.                                                                 *)

ForgotPassword(e) ==
    /\ user[e].made /\ ~Held(e) /\ NewLink <= MaxLinks
    /\ user' = [user EXCEPT ![e].resetLink = NewLink]
    /\ Mail("reset", e)
    /\ UNCHANGED <<identity, request, sessions, referral, ledger, enabled>>

\* Slip: the sessions of the old password are left alone (SignedOutForGood).
ResetPasswordOnly(link) ==
    LET e == link.email IN
    /\ ~Held(e) /\ user[e].password <= MaxResets
    /\ link.kind = "reset" /\ user[e].resetLink = link.number
    /\ user' = [user EXCEPT ![e].password = @ + 1, ![e].resetLink = 0]
    /\ UNCHANGED <<identity, links, request, sessions, referral, ledger, enabled>>

ResetPassword(link) ==
    LET e == link.email IN
    /\ ~Held(e) /\ user[e].password <= MaxResets
    /\ link.kind = "reset" /\ user[e].resetLink = link.number
    /\ user' = [user EXCEPT ![e].password = @ + 1, ![e].resetLink = 0,
                            ![e].version = @ + 1]
    /\ UNCHANGED <<identity, links, request, sessions, referral, ledger, enabled>>

\* Login: the hash, the password and the state of the account in one read
Login(r, e) ==
    /\ request[r] = Idle
    /\ user[e].password # 0 /\ Active(e)
    /\ request' = [request EXCEPT ![r] =
                      [Idle EXCEPT !.op = "respond", !.email = e]]
    /\ UNCHANGED <<user, identity, links, sessions, referral, ledger, enabled>>

\* respondSession: the version of the account in a second read
RespondSession(r) ==
    LET e == request[r].email IN
    /\ request[r].op = "respond"
    /\ sessions' = sessions \cup {[email |-> e, version |-> user[e].version]}
    /\ request' = [request EXCEPT ![r] = Idle]
    /\ UNCHANGED <<user, identity, links, referral, ledger, enabled>>

\* RequireAuth
Accepted(t) == Active(t.email) /\ t.version = user[t.email].version

------------------------------------------------------------------------------
(* Google sign-in: ResolvePrivyWithReferral.                                  *)

Found(s, e) == IF identity[s] # NoEmail THEN identity[s]
               ELSE IF user[e].made THEN e ELSE NoEmail

\* Slip: only the lock of the address is taken (OneIdentity).
BeginGoogleByEmail(r, s, e) ==
    /\ request[r] = Idle
    /\ \A q \in Requests : request[q].op = "google" => request[q].email # e
    /\ request' = [request EXCEPT ![r] = [op |-> "google", email |-> e, subject |-> s,
                                          found |-> Found(s, e)]]
    /\ UNCHANGED <<user, identity, links, sessions, referral, ledger, enabled>>

\* The locks of the subject and of the address, then the row they lead to, if
\* there is one, locked too
BeginGoogle(r, s, e) ==
    /\ request[r] = Idle
    /\ \A q \in Requests : request[q].op = "google" =>
          /\ request[q].subject # s /\ request[q].email # e
          /\ Found(s, e) # NoEmail => request[q].found # Found(s, e)
    /\ request' = [request EXCEPT ![r] = [op |-> "google", email |-> e, subject |-> s,
                                          found |-> Found(s, e)]]
    /\ UNCHANGED <<user, identity, links, sessions, referral, ledger, enabled>>

Welcome(r, e) == request' = [request EXCEPT ![r].op = "welcome", ![r].email = e]

\* A subject already linked, whose account is active and still has the address
GoogleKnown(r) ==
    LET s == request[r].subject  e == request[r].email IN
    /\ request[r].op = "google"
    /\ identity[s] # NoEmail /\ request[r].found = identity[s]
    /\ Active(identity[s]) /\ identity[s] = e
    /\ Welcome(r, e)
    /\ Reconcile(e, referral[e], TRUE)
    /\ UNCHANGED <<user, identity, links, sessions, enabled>>

\* An active account with the address and no other subject is linked
GoogleLink(r) ==
    LET s == request[r].subject  e == request[r].email IN
    /\ request[r].op = "google" /\ request[r].found = e
    /\ identity[s] # e
    /\ Active(e) /\ user[e].subject \in {NoSubject, s}
    /\ user' = [user EXCEPT ![e].subject = s]
    /\ identity' = [identity EXCEPT ![s] = IF @ = NoEmail THEN e ELSE @]
    /\ Welcome(r, e)
    /\ Reconcile(e, referral[e], TRUE)
    /\ UNCHANGED <<links, sessions, enabled>>

\* No account: one is made, active at once, unless a sign-up took the address
GoogleCreate(r, referred) ==
    LET s == request[r].subject  e == request[r].email IN
    /\ request[r].op = "google" /\ request[r].found = NoEmail
    /\ ~user[e].made
    /\ referred => MayAttach(e)
    /\ user' = [user EXCEPT ![e] = [NoUser EXCEPT !.made = TRUE, !.active = TRUE,
                                                  !.subject = s]]
    /\ identity' = [identity EXCEPT ![s] = IF @ = NoEmail THEN e ELSE @]
    /\ Welcome(r, e)
    /\ Reconcile(e, [referral[e] EXCEPT !.attached = referred], TRUE)
    /\ UNCHANGED <<links, sessions, enabled>>

\* Refused with 403 or 409, failed on the unique address, or died: rolled back.
\* A resend or a session that is never answered is the same
Abandon(r) ==
    /\ request[r].op \in {"google", "resend", "respond"}
    /\ request' = [request EXCEPT ![r] = Idle]
    /\ UNCHANGED <<user, identity, links, sessions, referral, ledger, enabled>>

\* AwardWelcome, after the commit: given, already there, or lost with an error
\* that is only logged; Google goes on to its session
AwardWelcome(r, given) ==
    /\ request[r].op = "welcome"
    /\ ledger' = IF given THEN Award(ledger, request[r].email, "welcome") ELSE ledger
    /\ request' = [request EXCEPT ![r] =
                      IF @.subject = NoSubject THEN Idle ELSE [@ EXCEPT !.op = "respond"]]
    /\ UNCHANGED <<user, identity, links, sessions, referral, enabled>>

------------------------------------------------------------------------------
(* From outside: the provider's first qualifying payment, and the switch of   *)
(* the program.                                                               *)

PayProvider(e) ==
    /\ Active(e) /\ referral[e].attached /\ ~referral[e].paid
    /\ Reconcile(e, [referral[e] EXCEPT !.paid = TRUE], TRUE)
    /\ UNCHANGED <<user, identity, links, request, sessions, enabled>>

SwitchProgram ==
    /\ enabled \in {"always", "paused"}
    /\ enabled' = IF enabled = "always" THEN "paused" ELSE "resumed"
    /\ UNCHANGED <<user, identity, links, request, sessions, referral, ledger>>

Next ==
    \/ \E e \in Emails : \/ \E referred \in BOOLEAN : Signup(e, referred)
                         \/ ForgotPassword(e) \/ PayProvider(e)
    \/ \E link \in links : ResetPassword(link) \/ \E r \in Requests : VerifyEmail(r, link)
    \/ \E r \in Requests :
         \/ \E e \in Emails : \/ BeginResend(r, e) \/ Login(r, e)
                              \/ \E s \in Subjects : BeginGoogle(r, s, e)
         \/ ResendVerification(r) \/ RespondSession(r) \/ Abandon(r)
         \/ GoogleKnown(r) \/ GoogleLink(r)
         \/ \E referred \in BOOLEAN : GoogleCreate(r, referred)
         \/ \E given \in BOOLEAN : AwardWelcome(r, given)
    \/ SwitchProgram

Spec == Init /\ [][Next]_vars

------------------------------------------------------------------------------
\* Rows, links and requests stay in their domains, and a reward has one entry
\* in the ledger at most
TypeOK ==
    /\ user \in [Emails -> [made : BOOLEAN, active : BOOLEAN,
                            subject : Subjects \cup {NoSubject}, password : 0..(MaxResets + 1),
                            version : 0..(MaxResets + 1), verifyLink : 0..MaxLinks,
                            resetLink : 0..MaxLinks]]
    /\ identity \in [Subjects -> Emails \cup {NoEmail}]
    /\ links \subseteq [kind : {"verify", "reset"}, email : Emails, number : 1..MaxLinks]
    /\ request \in [Requests -> [op : {"idle", "resend", "google", "welcome", "respond"},
                                 email : Emails \cup {NoEmail},
                                 subject : Subjects \cup {NoSubject},
                                 found : Emails \cup {NoEmail}]]
    /\ sessions \subseteq [email : Emails, version : 0..(MaxResets + 1)]
    /\ referral \in [Emails -> [attached : BOOLEAN, signup : BOOLEAN, provider : BOOLEAN,
                                paid : BOOLEAN]]
    /\ ledger \in [Emails -> [Rewards -> 0..1]]
    /\ enabled \in {"always", "paused", "resumed"}

\* A Google identity leads to one account and an account to one Google
\* identity, as both tables tell it, and only active accounts are linked,
\* however first sign-ins, changed addresses and sign-ups cross
OneIdentity ==
    /\ \A e \in Emails, s \in Subjects : identity[s] = e <=> user[e].subject = s
    /\ \A e \in Emails : user[e].subject # NoSubject => Active(e)

\* No reward is given for an account that never was verified; what the referral
\* row says was earned is in the ledger; and while the program was never
\* switched off nothing earned is missing
RewardsMatch ==
    \A e \in Emails :
        /\ \A what \in Rewards : ledger[e][what] # 0 => Active(e)
        /\ referral[e].signup <=> ledger[e]["referral_signup"] = 1
        /\ referral[e].provider <=> ledger[e]["referral_provider"] = 1
        /\ enabled = "always" /\ referral[e].attached /\ Active(e) =>
             referral[e].signup /\ (referral[e].paid => referral[e].provider)

\* A reset signs out every session the account had, and a session signed out
\* is never accepted again
SignedOutForGood ==
    [][\A t \in sessions :
         /\ user'[t.email].password # user[t.email].password => ~Accepted(t)'
         /\ ~Accepted(t) => ~Accepted(t)']_vars

\* Identities and rewards agree with the accounts they belong to.
AccountsAgree == OneIdentity /\ RewardsMatch

==============================================================================
