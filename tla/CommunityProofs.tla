--------------------------- MODULE CommunityProofs ---------------------------
(* Two parts of the community.                                                 *)
(*                                                                             *)
(* Push: why no device gets a notification twice without a lapsed claim, and   *)
(* why a phone is not given up for the tokens of its neighbours, for any       *)
(* devices, passes and notifications.  The argument: the sends that a job may still come to, one   *)
(* for each pass that carries it and one while it waits, never exceed what it  *)
(* has been granted (Covered); and a pass remembers no more attempts than its  *)
(* jobs had (KnownOK).                                                         *)
(*                                                                             *)
(* Town Hall: why a request never has more providers than seats, and why a     *)
(* choice stands, for any requests, providers, offers and plans.  The          *)
(* argument: whatever is decided of a room is decided while its row is locked, *)
(* and every writer of its seats, applications and offers waits for that row,  *)
(* so a transaction finds at its end what it found at its beginning (Held).    *)
(* The two writers that do not wait, the clock and a report, take nobody's     *)
(* seat.                                                                       *)
EXTENDS TownHall, Push, FiniteSetTheorems, SequenceTheorems, TLAPS

Answers == {"sent", "gone", "retry", "refused", "rejected", "disable"}
JobRow == [st : {"none", "pending", "sending", "sent", "delivered", "retry", "failed",
                 "rejected", "disabled", "expired", "cancelled"},
           tries : Nat, checked : BOOLEAN]
Ticket == [job : PhoneJobs, answered : BOOLEAN]

\* What a pass k has still to send, has to save, and will send again after it saved
Names(plan, j) == \E i \in DOMAIN plan : \E m \in DOMAIN plan[i] : plan[i][m] = j
Halves(q, c) == <<SubSeq(q, 1, c), SubSeq(q, c + 1, Len(q))>>
InPlan(k, j) == Names(k.plan, j)
InSave(k, j) == \E a \in DOMAIN k.save : k.save[a][1] = j
ToRetry(k, j) == \E a \in DOMAIN k.save : k.save[a] = <<j, "retry">>
Carries(k, j) == InPlan(k, j) \/ ToRetry(k, j)

\* A pass names every job once, in what it has to send or in what it has to save
Apart(plan) ==
    \A i, n \in DOMAIN plan : \A m \in DOMAIN plan[i], l \in DOMAIN plan[n] :
        plan[i][m] = plan[n][l] => i = n /\ m = l

PassShape(k) ==
    /\ k.plan \in Seq(Seq(Jobs)) /\ k.save \in Seq(Jobs \X Answers) /\ Apart(k.plan)
    /\ \A a, b \in DOMAIN k.save : k.save[a][1] = k.save[b][1] => a = b
    /\ \A a \in DOMAIN k.save : ~InPlan(k, k.save[a][1])

\* R is P with its first of N requests, of n jobs, cut in two after c of them
Spliced(P, R, N, n, c) ==
    /\ N >= 1 /\ 0 <= c /\ c <= n
    /\ DOMAIN P = 1 .. N /\ DOMAIN P[1] = 1 .. n
    /\ DOMAIN R = 1 .. N + 1 /\ DOMAIN R[1] = 1 .. c /\ DOMAIN R[2] = 1 .. n - c
    /\ \A i \in 1 .. c : R[1][i] = P[1][i]
    /\ \A i \in 1 .. n - c : R[2][i] = P[1][c + i]
    /\ \A i \in 3 .. N + 1 : R[i] = P[i - 1]

\* A pass new that is k with the jobs of its first request answered
Replies(k, new, ans) ==
    /\ k.plan # <<>> /\ k.save = <<>> /\ new.plan = Tail(k.plan)
    /\ new.save = [i \in DOMAIN Head(k.plan) |-> <<Head(k.plan)[i], ans[Head(k.plan)[i]]>>]

\* A pass new that is k with its first answer saved, or with a browser to switch off
Pops(k, new) == k.save # <<>> /\ new.plan = k.plan /\ new.save = Tail(k.save)
Follows(k, new, j) ==
    /\ k.save # <<>> /\ Head(k.save) = <<j, "gone">>
    /\ new.plan = k.plan /\ new.save = <<<<j, "disable">>>> \o Tail(k.save)

\* A pass remembers no more attempts than its jobs had, and gives up a phone only
\* when Expo refuses that phone
KnownOK(k) ==
    \A j \in PhoneJobs :
        InPlan(k, j) \/ InSave(k, j) =>
            j \in DOMAIN k.known /\ k.known[j] \in Nat /\ k.known[j] + 1 <= job[j].tries
RefusedOK(k) ==
    \A a \in DOMAIN k.save :
        k.save[a][2] = "refused" => k.save[a][1] \in PhoneJobs /\ k.save[a][1][2] \in Bad
PassOK(k) == PassShape(k) /\ KnownOK(k) /\ RefusedOK(k)

\* The sends that a job may still come to: by the passes that carry it, and one more
\* while it waits for its next claim or has not been queued yet
Carriers(j) == {w \in Workers : Carries(worker[w], j)}
Waits(j) ==
    \/ job[j].st \in {"pending", "retry"}
    \/ job[j].st = "none" /\ (j \in PhoneJobs \/ note[j[1]].user = NoUser)
Place(j) == IF Waits(j) THEN 1 ELSE 0
Covered(j) == Cardinality(Carriers(j)) + Place(j) <= credit[j]

Load(k, j) == IF Carries(k, j) THEN 1 ELSE 0

\* A job of a notification that is not written is not queued, and what was never
\* queued has no history
Sound(j) ==
    /\ j \in PhoneJobs => job[j].st \notin {"expired", "cancelled"}
    /\ j \notin PhoneJobs => job[j].st \notin {"delivered", "disabled"}
    /\ job[j].st = "none" => job[j] = NoJob
    /\ note[j[1]].user = NoUser => job[j].st = "none"
    /\ (j \in PhoneJobs /\ job[j].st = "failed" /\ ~job[j].checked /\ j[2] \notin Bad)
          => job[j].tries >= MaxAttempts

OneEach(ts) == \A i, n \in DOMAIN ts : ts[i].job = ts[n].job => i = n
QueuedOnce ==
    /\ \A i \in DOMAIN tickets : job[tickets[i].job].st # "none"
    /\ \A a \in receipts : job[a[1]].st # "none"

WritingOK ==
    writing # None =>
        /\ writing.at \in Notes /\ writing.user \in Users /\ note[writing.at].user = NoUser
        /\ writing.rows \subseteq {writing.at} \X Devices

PushTyped ==
    /\ device \in [Devices -> [user : Users \cup {NoUser}, enabled : BOOLEAN,
                             users : SUBSET Users]]
    /\ note \in [Notes -> [user : Users \cup {NoUser}, open : BOOLEAN]]
    /\ job \in [Jobs -> JobRow] /\ credit \in [Jobs -> Int]
    /\ tickets \in Seq(Ticket) /\ receipts \subseteq PhoneJobs \X {"ok", "gone", "error"}
    /\ faults \in 0 .. MaxFaults
    /\ IsFiniteSet(Workers)
    /\ \A d \in Devices : device[d].enabled => device[d].user \in Users

PushInv ==
    /\ PushTyped /\ WritingOK /\ OneEach(tickets) /\ QueuedOnce
    /\ \A w \in Workers : PassOK(worker[w])
    /\ \A j \in Jobs : Sound(j) /\ Covered(j)

\* What a step may do to the phones: nothing that was queued is forgotten
Grows ==
    \A j \in PhoneJobs :
        job[j].st # "none" => job'[j].st # "none" /\ job'[j].tries >= job[j].tries

------------------------------------------------------------------------------
(* What becomes of the jobs of a pass while it sends and saves.               *)

LEMMA FunctionIsSeq ==
    ASSUME NEW S, NEW n \in Nat, NEW f \in [1 .. n -> S]
    PROVE  f \in Seq(S)
BY SeqDef

\* The answers to a request take the place of the request.
LEMMA Answered ==
    ASSUME NEW k, PassShape(k), NEW ans \in [ToSet(Head(k.plan)) -> Answers], NEW new,
           Replies(k, new, ans)
    PROVE  /\ PassShape(new)
           /\ \A j : InPlan(k, j) <=> InPlan(new, j) \/ j \in ToSet(Head(k.plan))
           /\ \A j \in ToSet(Head(k.plan)) : ~InPlan(new, j)
           /\ \A j : InSave(new, j) <=> j \in ToSet(Head(k.plan))
           /\ \A j : ToRetry(new, j) <=> j \in ToSet(Head(k.plan)) /\ ans[j] = "retry"
           /\ \A a \in DOMAIN new.save :
                new.save[a][1] \in ToSet(Head(k.plan)) /\ new.save[a][2] = ans[new.save[a][1]]
<1> DEFINE q == Head(k.plan)
<1>1. /\ k.plan \in Seq(Seq(Jobs)) /\ k.plan # <<>>
      /\ Len(k.plan) \in Nat /\ DOMAIN k.plan = 1 .. Len(k.plan)
  BY LenProperties DEF PassShape, Replies
<1>2. /\ q \in Seq(Jobs) /\ q = k.plan[1] /\ Tail(k.plan) \in Seq(Seq(Jobs))
      /\ Len(Tail(k.plan)) = Len(k.plan) - 1 /\ 1 \in DOMAIN k.plan
      /\ \A i \in 1 .. Len(Tail(k.plan)) : Tail(k.plan)[i] = k.plan[i + 1]
  BY <1>1, HeadTailProperties, EmptySeq
<1>3. DOMAIN Tail(k.plan) = 1 .. Len(k.plan) - 1 BY <1>2, LenProperties
<1>4. Len(q) \in Nat /\ DOMAIN q = 1 .. Len(q) /\ \A i \in DOMAIN q : q[i] \in Jobs
  BY <1>2, LenProperties, ElementOfSeq
<1>5. ToSet(q) = {q[i] : i \in DOMAIN q} BY DEF ToSet
<1>6. new.plan = Tail(k.plan) /\ new.save = [i \in DOMAIN q |-> <<q[i], ans[q[i]]>>]
  BY DEF Replies
<1> HIDE DEF q
<1>7. /\ DOMAIN new.save = DOMAIN q
      /\ \A a \in DOMAIN q : new.save[a] = <<q[a], ans[q[a]]>> /\ q[a] \in ToSet(q) /\ ans[q[a]] \in Answers
  BY <1>5, <1>6 DEF q
<1>8. PICK sv : sv = new.save OBVIOUS
<1>9. DOMAIN sv = DOMAIN q BY <1>7, <1>8
<1>10. ASSUME NEW a \in DOMAIN q
       PROVE  sv[a] = <<q[a], ans[q[a]]>> /\ sv[a][1] = q[a] /\ sv[a][2] = ans[q[a]] /\ q[a] \in ToSet(q)
  <2>1. sv[a] = <<q[a], ans[q[a]]>> BY <1>7, <1>8
  <2>2. sv[a][1] = q[a] /\ sv[a][2] = ans[q[a]] BY ONLY <2>1
  <2> QED BY <2>1, <2>2, <1>7
<1>11. new.save \in Seq(Jobs \X Answers)
  <2>1. \A a \in DOMAIN q : <<q[a], ans[q[a]]>> \in Jobs \X Answers BY <1>4, <1>7
  <2>2. new.save \in [1 .. Len(q) -> Jobs \X Answers] BY <1>4, <1>6, <2>1
  <2> QED BY <2>2, <1>4, FunctionIsSeq
<1>12. PICK N \in Nat : N = Len(k.plan) BY <1>1
<1>13. DOMAIN k.plan = 1 .. N /\ DOMAIN new.plan = 1 .. N - 1 BY <1>1, <1>3, <1>6, <1>12
<1>14. \A i \in 1 .. N - 1 : new.plan[i] = k.plan[i + 1]
  <2>1. Len(Tail(k.plan)) = N - 1 BY <1>2, <1>12
  <2> QED BY <2>1, <1>2, <1>6
<1>15. \A i \in DOMAIN new.plan : i + 1 \in DOMAIN k.plan /\ i + 1 # 1 /\ new.plan[i] = k.plan[i + 1]
  BY ONLY <1>12, <1>13, <1>14
<1>16. \A i \in DOMAIN k.plan : i # 1 => i - 1 \in DOMAIN new.plan /\ new.plan[i - 1] = k.plan[i]
  <2>1. \A i \in 1 .. N : i # 1 => i - 1 \in 1 .. N - 1 /\ i - 1 + 1 = i BY ONLY <1>12
  <2> QED BY ONLY <2>1, <1>13, <1>14
<1>17. \A j : InPlan(new, j) <=> \E i \in DOMAIN k.plan : i # 1 /\ \E m \in DOMAIN k.plan[i] : k.plan[i][m] = j
  <2> TAKE j
  <2>1. ASSUME InPlan(new, j)
        PROVE  \E i \in DOMAIN k.plan : i # 1 /\ \E m \in DOMAIN k.plan[i] : k.plan[i][m] = j
    <3>1. PICK i \in DOMAIN new.plan : \E m \in DOMAIN new.plan[i] : new.plan[i][m] = j
      BY <2>1 DEF InPlan, Names
    <3>2. \E m \in DOMAIN k.plan[i + 1] : k.plan[i + 1][m] = j BY <3>1, <1>15
    <3> QED BY <3>2, <1>15
  <2>2. ASSUME NEW i \in DOMAIN k.plan, i # 1, \E m \in DOMAIN k.plan[i] : k.plan[i][m] = j
        PROVE  InPlan(new, j)
    <3>1. i - 1 \in DOMAIN new.plan /\ new.plan[i - 1] = k.plan[i] BY <1>16, <2>2
    <3>2. \E m \in DOMAIN new.plan[i - 1] : new.plan[i - 1][m] = j BY <3>1, <2>2
    <3> QED BY <3>1, <3>2 DEF InPlan, Names
  <2> QED BY <2>1, <2>2
<1>18. \A j : j \in ToSet(q) <=> \E m \in DOMAIN k.plan[1] : k.plan[1][m] = j BY <1>2, <1>5
<1>19. \A j : InPlan(k, j) <=> InPlan(new, j) \/ j \in ToSet(q)
  <2> TAKE j
  <2>1. InPlan(k, j) <=> \/ \E i \in DOMAIN k.plan : i # 1 /\ \E m \in DOMAIN k.plan[i] : k.plan[i][m] = j
                         \/ \E m \in DOMAIN k.plan[1] : k.plan[1][m] = j
    BY <1>2 DEF InPlan, Names
  <2> QED BY <2>1, <1>17, <1>18
<1>20. \A j \in ToSet(q) : ~InPlan(new, j) BY <1>17, <1>18, <1>2 DEF PassShape, Apart
<1>21. \A j : InSave(new, j) <=> j \in ToSet(q)
  <2> TAKE j
  <2>1. InSave(new, j) <=> \E a \in DOMAIN q : q[a] = j
    <3>1. (\E a \in DOMAIN sv : sv[a][1] = j) <=> \E a \in DOMAIN q : q[a] = j
      BY ONLY <1>9, <1>10
    <3> QED BY ONLY <3>1, <1>8 DEF InSave
  <2> QED BY <2>1, <1>5
<1>22. \A j : ToRetry(new, j) <=> j \in ToSet(q) /\ ans[j] = "retry"
  <2> TAKE j
  <2>1. ToRetry(new, j) <=> \E a \in DOMAIN q : q[a] = j /\ ans[q[a]] = "retry"
    <3>1. (\E a \in DOMAIN sv : sv[a] = <<j, "retry">>)
             <=> \E a \in DOMAIN q : q[a] = j /\ ans[q[a]] = "retry"
      BY ONLY <1>9, <1>10
    <3> QED BY ONLY <3>1, <1>8 DEF ToRetry
  <2> QED BY <2>1, <1>5
<1>23. \A a \in DOMAIN new.save : new.save[a][1] \in ToSet(q) /\ new.save[a][2] = ans[new.save[a][1]]
  <2>1. \A a \in DOMAIN sv : sv[a][1] \in ToSet(q) /\ sv[a][2] = ans[sv[a][1]] BY <1>9, <1>10
  <2> QED BY <2>1, <1>8
<1>24. \A i, n \in DOMAIN new.plan : \A m \in DOMAIN new.plan[i], l \in DOMAIN new.plan[n] :
          new.plan[i][m] = new.plan[n][l] => i = n /\ m = l
  <2> SUFFICES ASSUME NEW i \in DOMAIN new.plan, NEW n \in DOMAIN new.plan,
                      NEW m \in DOMAIN new.plan[i], NEW l \in DOMAIN new.plan[n],
                      new.plan[i][m] = new.plan[n][l]
               PROVE  i = n /\ m = l
    OBVIOUS
  <2>1. /\ i + 1 \in DOMAIN k.plan /\ new.plan[i] = k.plan[i + 1] /\ i \in Int
        /\ n + 1 \in DOMAIN k.plan /\ new.plan[n] = k.plan[n + 1] /\ n \in Int
    <3>1. \A x \in DOMAIN new.plan : x \in Int BY ONLY <1>12, <1>13
    <3> QED BY <3>1, <1>15
  <2>2. Apart(k.plan) BY DEF PassShape
  <2>3. m \in DOMAIN k.plan[i + 1] /\ l \in DOMAIN k.plan[n + 1] /\ k.plan[i + 1][m] = k.plan[n + 1][l]
    BY ONLY <2>1, new.plan[i][m] = new.plan[n][l], m \in DOMAIN new.plan[i], l \in DOMAIN new.plan[n]
  <2>4. i + 1 = n + 1 /\ m = l BY ONLY <2>1, <2>2, <2>3 DEF Apart
  <2> QED BY ONLY <2>1, <2>4
<1>25. \A a, b \in DOMAIN new.save : new.save[a][1] = new.save[b][1] => a = b
  <2>1. Apart(k.plan) BY DEF PassShape
  <2>2. \A a, b \in DOMAIN q : q[a] = q[b] => a = b BY ONLY <2>1, <1>2 DEF Apart
  <2>3. \A a, b \in DOMAIN sv : sv[a][1] = sv[b][1] => a = b BY ONLY <2>2, <1>9, <1>10
  <2> QED BY ONLY <2>3, <1>8
<1>26. PassShape(new) BY <1>2, <1>6, <1>11, <1>20, <1>23, <1>24, <1>25 DEF PassShape, Apart
<1> QED BY <1>19, <1>20, <1>21, <1>22, <1>23, <1>26 DEF q

LEMMA TwoParts ==
    ASSUME NEW J, NEW q \in Seq(J), NEW n \in Nat, n = Len(q), NEW c \in Int, 0 <= c, c <= n,
           NEW one, one = SubSeq(q, 1, c), NEW two, two = SubSeq(q, c + 1, n)
    PROVE  /\ one \in Seq(J) /\ DOMAIN one = 1 .. c /\ \A i \in 1 .. c : one[i] = q[i]
           /\ two \in Seq(J) /\ DOMAIN two = 1 .. n - c /\ \A i \in 1 .. n - c : two[i] = q[c + i]
<1>1. \A i \in 1 .. n : q[i] \in J BY ElementOfSeq
<1>2. /\ one \in Seq(J) /\ Len(one) = IF 1 <= c THEN c - 1 + 1 ELSE 0
      /\ \A i \in 1 .. c - 1 + 1 : one[i] = q[1 + i - 1]
  <2>1. \A i \in 1 .. c : q[i] \in J BY <1>1
  <2> QED BY <2>1, SubSeqProperties
<1>3. /\ two \in Seq(J) /\ Len(two) = IF c + 1 <= n THEN n - (c + 1) + 1 ELSE 0
      /\ \A i \in 1 .. n - (c + 1) + 1 : two[i] = q[c + 1 + i - 1]
  <2>1. \A i \in c + 1 .. n : q[i] \in J BY <1>1
  <2>2. c + 1 \in Int /\ n \in Int OBVIOUS
  <2> QED BY <2>1, <2>2, SubSeqProperties
<1>4. Len(one) = c /\ Len(two) = n - c BY <1>2, <1>3
<1>5. DOMAIN one = 1 .. c /\ DOMAIN two = 1 .. n - c BY <1>2, <1>3, <1>4, LenProperties
<1>6. \A i \in 1 .. c : one[i] = q[i]
  <2>1. \A i \in 1 .. c : i \in 1 .. c - 1 + 1 /\ 1 + i - 1 = i OBVIOUS
  <2> QED BY <2>1, <1>2
<1>7. \A i \in 1 .. n - c : two[i] = q[c + i]
  <2>1. \A i \in 1 .. n - c : i \in 1 .. n - (c + 1) + 1 /\ c + 1 + i - 1 = c + i OBVIOUS
  <2> QED BY <2>1, <1>3
<1> QED BY <1>2, <1>3, <1>5, <1>6, <1>7

\* A plan whose first request is cut in two names the jobs that it named.
LEMMA SameNames ==
    ASSUME NEW P, NEW R, NEW N \in Nat, NEW n \in Nat, NEW c \in Int,
           Spliced(P, R, N, n, c), Apart(P)
    PROVE  Apart(R) /\ \A j : Names(R, j) <=> Names(P, j)
<1> /\ N >= 1 /\ 0 <= c /\ c <= n
    /\ DOMAIN P = 1 .. N /\ DOMAIN P[1] = 1 .. n
    /\ DOMAIN R = 1 .. N + 1 /\ DOMAIN R[1] = 1 .. c /\ DOMAIN R[2] = 1 .. n - c
    /\ \A i \in 1 .. c : R[1][i] = P[1][i]
    /\ \A i \in 1 .. n - c : R[2][i] = P[1][c + i]
    /\ \A i \in 3 .. N + 1 : R[i] = P[i - 1]
  BY DEF Spliced
<1> DEFINE Was(i) == IF i <= 2 THEN 1 ELSE i - 1
           At(i, m) == IF i = 2 THEN c + m ELSE m
<1>7. ASSUME NEW i \in DOMAIN R, NEW m \in DOMAIN R[i]
      PROVE  /\ Was(i) \in DOMAIN P /\ At(i, m) \in DOMAIN P[Was(i)]
             /\ R[i][m] = P[Was(i)][At(i, m)]
             /\ i = 1 => m \in 1 .. c
             /\ i = 2 => m \in Int /\ m >= 1
             /\ i \in Int /\ i >= 1
  <2>0. i \in 1 .. N + 1 OBVIOUS
  <2>1. CASE i = 1
    <3>1. m \in 1 .. c /\ m \in 1 .. n BY <2>1
    <3>2. Was(i) = 1 /\ At(i, m) = m BY <2>1
    <3>3. 1 \in DOMAIN P /\ R[i][m] = P[1][m] BY <2>1, <3>1
    <3> HIDE DEF Was, At
    <3> QED BY <2>1, <3>1, <3>2, <3>3
  <2>2. CASE i = 2
    <3>1. m \in 1 .. n - c /\ c + m \in 1 .. n /\ m \in Int /\ m >= 1 BY <2>2
    <3>2. Was(i) = 1 /\ At(i, m) = c + m BY <2>2
    <3>3. 1 \in DOMAIN P /\ R[i][m] = P[1][c + m] BY <2>2, <3>1
    <3> HIDE DEF Was, At
    <3> QED BY <2>2, <3>1, <3>2, <3>3
  <2>3. CASE i # 1 /\ i # 2
    <3>1. i \in 3 .. N + 1 /\ i - 1 \in 1 .. N BY <2>0, <2>3
    <3>2. Was(i) = i - 1 /\ At(i, m) = m BY <2>3, <3>1
    <3>3. R[i] = P[i - 1] /\ i - 1 \in DOMAIN P /\ i \in Int /\ i >= 1 BY <3>1
    <3> HIDE DEF Was, At
    <3> QED BY <2>3, <3>2, <3>3
  <2> QED BY <2>1, <2>2, <2>3
<1>8. ASSUME NEW i \in DOMAIN P, NEW m \in DOMAIN P[i]
      PROVE  \E x \in DOMAIN R : \E l \in DOMAIN R[x] : R[x][l] = P[i][m]
  <2>1. CASE i # 1
    <3>1. i + 1 \in 3 .. N + 1 /\ i + 1 - 1 = i /\ i + 1 \in DOMAIN R BY <2>1
    <3>2. R[i + 1] = P[i] BY <3>1
    <3> QED BY <3>1, <3>2
  <2>2. CASE i = 1 /\ m <= c
    <3>1. m \in 1 .. n BY <2>2
    <3>2. m \in 1 .. c /\ 1 \in 1 .. N + 1 BY <2>2, <3>1
    <3>3. m \in DOMAIN R[1] /\ R[1][m] = P[i][m] /\ 1 \in DOMAIN R BY <2>2, <3>2
    <3> QED BY <3>3
  <2>3. CASE i = 1 /\ ~(m <= c)
    <3>1. m \in 1 .. n BY <2>3
    <3>2. m - c \in 1 .. n - c /\ c + (m - c) = m /\ 2 \in 1 .. N + 1 BY <2>3, <3>1
    <3>3. m - c \in DOMAIN R[2] /\ R[2][m - c] = P[i][m] /\ 2 \in DOMAIN R BY <2>3, <3>2
    <3> QED BY <3>3
  <2> QED BY <2>1, <2>2, <2>3
<1>9. ASSUME NEW j
      PROVE  Names(R, j) <=> Names(P, j)
  <2> HIDE DEF Was, At
  <2>1. ASSUME NEW i \in DOMAIN R, NEW m \in DOMAIN R[i], R[i][m] = j
        PROVE  \E x \in DOMAIN P : \E l \in DOMAIN P[x] : P[x][l] = j
    BY <2>1, <1>7
  <2>2. ASSUME NEW i \in DOMAIN P, NEW m \in DOMAIN P[i], P[i][m] = j
        PROVE  \E x \in DOMAIN R : \E l \in DOMAIN R[x] : R[x][l] = j
    <3>1. \E x \in DOMAIN R : \E l \in DOMAIN R[x] : R[x][l] = P[i][m] BY <1>8
    <3> QED BY <3>1, <2>2
  <2> QED BY <2>1, <2>2 DEF Names
<1>10. ASSUME NEW i \in DOMAIN R, NEW x \in DOMAIN R,
              NEW m \in DOMAIN R[i], NEW l \in DOMAIN R[x], R[i][m] = R[x][l]
       PROVE  i = x /\ m = l
  <2>1. Was(i) = Was(x) /\ At(i, m) = At(x, l)
    <3> HIDE DEF Was, At
    <3>1. /\ Was(i) \in DOMAIN P /\ At(i, m) \in DOMAIN P[Was(i)]
          /\ R[i][m] = P[Was(i)][At(i, m)] BY <1>7
    <3>2. /\ Was(x) \in DOMAIN P /\ At(x, l) \in DOMAIN P[Was(x)]
          /\ R[x][l] = P[Was(x)][At(x, l)] BY <1>7
    <3>3. P[Was(i)][At(i, m)] = P[Was(x)][At(x, l)] BY <3>1, <3>2, <1>10
    <3> QED BY <3>1, <3>2, <3>3 DEF Apart
  <2>2. i \in Int /\ i >= 1 /\ x \in Int /\ x >= 1 BY <1>7
  <2>3. (i = 1 => m \in 1 .. c) /\ (i = 2 => m \in Int /\ m >= 1) BY <1>7
  <2>4. (x = 1 => l \in 1 .. c) /\ (x = 2 => l \in Int /\ l >= 1) BY <1>7
  <2>5. i = x
    <3>1. CASE i > 2 \/ x > 2 BY <3>1, <2>1, <2>2
    <3>2. CASE i = 1 /\ x = 2 BY <3>2, <2>1, <2>3, <2>4
    <3>3. CASE i = 2 /\ x = 1 BY <3>3, <2>1, <2>3, <2>4
    <3>4. \A a, b \in Int : a >= 1 /\ b >= 1 =>
             a = b \/ a > 2 \/ b > 2 \/ (a = 1 /\ b = 2) \/ (a = 2 /\ b = 1) OBVIOUS
    <3>5. i = x \/ i > 2 \/ x > 2 \/ (i = 1 /\ x = 2) \/ (i = 2 /\ x = 1) BY <2>2, <3>4
    <3> QED BY <3>1, <3>2, <3>3, <3>5
  <2> QED BY <2>1, <2>3, <2>4, <2>5
<1>12. Apart(R) BY <1>10 DEF Apart
<1> QED BY <1>9, <1>12

LEMMA SameJobs ==
    ASSUME NEW J, NEW P \in Seq(Seq(J)), P # <<>>, Apart(P),
           NEW c \in Int, 0 <= c, c <= Len(Head(P)), NEW R, R = Halves(Head(P), c) \o Tail(P)
    PROVE  R \in Seq(Seq(J)) /\ Apart(R) /\ \A j : Names(R, j) <=> Names(P, j)
<1>1. PICK q : q = Head(P) OBVIOUS
<1>2. PICK one : one = SubSeq(q, 1, c) OBVIOUS
<1>3. PICK two : two = SubSeq(q, c + 1, Len(q)) OBVIOUS
<1>4. /\ q = P[1] /\ q \in Seq(J) /\ Len(q) \in Nat /\ DOMAIN q = 1 .. Len(q)
      /\ Len(P) \in Nat /\ Len(P) >= 1 /\ DOMAIN P = 1 .. Len(P)
  BY <1>1, HeadTailProperties, LenProperties, EmptySeq
<1>5. c <= Len(q) BY <1>1
<1>6. /\ one \in Seq(J) /\ DOMAIN one = 1 .. c /\ \A i \in 1 .. c : one[i] = q[i]
      /\ two \in Seq(J) /\ DOMAIN two = 1 .. Len(q) - c /\ \A i \in 1 .. Len(q) - c : two[i] = q[c + i]
  BY <1>2, <1>3, <1>4, <1>5, TwoParts
<1>7. R = <<one, two>> \o Tail(P) BY <1>1, <1>2, <1>3 DEF Halves
<1>8. one \in Seq(J) /\ two \in Seq(J) BY <1>6
<1>9. /\ R \in Seq(Seq(J)) /\ DOMAIN R = 1 .. Len(P) + 1
      /\ R[1] = one /\ R[2] = two /\ \A i \in 3 .. Len(P) + 1 : R[i] = P[i - 1]
  <2> SUFFICES ASSUME NEW N \in Nat, N = Len(P)
               PROVE  /\ R \in Seq(Seq(J)) /\ DOMAIN R = 1 .. N + 1
                      /\ R[1] = one /\ R[2] = two /\ \A i \in 3 .. N + 1 : R[i] = P[i - 1]
    BY <1>4
  <2>1. N >= 1 BY <1>4
  <2>2. PICK T : T = Tail(P) OBVIOUS
  <2>3. T \in Seq(Seq(J)) /\ Len(T) = N - 1 /\ \A i \in 1 .. N - 1 : T[i] = P[i + 1]
    BY <2>2, HeadTailProperties
  <2>4. PICK U : U = <<one, two>> OBVIOUS
  <2>5. U \in Seq(Seq(J)) /\ Len(U) = 2 /\ U[1] = one /\ U[2] = two BY <1>8, <2>4
  <2>6. R = U \o T BY <1>7, <2>2, <2>4
  <2>7. /\ R \in Seq(Seq(J)) /\ Len(R) = 2 + Len(T)
        /\ \A i \in 1 .. 2 + Len(T) : R[i] = IF i <= 2 THEN U[i] ELSE T[i - 2]
    <3>1. PICK K : K = Seq(J) OBVIOUS
    <3>2. U \in Seq(K) /\ T \in Seq(K) BY <2>3, <2>5, <3>1
    <3>3. /\ U \o T \in Seq(K) /\ Len(U \o T) = Len(U) + Len(T)
          /\ \A i \in 1 .. Len(U) + Len(T) : (U \o T)[i] = IF i <= Len(U) THEN U[i] ELSE T[i - Len(U)]
      BY ONLY <3>2, ConcatProperties
    <3>4. /\ R \in Seq(K) /\ Len(R) = Len(U) + Len(T)
          /\ \A i \in 1 .. Len(U) + Len(T) : R[i] = IF i <= Len(U) THEN U[i] ELSE T[i - Len(U)]
      BY <2>6, <3>3
    <3> QED BY <2>5, <3>1, <3>4
  <2>8. Len(R) = N + 1 /\ \A i \in 1 .. N + 1 : R[i] = IF i <= 2 THEN U[i] ELSE T[i - 2]
    <3>1. Len(T) = N - 1 BY <2>3
    <3>2. 2 + Len(T) = N + 1 BY ONLY <3>1, N \in Nat
    <3> QED BY ONLY <2>7, <3>2
  <2>9. DOMAIN R = 1 .. N + 1 BY <2>7, <2>8, LenProperties
  <2>10. R[1] = one /\ R[2] = two
    <3>1. 1 \in 1 .. N + 1 /\ 2 \in 1 .. N + 1 BY <2>1
    <3> QED BY <3>1, <2>5, <2>8
  <2>11. \A i \in 3 .. N + 1 : R[i] = P[i - 1]
    <3>1. \A i \in 3 .. N + 1 : i \in 1 .. N + 1 /\ ~(i <= 2) /\ i - 2 \in 1 .. N - 1 /\ i - 2 + 1 = i - 1
      OBVIOUS
    <3> QED BY <3>1, <2>3, <2>8
  <2> QED BY <2>7, <2>9, <2>10, <2>11
<1>10. Apart(R) /\ \A j : Names(R, j) <=> Names(P, j)
  <2> SUFFICES ASSUME NEW N \in Nat, NEW n \in Nat, N = Len(P), n = Len(q)
               PROVE  Apart(R) /\ \A j : Names(R, j) <=> Names(P, j)
    BY <1>4
  <2>1. N >= 1 /\ c <= n /\ DOMAIN P = 1 .. N /\ DOMAIN P[1] = 1 .. n BY <1>4, <1>5
  <2>2. DOMAIN R = 1 .. N + 1 /\ DOMAIN R[1] = 1 .. c /\ DOMAIN R[2] = 1 .. n - c
    BY <1>6, <1>9
  <2>3. \A i \in 1 .. c : R[1][i] = P[1][i] BY <1>4, <1>6, <1>9
  <2>4. \A i \in 1 .. n - c : R[2][i] = P[1][c + i] BY <1>4, <1>6, <1>9
  <2>5. \A i \in 3 .. N + 1 : R[i] = P[i - 1] BY <1>9
  <2>6. Spliced(P, R, N, n, c) BY <2>1, <2>2, <2>3, <2>4, <2>5 DEF Spliced
  <2> QED BY <2>6, SameNames
<1> QED BY <1>9, <1>10

\* The halves of a refused request take its place.
LEMMA Halved ==
    ASSUME NEW k, PassShape(k), k.plan # <<>>, k.save = <<>>, NEW new,
           NEW c \in Int, 0 <= c, c <= Len(Head(k.plan)),
           new.plan = Halves(Head(k.plan), c) \o Tail(k.plan), new.save = <<>>
    PROVE  /\ PassShape(new)
           /\ \A j : InPlan(k, j) <=> InPlan(new, j)
           /\ \A j : ~InSave(new, j) /\ ~ToRetry(new, j)
<1>1. k.plan \in Seq(Seq(Jobs)) /\ Apart(k.plan) BY DEF PassShape
<1>2. new.plan = Halves(Head(k.plan), c) \o Tail(k.plan) OBVIOUS
<1>3. new.plan \in Seq(Seq(Jobs)) /\ Apart(new.plan) /\ \A j : Names(new.plan, j) <=> Names(k.plan, j)
  <2> HIDE DEF Jobs
  <2> QED BY <1>1, <1>2, SameJobs
<1>4. new.save = <<>> /\ new.save \in Seq(Jobs \X Answers) /\ DOMAIN new.save = {}
  BY EmptySeq
<1>5. PassShape(new) BY <1>3, <1>4 DEF PassShape
<1>6. \A j : InPlan(k, j) <=> InPlan(new, j) BY <1>3 DEF InPlan
<1>7. \A j : ~InSave(new, j) /\ ~ToRetry(new, j) BY <1>4 DEF InSave, ToRetry
<1> QED BY <1>5, <1>6, <1>7

\* The first answer is saved: the rest of the answers is left.
LEMMA Popped ==
    ASSUME NEW k, PassShape(k), NEW new, Pops(k, new)
    PROVE  /\ PassShape(new)
           /\ \A j : InPlan(new, j) <=> InPlan(k, j)
           /\ \A j : InSave(k, j) <=> InSave(new, j) \/ j = Head(k.save)[1]
           /\ ~InSave(new, Head(k.save)[1]) /\ ~InPlan(k, Head(k.save)[1])
           /\ \A j : ToRetry(k, j) <=> ToRetry(new, j) \/ Head(k.save) = <<j, "retry">>
           /\ \A a \in DOMAIN new.save : \E b \in DOMAIN k.save : new.save[a] = k.save[b]
           /\ Head(k.save) \in Jobs \X Answers /\ InSave(k, Head(k.save)[1])
           /\ \E b \in DOMAIN k.save : Head(k.save) = k.save[b]
<1>0. k.save # <<>> /\ new.plan = k.plan /\ new.save = Tail(k.save) BY DEF Pops
<1>1. PICK s : s = k.save OBVIOUS
<1>2. PICK t : t = Tail(s) OBVIOUS
<1>3. s \in Seq(Jobs \X Answers) /\ s # <<>> BY <1>0, <1>1 DEF PassShape
<1>4. /\ Head(s) = s[1] /\ Head(s) \in Jobs \X Answers /\ t \in Seq(Jobs \X Answers)
      /\ Len(t) = Len(s) - 1 /\ \A i \in 1 .. Len(t) : t[i] = s[i + 1]
      /\ Len(s) \in Nat /\ Len(s) >= 1 /\ DOMAIN s = 1 .. Len(s) /\ DOMAIN t = 1 .. Len(t)
  BY <1>2, <1>3, HeadTailProperties, LenProperties, EmptySeq
<1>5. new.plan = k.plan /\ new.save = t BY <1>0, <1>1, <1>2
<1>6. 1 \in DOMAIN s /\ \A a \in DOMAIN t : a \in Int /\ a + 1 \in DOMAIN s /\ a + 1 # 1 /\ t[a] = s[a + 1]
  <2> SUFFICES ASSUME NEW N \in Nat, N = Len(s) PROVE 1 \in DOMAIN s /\ \A a \in DOMAIN t :
                 a \in Int /\ a + 1 \in DOMAIN s /\ a + 1 # 1 /\ t[a] = s[a + 1]
    BY <1>4
  <2>1. N >= 1 /\ DOMAIN s = 1 .. N /\ DOMAIN t = 1 .. N - 1 BY <1>4
  <2>2. \A i \in 1 .. N - 1 : t[i] = s[i + 1] BY <1>4
  <2> QED BY <2>1, <2>2
<1>7. \A b \in DOMAIN s : b # 1 => \E a \in DOMAIN t : b = a + 1 /\ t[a] = s[b]
  <2> SUFFICES ASSUME NEW N \in Nat, N = Len(s), NEW b \in DOMAIN s, b # 1
               PROVE  \E a \in DOMAIN t : b = a + 1 /\ t[a] = s[b]
    BY <1>4
  <2>1. DOMAIN s = 1 .. N /\ DOMAIN t = 1 .. N - 1 BY <1>4
  <2>2. b - 1 \in DOMAIN t /\ b = (b - 1) + 1 BY <2>1
  <2> QED BY <2>2, <1>6
<1>8. \A a, b \in DOMAIN s : s[a][1] = s[b][1] => a = b BY <1>1 DEF PassShape
<1>9. \A a \in DOMAIN s : ~InPlan(k, s[a][1]) BY <1>1 DEF PassShape
<1>10. \A j : InPlan(new, j) <=> InPlan(k, j) BY <1>5 DEF InPlan
<1>11. \A j : InSave(k, j) <=> InSave(new, j) \/ j = s[1][1]
  <2> TAKE j
  <2>1. ASSUME NEW b \in DOMAIN s, s[b][1] = j, b # 1 PROVE \E a \in DOMAIN t : t[a][1] = j
    BY <2>1, <1>7
  <2>2. ASSUME NEW a \in DOMAIN t, t[a][1] = j PROVE \E b \in DOMAIN s : s[b][1] = j
    BY <2>2, <1>6
  <2>3. InSave(k, j) <=> \E b \in DOMAIN s : s[b][1] = j BY <1>1 DEF InSave
  <2>4. InSave(new, j) <=> \E a \in DOMAIN t : t[a][1] = j BY <1>5 DEF InSave
  <2> QED BY <2>1, <2>2, <2>3, <2>4, <1>6
<1>12. \A j : ToRetry(k, j) <=> ToRetry(new, j) \/ s[1] = <<j, "retry">>
  <2> TAKE j
  <2>1. ASSUME NEW b \in DOMAIN s, s[b] = <<j, "retry">>, b # 1 PROVE \E a \in DOMAIN t : t[a] = <<j, "retry">>
    BY <2>1, <1>7
  <2>2. ASSUME NEW a \in DOMAIN t, t[a] = <<j, "retry">> PROVE \E b \in DOMAIN s : s[b] = <<j, "retry">>
    BY <2>2, <1>6
  <2>3. ToRetry(k, j) <=> \E b \in DOMAIN s : s[b] = <<j, "retry">> BY <1>1 DEF ToRetry
  <2>4. ToRetry(new, j) <=> \E a \in DOMAIN t : t[a] = <<j, "retry">> BY <1>5 DEF ToRetry
  <2> QED BY <2>1, <2>2, <2>3, <2>4, <1>6
<1>13. ~InSave(new, s[1][1]) BY <1>5, <1>6, <1>8 DEF InSave
<1>14. \A a \in DOMAIN t : \E b \in DOMAIN s : t[a] = s[b] BY <1>6
<1>15. \A a, b \in DOMAIN t : t[a][1] = t[b][1] => a = b BY <1>6, <1>8
<1>16. PassShape(new)
  <2>1. \A a \in DOMAIN t : ~InPlan(new, t[a][1]) BY <1>9, <1>10, <1>14
  <2> QED BY <2>1, <1>4, <1>5, <1>15 DEF PassShape
<1>17. Head(k.save) = s[1] /\ k.save = s /\ new.save = t BY ONLY <1>1, <1>4, <1>5
<1>18. s[1] \in Jobs \X Answers BY ONLY <1>4
<1>19. InSave(k, s[1][1]) /\ ~InPlan(k, s[1][1]) /\ \E b \in DOMAIN s : s[1] = s[b]
  BY ONLY <1>6, <1>9, <1>11
<1> QED BY ONLY <1>10, <1>11, <1>12, <1>13, <1>14, <1>16, <1>17, <1>18, <1>19

\* A browser that is gone stays to be switched off.
LEMMA Followed ==
    ASSUME NEW k, PassShape(k), NEW new, NEW j0, Follows(k, new, j0)
    PROVE  /\ PassShape(new)
           /\ \A j : InPlan(new, j) <=> InPlan(k, j)
           /\ \A j : InSave(new, j) <=> InSave(k, j)
           /\ \A j : ToRetry(new, j) <=> ToRetry(k, j)
           /\ \A a \in DOMAIN new.save : a \in DOMAIN k.save /\ new.save[a][1] = k.save[a][1]
           /\ \A a \in DOMAIN new.save : new.save[a][2] = "disable" \/ new.save[a] = k.save[a]
<1>0. /\ k.save # <<>> /\ Head(k.save) = <<j0, "gone">>
      /\ new.plan = k.plan /\ new.save = <<<<j0, "disable">>>> \o Tail(k.save)
  BY DEF Follows
<1>1. PICK s : s = k.save OBVIOUS
<1>2. PICK t : t = <<<<j0, "disable">>>> \o Tail(s) OBVIOUS
<1>3. s \in Seq(Jobs \X Answers) /\ s # <<>> BY <1>0, <1>1 DEF PassShape
<1>4. /\ s[1] = <<j0, "gone">> /\ j0 \in Jobs /\ Tail(s) \in Seq(Jobs \X Answers)
      /\ Len(Tail(s)) = Len(s) - 1 /\ \A i \in 1 .. Len(Tail(s)) : Tail(s)[i] = s[i + 1]
      /\ Len(s) \in Nat /\ Len(s) >= 1 /\ DOMAIN s = 1 .. Len(s)
  <2>1. Head(s) = s[1] /\ Head(s) \in Jobs \X Answers BY <1>3, HeadTailProperties
  <2>2. Head(s) = <<j0, "gone">> BY <1>0, <1>1
  <2>3. j0 \in Jobs BY <2>1, <2>2
  <2> QED BY <1>3, <2>1, <2>2, <2>3, HeadTailProperties, LenProperties, EmptySeq
<1>5. new.plan = k.plan /\ new.save = t BY <1>0, <1>1, <1>2
<1>6. /\ t \in Seq(Jobs \X Answers) /\ DOMAIN t = DOMAIN s /\ 1 \in DOMAIN s
      /\ t[1] = <<j0, "disable">> /\ \A i \in DOMAIN s : i # 1 => t[i] = s[i]
  <2> SUFFICES ASSUME NEW N \in Nat, N = Len(s)
               PROVE  /\ t \in Seq(Jobs \X Answers) /\ DOMAIN t = DOMAIN s /\ 1 \in DOMAIN s
                      /\ t[1] = <<j0, "disable">> /\ \A i \in DOMAIN s : i # 1 => t[i] = s[i]
    BY <1>4
  <2>1. PICK T : T = Tail(s) OBVIOUS
  <2>2. T \in Seq(Jobs \X Answers) /\ Len(T) = N - 1 /\ \A i \in 1 .. N - 1 : T[i] = s[i + 1]
    BY <2>1, <1>4
  <2>3. PICK U : U = <<<<j0, "disable">>>> OBVIOUS
  <2>4. U \in Seq(Jobs \X Answers) /\ Len(U) = 1 /\ U[1] = <<j0, "disable">>
    <3>1. <<j0, "disable">> \in Jobs \X Answers BY <1>4 DEF Answers
    <3> QED BY <3>1, <2>3
  <2>5. t = U \o T BY <1>2, <2>1, <2>3
  <2>6. /\ t \in Seq(Jobs \X Answers) /\ Len(t) = Len(U) + Len(T)
        /\ \A i \in 1 .. Len(U) + Len(T) : t[i] = IF i <= Len(U) THEN U[i] ELSE T[i - Len(U)]
    <3>1. PICK K : K = Jobs \X Answers OBVIOUS
    <3>2. U \in Seq(K) /\ T \in Seq(K) BY <2>2, <2>4, <3>1
    <3>3. /\ U \o T \in Seq(K) /\ Len(U \o T) = Len(U) + Len(T)
          /\ \A i \in 1 .. Len(U) + Len(T) : (U \o T)[i] = IF i <= Len(U) THEN U[i] ELSE T[i - Len(U)]
      BY ONLY <3>2, ConcatProperties
    <3> QED BY <2>5, <3>1, <3>3
  <2>7. Len(t) = N /\ \A i \in 1 .. N : t[i] = IF i <= 1 THEN U[i] ELSE T[i - 1]
    BY <2>2, <2>4, <2>6
  <2>8. DOMAIN t = 1 .. N /\ DOMAIN s = 1 .. N BY <2>6, <2>7, <1>4, LenProperties
  <2>9. 1 \in 1 .. N BY <1>4
  <2>10. t[1] = <<j0, "disable">> BY <2>4, <2>7, <2>9
  <2>11. \A i \in 1 .. N : i # 1 => t[i] = s[i]
    <3>1. \A i \in 1 .. N : i # 1 => ~(i <= 1) /\ i - 1 \in 1 .. N - 1 /\ i - 1 + 1 = i OBVIOUS
    <3> QED BY <3>1, <2>2, <2>7
  <2> QED BY <2>6, <2>8, <2>9, <2>10, <2>11
<1>7. \A i \in DOMAIN s : t[i][1] = s[i][1]
  <2>1. t[1][1] = j0 /\ s[1][1] = j0 BY <1>4, <1>6
  <2>2. \A i \in DOMAIN s : i # 1 => t[i][1] = s[i][1] BY <1>6
  <2> QED BY <2>1, <2>2
<1>8. \A j : InPlan(new, j) <=> InPlan(k, j) BY <1>5 DEF InPlan
<1>9. \A j : InSave(new, j) <=> InSave(k, j) BY <1>1, <1>5, <1>6, <1>7 DEF InSave
<1>10. \A j : ToRetry(new, j) <=> ToRetry(k, j)
  <2> TAKE j
  <2>0. t[1] # <<j, "retry">> /\ s[1] # <<j, "retry">> BY <1>4, <1>6
  <2>1. \A i \in DOMAIN s : t[i] = <<j, "retry">> <=> s[i] = <<j, "retry">> BY <2>0, <1>6
  <2> QED BY <2>1, <1>1, <1>5, <1>6 DEF ToRetry
<1>11. PassShape(new)
  <2>1. \A a, b \in DOMAIN s : s[a][1] = s[b][1] => a = b BY <1>1 DEF PassShape
  <2>2. \A a \in DOMAIN s : ~InPlan(k, s[a][1]) BY <1>1 DEF PassShape
  <2>3. \A a, b \in DOMAIN t : t[a][1] = t[b][1] => a = b BY <2>1, <1>6, <1>7
  <2>4. \A a \in DOMAIN t : ~InPlan(new, t[a][1]) BY <2>2, <1>6, <1>7, <1>8
  <2> QED BY <2>3, <2>4, <1>5, <1>6 DEF PassShape
<1>12. \A a \in DOMAIN t : t[a][2] = "disable" \/ t[a] = s[a] BY <1>6
<1> QED BY <1>1, <1>5, <1>6, <1>7, <1>8, <1>9, <1>10, <1>11, <1>12

\* What a pass claims is what it has to send.
LEMMA Enumerated ==
    ASSUME NEW S, IsFiniteSet(S)
    PROVE  /\ SetToSeq(S) \in [1 .. Cardinality(S) -> S] /\ Cardinality(S) \in Nat
           /\ \A a, b \in 1 .. Cardinality(S) : SetToSeq(S)[a] = SetToSeq(S)[b] => a = b
<1>1. Cardinality(S) \in Nat /\ ExistsBijection(1 .. Cardinality(S), S) BY FS_CardinalityType
<1>2. \E f \in [1 .. Cardinality(S) -> S] : IsInjective(f)
  BY <1>1 DEF ExistsBijection, Bijection, Injection
<1>3. SetToSeq(S) \in [1 .. Cardinality(S) -> S] /\ IsInjective(SetToSeq(S))
  BY <1>2 DEF SetToSeq
<1> QED BY <1>1, <1>3 DEF IsInjective

LEMMA OneRequest ==
    ASSUME NEW js, js \subseteq Jobs, IsFiniteSet(js), NEW new,
           new.plan = <<SetToSeq(js)>>, new.save = <<>>
    PROVE  /\ PassShape(new)
           /\ \A j : InPlan(new, j) => j \in js
           /\ \A j : ~InSave(new, j) /\ ~ToRetry(new, j)
<1>1. PICK q : q = SetToSeq(js) OBVIOUS
<1>2. /\ q \in [1 .. Cardinality(js) -> js] /\ Cardinality(js) \in Nat
      /\ \A a, b \in 1 .. Cardinality(js) : q[a] = q[b] => a = b
  BY <1>1, Enumerated
<1>3. q \in Seq(Jobs)
  <2>1. q \in [1 .. Cardinality(js) -> Jobs] BY <1>2
  <2> QED BY <1>2, <2>1, FunctionIsSeq
<1>4. new.plan = <<q>> /\ new.save = <<>> BY <1>1
<1>5. DOMAIN new.plan = {1} /\ new.plan[1] = q /\ new.plan \in Seq(Seq(Jobs)) BY <1>3, <1>4
<1>6. Apart(new.plan) BY <1>2, <1>5 DEF Apart
<1>7. new.save \in Seq(Jobs \X Answers) /\ DOMAIN new.save = {} BY <1>4, EmptySeq
<1>8. PassShape(new) BY <1>5, <1>6, <1>7 DEF PassShape
<1>9. \A j : InPlan(new, j) => j \in js BY <1>2, <1>5 DEF InPlan, Names
<1>10. \A j : ~InSave(new, j) /\ ~ToRetry(new, j) BY <1>7 DEF InSave, ToRetry
<1> QED BY <1>8, <1>9, <1>10

LEMMA OneByOne ==
    ASSUME NEW js, js \subseteq Jobs, IsFiniteSet(js), NEW new,
           NEW order \in SetToSeqs({<<j>> : j \in js}),
           new.plan = order, new.save = <<>>
    PROVE  /\ PassShape(new)
           /\ \A j : InPlan(new, j) => j \in js
           /\ \A j : ~InSave(new, j) /\ ~ToRetry(new, j)
<1> DEFINE S == {<<j>> : j \in js}
<1>1. Cardinality(S) \in Nat
  <2>1. PICK f : f = [j \in js |-> <<j>>] OBVIOUS
  <2>2. f \in Surjection(js, S) BY <2>1 DEF Surjection
  <2>3. IsFiniteSet(S) BY <2>2, FS_Surjection
  <2> QED BY <2>3, FS_CardinalityType
<1>2. /\ order \in [1 .. Cardinality(S) -> S]
      /\ \A a, b \in 1 .. Cardinality(S) : a # b => order[a] # order[b]
  BY DEF SetToSeqs
<1>3. ASSUME NEW a \in 1 .. Cardinality(S)
      PROVE  \E j \in js : order[a] = <<j>> /\ DOMAIN order[a] = {1} /\ order[a][1] = j
  <2>1. order[a] \in S BY <1>2
  <2>2. PICK j \in js : order[a] = <<j>> BY <2>1
  <2> QED BY <2>2
<1>4. new.plan = order /\ new.save = <<>> OBVIOUS
<1>5. new.plan \in Seq(Seq(Jobs))
  <2>1. \A a \in 1 .. Cardinality(S) : order[a] \in Seq(Jobs)
    <3> TAKE a \in 1 .. Cardinality(S)
    <3>1. PICK j \in js : order[a] = <<j>> BY <1>3
    <3>2. j \in Jobs OBVIOUS
    <3> QED BY <3>1, <3>2
  <2>2. order \in [1 .. Cardinality(S) -> Seq(Jobs)] BY <1>2, <2>1
  <2>3. PICK n \in Nat : n = Cardinality(S) BY <1>1
  <2>4. order \in [1 .. n -> Seq(Jobs)] BY <2>2, <2>3
  <2> QED BY <1>4, <2>3, <2>4, FunctionIsSeq
<1> HIDE DEF S
<1>6. DOMAIN order = 1 .. Cardinality(S) BY <1>2
<1>7. Apart(new.plan)
  <2> SUFFICES ASSUME NEW i \in 1 .. Cardinality(S), NEW n \in 1 .. Cardinality(S),
                      NEW m \in DOMAIN order[i], NEW l \in DOMAIN order[n],
                      order[i][m] = order[n][l]
               PROVE  i = n /\ m = l
    BY <1>4, <1>6 DEF Apart
  <2>1. PICK x \in js : order[i] = <<x>> /\ DOMAIN order[i] = {1} /\ order[i][1] = x BY <1>3
  <2>2. PICK y \in js : order[n] = <<y>> /\ DOMAIN order[n] = {1} /\ order[n][1] = y BY <1>3
  <2>3. m = 1 /\ l = 1 /\ x = y BY <2>1, <2>2
  <2>4. order[i] = order[n] BY <2>1, <2>2, <2>3
  <2> QED BY <2>3, <2>4, <1>2
<1>8. new.save \in Seq(Jobs \X Answers) /\ DOMAIN new.save = {} BY <1>4, EmptySeq
<1>9. PassShape(new) BY <1>5, <1>7, <1>8 DEF PassShape
<1>10. \A j : InPlan(new, j) => j \in js
  <2> SUFFICES ASSUME NEW i \in 1 .. Cardinality(S), NEW m \in DOMAIN order[i]
               PROVE  order[i][m] \in js
    BY <1>4, <1>6 DEF InPlan, Names
  <2> QED BY <1>3
<1>11. \A j : ~InSave(new, j) /\ ~ToRetry(new, j) BY <1>8 DEF InSave, ToRetry
<1> QED BY <1>9, <1>10, <1>11

\* A pass with nothing to send or to save.
LEMMA IdlePass ==
    /\ PassShape(Idle)
    /\ \A j : ~InPlan(Idle, j) /\ ~InSave(Idle, j) /\ ~ToRetry(Idle, j)
<1>1. Idle.plan = <<>> /\ Idle.save = <<>> BY DEF Idle
<1>2. /\ Idle.plan \in Seq(Seq(Jobs)) /\ Idle.save \in Seq(Jobs \X Answers)
      /\ DOMAIN Idle.plan = {} /\ DOMAIN Idle.save = {}
  BY <1>1, EmptySeq
<1> QED BY <1>2 DEF PassShape, Apart, InPlan, Names, InSave, ToRetry

LEMMA JobsFinite == IsFiniteSet(Jobs)
<1>1. IsFiniteSet(Devices) BY PushAssumption, FS_Union DEF Devices
<1>2. IsFiniteSet(Notes) BY PushAssumption, FS_Interval DEF Notes
<1> QED BY <1>1, <1>2, FS_Product DEF Jobs

------------------------------------------------------------------------------
(* Sums and queues.                                                           *)

LEMMA RulesFollow == PushInv => PushTypeOK /\ PushRules
<1> SUFFICES ASSUME PushInv PROVE PushTypeOK /\ PushRules OBVIOUS
<1>1. PushTyped BY DEF PushInv
<1>2. ASSUME NEW j \in Jobs
      PROVE  /\ job[j] \in JobRow
             /\ j \in PhoneJobs => job[j].st \notin {"expired", "cancelled"}
             /\ j \notin PhoneJobs => job[j].st \notin {"delivered", "disabled"}
             /\ (j \in PhoneJobs /\ job[j].st = "failed" /\ ~job[j].checked /\ j[2] \notin Bad)
                   => job[j].tries >= MaxAttempts
  BY <1>1 DEF PushInv, PushTyped, Sound
<1>3. PhoneJobs \subseteq Jobs BY DEF PhoneJobs, Jobs, Devices
<1>4. PushTypeOK
  <2>1. ToSet(tickets) \subseteq [job : PhoneJobs, answered : BOOLEAN]
    <3>1. tickets \in [1 .. Len(tickets) -> Ticket] BY <1>1, LenProperties DEF PushTyped
    <3> QED BY <3>1 DEF ToSet, Ticket
  <2>2. \A a \in receipts : a[1] \in PhoneJobs BY <1>1 DEF PushTyped
  <2>3. \A j \in PhoneJobs : job[j].st \notin {"expired", "cancelled"} BY <1>2, <1>3
  <2>4. \A j \in Jobs \ PhoneJobs : job[j].st \notin {"delivered", "disabled"} BY <1>2
  <2>5. \A j \in Jobs : job[j] \in JobRow BY <1>2
  <2> QED BY <1>1, <2>1, <2>2, <2>3, <2>4, <2>5 DEF PushTyped, PushTypeOK, JobRow
<1>5. CopiesBounded
  <2> SUFFICES ASSUME NEW j \in Jobs PROVE credit[j] >= 0 BY DEF CopiesBounded
  <2>1. IsFiniteSet(Carriers(j)) BY <1>1, FS_Subset DEF PushTyped, Carriers
  <2>2. Cardinality(Carriers(j)) \in Nat BY <2>1, FS_CardinalityType
  <2>3. Cardinality(Carriers(j)) + Place(j) <= credit[j] BY DEF PushInv, Covered
  <2>4. Place(j) \in {0, 1} BY DEF Place
  <2>5. credit[j] \in Int BY <1>1 DEF PushTyped
  <2> QED BY <2>2, <2>3, <2>4, <2>5
<1>6. BadNeighboursHarmless BY <1>2, <1>3 DEF BadNeighboursHarmless
<1> QED BY <1>4, <1>5, <1>6 DEF PushRules

\* A pass knows its phones while nothing that was queued is forgotten.
LEMMA StillKnown ==
    ASSUME NEW k, PassOK(k), Grows, PushTyped, PushTyped', \A j \in Jobs : Sound(j)
    PROVE  PassOK(k)'
<1>1. ASSUME NEW j \in PhoneJobs, InPlan(k, j) \/ InSave(k, j)
      PROVE  j \in DOMAIN k.known /\ k.known[j] \in Nat /\ k.known[j] + 1 <= job'[j].tries
  <2>1. j \in DOMAIN k.known /\ k.known[j] \in Nat /\ k.known[j] + 1 <= job[j].tries
    BY <1>1 DEF PassOK, KnownOK
  <2>2. j \in Jobs BY DEF PhoneJobs, Jobs, Devices
  <2>3. job[j].tries \in Nat /\ job'[j].tries \in Nat BY <2>2 DEF PushTyped, JobRow
  <2>4. job[j].st # "none" BY <2>1, <2>2, <2>3 DEF Sound, NoJob
  <2>5. job'[j].tries >= job[j].tries BY <2>4 DEF Grows
  <2> QED BY <2>1, <2>3, <2>5
<1>2. KnownOK(k)' BY <1>1 DEF KnownOK
<1>3. PassShape(k)' /\ RefusedOK(k)' BY DEF PassOK, PassShape, RefusedOK
<1> QED BY <1>2, <1>3 DEF PassOK

\* What leaves the passes alone has to make up for the claims that it permits.
LEMMA Kept ==
    ASSUME PushInv, PushTyped', WritingOK', OneEach(tickets)', QueuedOnce',
           UNCHANGED worker, Grows, \A j \in Jobs : Sound(j)',
           \A j \in Jobs : Place(j)' - Place(j) <= credit'[j] - credit[j]
    PROVE  PushInv'
<1>1. ASSUME NEW w \in Workers' PROVE PassOK(worker[w])'
  <2>1. w \in Workers /\ worker'[w] = worker[w] BY DEF Workers
  <2>2. PassOK(worker[w]) /\ PushTyped /\ \A j \in Jobs : Sound(j) BY <2>1 DEF PushInv
  <2>3. PICK k : k = worker[w] OBVIOUS
  <2>4. PassOK(k)' BY <2>2, <2>3, StillKnown
  <2> QED BY <2>1, <2>3, <2>4 DEF PassOK, KnownOK
<1>2. ASSUME NEW j \in Jobs PROVE Covered(j)'
  <2>1. Carriers(j)' = Carriers(j) BY DEF Carriers, Workers
  <2>2. IsFiniteSet(Carriers(j)) BY FS_Subset DEF PushInv, PushTyped, Carriers
  <2>3. Cardinality(Carriers(j)) \in Nat BY <2>2, FS_CardinalityType
  <2>4. Cardinality(Carriers(j)) + Place(j) <= credit[j] BY DEF PushInv, Covered
  <2>5. Place(j) \in {0, 1} /\ Place(j)' \in {0, 1} BY DEF Place
  <2>6. credit[j] \in Int /\ credit'[j] \in Int BY DEF PushInv, PushTyped
  <2>7. Place(j)' - Place(j) <= credit'[j] - credit[j] OBVIOUS
  <2>8. Cardinality(Carriers(j)) + Place(j)' <= credit'[j] BY <2>3, <2>4, <2>5, <2>6, <2>7
  <2> QED BY <2>1, <2>8 DEF Covered
<1> QED BY <1>1, <1>2 DEF PushInv

\* So does a step of one pass, for the jobs that the pass takes or drops as well.
LEMMA Moved ==
    ASSUME PushInv, PushTyped', WritingOK', OneEach(tickets)', QueuedOnce',
           NEW w \in Workers, NEW new, worker' = [worker EXCEPT ![w] = new], PassOK(new)',
           Grows, \A j \in Jobs : Sound(j)',
           \A j \in Jobs : (Place(j)' + Load(new, j)) - (Place(j) + Load(worker[w], j))
                              <= credit'[j] - credit[j]
    PROVE  PushInv'
<1>0. Workers' = Workers /\ worker'[w] = new /\ \A v \in Workers : v # w => worker'[v] = worker[v]
  BY DEF Workers
<1>1. ASSUME NEW v \in Workers' PROVE PassOK(worker[v])'
  <2>1. CASE v = w BY <2>1, <1>0 DEF PassOK, KnownOK
  <2>2. CASE v # w
    <3>1. v \in Workers /\ worker'[v] = worker[v] BY <2>2, <1>0
    <3>2. PassOK(worker[v]) /\ PushTyped /\ \A j \in Jobs : Sound(j) BY <3>1 DEF PushInv
    <3>3. PICK k : k = worker[v] OBVIOUS
    <3>4. PassOK(k)' BY <3>2, <3>3, StillKnown
    <3> QED BY <3>1, <3>3, <3>4 DEF PassOK, KnownOK
  <2> QED BY <2>1, <2>2
<1>2. ASSUME NEW j \in Jobs PROVE Covered(j)'
  <2>0. PICK C : C = Carriers(j) OBVIOUS
  <2>1. IsFiniteSet(C) BY <2>0, FS_Subset DEF PushInv, PushTyped, Carriers
  <2>2. PICK D : D = C \ {w} OBVIOUS
  <2>3. /\ IsFiniteSet(D) /\ Cardinality(C) \in Nat /\ Cardinality(D) \in Nat
        /\ Cardinality(D) = IF w \in C THEN Cardinality(C) - 1 ELSE Cardinality(C)
    BY <2>1, <2>2, FS_RemoveElement, FS_CardinalityType
  <2>4. w \in C <=> Carries(worker[w], j) BY <2>0 DEF Carriers
  <2>5. Cardinality(D) + Load(worker[w], j) = Cardinality(C) BY <2>3, <2>4 DEF Load
  <2>6. PICK E : E = Carriers(j)' OBVIOUS
  <2>7. E = IF Carries(new, j) THEN D \cup {w} ELSE D
    BY <2>0, <2>2, <2>6, <1>0 DEF Carriers
  <2>8. Cardinality(E) = Cardinality(D) + Load(new, j)
    <3>1. Cardinality(D \cup {w}) = Cardinality(D) + 1 BY <2>2, <2>3, FS_AddElement
    <3> QED BY <3>1, <2>3, <2>7 DEF Load
  <2>9. Cardinality(C) + Place(j) <= credit[j] BY <2>0 DEF PushInv, Covered
  <2>10. Place(j) \in {0, 1} /\ Place(j)' \in {0, 1} BY DEF Place
  <2>11. Load(new, j) \in {0, 1} /\ Load(worker[w], j) \in {0, 1} BY DEF Load
  <2>12. credit[j] \in Int /\ credit'[j] \in Int BY DEF PushInv, PushTyped
  <2>13. (Place(j)' + Load(new, j)) - (Place(j) + Load(worker[w], j)) <= credit'[j] - credit[j]
    OBVIOUS
  <2>14. Cardinality(E) + Place(j)' <= credit'[j]
    BY <2>3, <2>5, <2>8, <2>9, <2>10, <2>11, <2>12, <2>13
  <2> QED BY <2>6, <2>14 DEF Covered
<1> QED BY <1>1, <1>2 DEF PushInv

------------------------------------------------------------------------------
(* Jobs and tickets that change.                                              *)

LEMMA PhoneJob == \A j \in Jobs : j \in PhoneJobs <=> j[2] \in Phones
<1> SUFFICES ASSUME NEW j \in Jobs PROVE j \in PhoneJobs <=> j[2] \in Phones OBVIOUS
<1>1. j = <<j[1], j[2]>> /\ j[1] \in Notes /\ j[2] \in Devices BY DEF Jobs
<1> QED BY <1>1 DEF PhoneJobs

LEMMA PhonesAreJobs == PhoneJobs \subseteq Jobs
BY DEF PhoneJobs, Jobs, Devices

\* Queueing takes a place that was free: of a phone, or of a notification being written.
LEMMA Queueing ==
    ASSUME PushInv, NEW rows, job' = Enqueue(rows),
           \A n \in Notes : note[n].user # NoUser => note'[n].user # NoUser,
           \A j \in Jobs : j \in rows =>
               note'[j[1]].user # NoUser /\ (j \in PhoneJobs \/ note[j[1]].user = NoUser)
    PROVE  /\ job' \in [Jobs -> JobRow] /\ Grows
           /\ \A j \in Jobs : Sound(j)' /\ Place(j)' <= Place(j)
           /\ \A j \in Jobs : job[j].st # "none" => job'[j].st # "none"
<1>1. job \in [Jobs -> JobRow] BY DEF PushInv, PushTyped
<1>2. ASSUME NEW j \in Jobs
      PROVE  /\ job'[j] = IF j \in rows /\ job[j].st = "none" THEN Queued ELSE job[j]
             /\ job'[j] \in JobRow /\ j[1] \in Notes
  BY <1>1 DEF Enqueue, Queued, JobRow, Jobs
<1>3. job' \in [Jobs -> JobRow] BY <1>2 DEF Enqueue
<1>4. ASSUME NEW j \in Jobs, job[j].st # "none" PROVE job'[j] = job[j] BY <1>2, <1>4
<1>5. Grows
  <2> SUFFICES ASSUME NEW j \in PhoneJobs, job[j].st # "none"
               PROVE  job'[j].st # "none" /\ job'[j].tries >= job[j].tries
    BY DEF Grows
  <2>1. j \in Jobs BY PhonesAreJobs
  <2>2. job'[j] = job[j] /\ job[j].tries \in Nat BY <2>1, <1>1, <1>4 DEF JobRow
  <2> QED BY <2>2
<1>6. ASSUME NEW j \in Jobs PROVE Sound(j)' /\ Place(j)' <= Place(j)
  <2>1. Sound(j) BY DEF PushInv
  <2>2. CASE j \in rows /\ job[j].st = "none"
    <3>1. job'[j] = Queued /\ note'[j[1]].user # NoUser BY <2>2, <1>2
    <3>2. Sound(j)' BY <3>1 DEF Sound, Queued
    <3>3. Place(j) = 1 BY <2>2 DEF Place, Waits
    <3>4. Place(j)' \in {0, 1} BY DEF Place
    <3> QED BY <3>2, <3>3, <3>4
  <2>3. CASE ~(j \in rows /\ job[j].st = "none")
    <3>1. job'[j] = job[j] /\ (note[j[1]].user # NoUser => note'[j[1]].user # NoUser) BY <2>3, <1>2
    <3>2. Sound(j)' BY <3>1, <2>1 DEF Sound
    <3>3. Waits(j)' => Waits(j) BY <3>1 DEF Waits
    <3> QED BY <3>2, <3>3 DEF Place
  <2> QED BY <2>2, <2>3
<1>7. \A j \in Jobs : job[j].st # "none" => job'[j].st # "none" BY <1>4
<1> QED BY <1>3, <1>5, <1>6, <1>7

\* One job that is queued takes another state.
LEMMA Marked ==
    ASSUME PushInv, NEW j \in Jobs, NEW row \in JobRow, job' = [job EXCEPT ![j] = row],
           job[j].st # "none", row.st # "none", row.tries = job[j].tries, UNCHANGED note,
           j \in PhoneJobs => row.st \notin {"expired", "cancelled"},
           j \notin PhoneJobs => row.st \notin {"delivered", "disabled"},
           (j \in PhoneJobs /\ row.st = "failed" /\ ~row.checked /\ j[2] \notin Bad)
               => row.tries >= MaxAttempts
    PROVE  /\ job' \in [Jobs -> JobRow] /\ Grows
           /\ \A x \in Jobs : Sound(x)' /\ (x # j => Place(x)' = Place(x))
           /\ \A x \in Jobs : job[x].st # "none" => job'[x].st # "none"
           /\ Place(j)' = IF row.st \in {"pending", "retry"} THEN 1 ELSE 0
<1>1. job \in [Jobs -> JobRow] BY DEF PushInv, PushTyped
<1>2. job' \in [Jobs -> JobRow] /\ job'[j] = row /\ \A x \in Jobs : x # j => job'[x] = job[x]
  BY <1>1
<1>3. \A x \in Jobs : job[x].st # "none" => job'[x].st # "none" BY <1>2
<1>4. Grows
  <2> SUFFICES ASSUME NEW x \in PhoneJobs, job[x].st # "none"
               PROVE  job'[x].st # "none" /\ job'[x].tries >= job[x].tries
    BY DEF Grows
  <2>1. x \in Jobs BY PhonesAreJobs
  <2>2. job'[x].tries = job[x].tries /\ job[x].tries \in Nat BY <2>1, <1>1, <1>2 DEF JobRow
  <2> QED BY <2>1, <2>2, <1>3
<1>5. ASSUME NEW x \in Jobs, x # j PROVE Sound(x)' /\ Place(x)' = Place(x)
  <2>1. Sound(x) /\ job'[x] = job[x] BY <1>2, <1>5 DEF PushInv
  <2>2. Sound(x)' BY <2>1 DEF Sound
  <2>3. Waits(x)' <=> Waits(x) BY <2>1 DEF Waits
  <2> QED BY <2>2, <2>3 DEF Place
<1>6. Sound(j)'
  <2>1. Sound(j) BY DEF PushInv
  <2>2. note'[j[1]].user # NoUser BY <2>1 DEF Sound
  <2> QED BY <2>2, <1>2 DEF Sound
<1>7. Place(j)' = IF row.st \in {"pending", "retry"} THEN 1 ELSE 0 BY <1>2 DEF Place, Waits
<1> QED BY <1>2, <1>3, <1>4, <1>5, <1>6, <1>7

LEMMA StateSet ==
    ASSUME PushInv, NEW j \in Jobs, job[j].st # "none", UNCHANGED note,
           NEW st \in {"pending", "sending", "sent", "delivered", "retry", "failed",
                       "rejected", "disabled", "expired", "cancelled"},
           job' = Set(j, st),
           j \in PhoneJobs => st \notin {"expired", "cancelled"},
           j \notin PhoneJobs => st \notin {"delivered", "disabled"},
           (j \in PhoneJobs /\ st = "failed" /\ ~job[j].checked /\ j[2] \notin Bad)
               => job[j].tries >= MaxAttempts
    PROVE  /\ job' \in [Jobs -> JobRow] /\ Grows
           /\ \A x \in Jobs : Sound(x)' /\ (x # j => Place(x)' = Place(x))
           /\ \A x \in Jobs : job[x].st # "none" => job'[x].st # "none"
           /\ Place(j)' = IF st \in {"pending", "retry"} THEN 1 ELSE 0
<1>1. job[j] \in JobRow BY DEF PushInv, PushTyped
<1>2. PICK row : row = [job[j] EXCEPT !.st = st] OBVIOUS
<1>3. row \in JobRow /\ row.st = st /\ row.tries = job[j].tries /\ row.checked = job[j].checked
  BY <1>1, <1>2 DEF JobRow
<1>4. job' = [job EXCEPT ![j] = row] BY <1>2 DEF Set
<1> QED BY <1>3, <1>4, Marked

\* A list without one of its elements.
LEMMA LeftOut ==
    ASSUME NEW S, NEW s \in Seq(S), NEW i \in 1 .. Len(s)
    PROVE  /\ RemoveAt(s, i) \in Seq(S) /\ DOMAIN RemoveAt(s, i) = 1 .. Len(s) - 1
           /\ \A x \in 1 .. Len(s) - 1 : RemoveAt(s, i)[x] = IF x < i THEN s[x] ELSE s[x + 1]
<1> SUFFICES ASSUME NEW n \in Nat, n = Len(s)
             PROVE  /\ RemoveAt(s, i) \in Seq(S) /\ DOMAIN RemoveAt(s, i) = 1 .. n - 1
                    /\ \A x \in 1 .. n - 1 : RemoveAt(s, i)[x] = IF x < i THEN s[x] ELSE s[x + 1]
  BY LenProperties
<1>0. i \in Int /\ 1 <= i /\ i <= n OBVIOUS
<1>1. PICK one : one = SubSeq(s, 1, i - 1) OBVIOUS
<1>2. PICK two : two = SubSeq(s, i + 1, n) OBVIOUS
<1>3. RemoveAt(s, i) = one \o two BY <1>1, <1>2 DEF RemoveAt
<1>4. \A x \in 1 .. n : s[x] \in S BY ElementOfSeq
<1>5. one \in Seq(S) /\ Len(one) = i - 1 /\ \A x \in 1 .. i - 1 : one[x] = s[x]
  <2>1. \A x \in 1 .. i - 1 : s[x] \in S BY <1>4
  <2>2. /\ one \in Seq(S) /\ Len(one) = IF 1 <= i - 1 THEN (i - 1) - 1 + 1 ELSE 0
        /\ \A x \in 1 .. (i - 1) - 1 + 1 : one[x] = s[1 + x - 1]
    BY <2>1, <1>1, SubSeqProperties
  <2>3. Len(one) = i - 1 BY <2>2
  <2>4. \A x \in 1 .. i - 1 : x \in 1 .. (i - 1) - 1 + 1 /\ 1 + x - 1 = x OBVIOUS
  <2> QED BY <2>2, <2>3, <2>4
<1>6. two \in Seq(S) /\ Len(two) = n - i /\ \A x \in 1 .. n - i : two[x] = s[i + x]
  <2>1. \A x \in i + 1 .. n : s[x] \in S BY <1>4
  <2>2. /\ two \in Seq(S) /\ Len(two) = IF i + 1 <= n THEN n - (i + 1) + 1 ELSE 0
        /\ \A x \in 1 .. n - (i + 1) + 1 : two[x] = s[i + 1 + x - 1]
    BY <2>1, <1>2, SubSeqProperties
  <2>3. Len(two) = n - i BY <2>2
  <2>4. \A x \in 1 .. n - i : x \in 1 .. n - (i + 1) + 1 /\ i + 1 + x - 1 = i + x OBVIOUS
  <2> QED BY <2>2, <2>3, <2>4
<1>7. /\ one \o two \in Seq(S) /\ Len(one \o two) = Len(one) + Len(two)
      /\ \A x \in 1 .. Len(one) + Len(two) :
           (one \o two)[x] = IF x <= Len(one) THEN one[x] ELSE two[x - Len(one)]
  BY <1>5, <1>6, ConcatProperties
<1>8. PICK r : r = one \o two OBVIOUS
<1>9. /\ r \in Seq(S) /\ Len(r) = n - 1
      /\ \A x \in 1 .. n - 1 : r[x] = IF x <= i - 1 THEN one[x] ELSE two[x - (i - 1)]
  <2>1. Len(one) + Len(two) = n - 1 BY <1>0, <1>5, <1>6
  <2>2. /\ r \in Seq(S) /\ Len(r) = Len(one) + Len(two)
        /\ \A x \in 1 .. Len(one) + Len(two) : r[x] = IF x <= Len(one) THEN one[x] ELSE two[x - Len(one)]
    BY <1>7, <1>8
  <2> QED BY <2>1, <2>2, <1>5
<1>10. DOMAIN r = 1 .. n - 1 BY <1>9, LenProperties
<1>11. ASSUME NEW x \in 1 .. n - 1 PROVE r[x] = IF x < i THEN s[x] ELSE s[x + 1]
  <2>1. CASE x < i
    <3>1. x <= i - 1 /\ x \in 1 .. i - 1 BY <2>1
    <3> QED BY <2>1, <3>1, <1>5, <1>9
  <2>2. CASE ~(x < i)
    <3>1. ~(x <= i - 1) /\ x - (i - 1) \in 1 .. n - i /\ i + (x - (i - 1)) = x + 1 BY <2>2
    <3>2. r[x] = two[x - (i - 1)] BY <3>1, <1>9
    <3>3. two[x - (i - 1)] = s[i + (x - (i - 1))] BY <3>1, <1>6
    <3> QED BY <2>2, <3>1, <3>2, <3>3
  <2> QED BY <2>1, <2>2
<1> QED BY <1>3, <1>8, <1>9, <1>10, <1>11

\* Every job has one ticket at most, so the others are those of other jobs.
LEMMA OtherTicketsOnly ==
    ASSUME tickets \in Seq(Ticket), OneEach(tickets), NEW j
    PROVE  /\ OtherTickets(j) \in Seq(Ticket) /\ OneEach(OtherTickets(j))
           /\ \A i \in DOMAIN OtherTickets(j) :
                /\ OtherTickets(j)[i].job # j
                /\ \E m \in DOMAIN tickets : OtherTickets(j)[i] = tickets[m]
<1> SUFFICES ASSUME NEW n \in Nat, n = Len(tickets)
             PROVE  /\ OtherTickets(j) \in Seq(Ticket) /\ OneEach(OtherTickets(j))
                    /\ \A i \in DOMAIN OtherTickets(j) :
                         /\ OtherTickets(j)[i].job # j
                         /\ \E m \in DOMAIN tickets : OtherTickets(j)[i] = tickets[m]
  BY LenProperties
<1>1. DOMAIN tickets = 1 .. n BY LenProperties
<1>2. CASE Tickets(j) = {}
  <2>1. OtherTickets(j) = tickets BY <1>2 DEF OtherTickets
  <2>2. \A i \in DOMAIN tickets : tickets[i].job # j BY <1>2 DEF Tickets
  <2> QED BY <2>1, <2>2
<1>3. CASE Tickets(j) # {}
  <2>1. PICK i : i = CHOOSE x \in Tickets(j) : TRUE OBVIOUS
  <2>2. i \in Tickets(j) BY <1>3, <2>1
  <2>3. i \in 1 .. n /\ tickets[i].job = j BY <2>2, <1>1 DEF Tickets
  <2>4. PICK r : r = RemoveAt(tickets, i) OBVIOUS
  <2>5. OtherTickets(j) = r BY <1>3, <2>1, <2>4 DEF OtherTickets
  <2>6. /\ r \in Seq(Ticket) /\ DOMAIN r = 1 .. n - 1
        /\ \A x \in 1 .. n - 1 : r[x] = IF x < i THEN tickets[x] ELSE tickets[x + 1]
    <3>1. i \in 1 .. Len(tickets) BY <2>3
    <3> QED BY <3>1, <2>4, LeftOut
  <2> DEFINE At(x) == IF x < i THEN x ELSE x + 1
  <2>7. ASSUME NEW x \in DOMAIN r
        PROVE  At(x) \in DOMAIN tickets /\ At(x) # i /\ r[x] = tickets[At(x)] /\ x \in Int
    <3>1. x \in 1 .. n - 1 BY <2>6
    <3>2. CASE x < i
      <4>1. x \in 1 .. n /\ x # i BY <3>1, <3>2, <2>3
      <4> QED BY <3>1, <3>2, <4>1, <2>6, <1>1
    <3>3. CASE ~(x < i)
      <4>1. x + 1 \in 1 .. n /\ x + 1 # i BY <3>1, <3>3, <2>3
      <4> QED BY <3>1, <3>3, <4>1, <2>6, <1>1
    <3> QED BY <3>2, <3>3
  <2>8. ASSUME NEW x \in DOMAIN r, NEW y \in DOMAIN r, At(x) = At(y) PROVE x = y
    <3>1. x \in Int /\ y \in Int /\ i \in Int BY <2>3, <2>7
    <3> QED BY <2>8, <3>1
  <2> HIDE DEF At
  <2>9. \A x, y \in DOMAIN r : r[x].job = r[y].job => x = y BY <2>7, <2>8 DEF OneEach
  <2>10. \A x \in DOMAIN r : r[x].job # j BY <2>3, <2>7, <1>1 DEF OneEach
  <2> QED BY <2>5, <2>6, <2>7, <2>9, <2>10 DEF OneEach
<1> QED BY <1>2, <1>3

------------------------------------------------------------------------------
(* The steps: notifications and devices.                                      *)

LEMMA ListsStay ==
    ASSUME PushInv, Grows, UNCHANGED <<tickets, receipts>>
    PROVE  OneEach(tickets)' /\ QueuedOnce'
<1>1. \A i \in DOMAIN tickets : tickets[i].job \in PhoneJobs
  <2>1. tickets \in [1 .. Len(tickets) -> Ticket] BY LenProperties DEF PushInv, PushTyped
  <2> QED BY <2>1 DEF Ticket
<1>2. \A a \in receipts : a[1] \in PhoneJobs BY DEF PushInv, PushTyped
<1>3. OneEach(tickets)' BY DEF PushInv, OneEach
<1>4. QueuedOnce' BY <1>1, <1>2 DEF PushInv, QueuedOnce, Grows
<1> QED BY <1>3, <1>4

LEMMA JobsStay ==
    ASSUME PushInv, UNCHANGED job,
           \A n \in Notes : note[n].user # NoUser => note'[n].user # NoUser
    PROVE  /\ Grows /\ \A j \in Jobs : Sound(j)' /\ Place(j)' <= Place(j)
<1>1. job \in [Jobs -> JobRow] BY DEF PushInv, PushTyped
<1>2. Grows
  <2>1. \A j \in PhoneJobs : job[j].tries \in Nat BY <1>1, PhonesAreJobs DEF JobRow
  <2> QED BY <2>1 DEF Grows
<1>3. ASSUME NEW j \in Jobs PROVE Sound(j)' /\ Place(j)' <= Place(j)
  <2>1. Sound(j) /\ j[1] \in Notes BY DEF PushInv, Jobs
  <2>2. Sound(j)' BY <2>1 DEF Sound
  <2>3. Waits(j)' => Waits(j) BY <2>1 DEF Waits
  <2> QED BY <2>2, <2>3 DEF Place
<1> QED BY <1>2, <1>3

\* What leaves passes and credit alone and takes no new places.
LEMMA Quiet ==
    ASSUME PushInv, PushTyped', WritingOK', Grows, UNCHANGED <<worker, tickets, receipts, credit>>,
           \A j \in Jobs : Sound(j)' /\ Place(j)' <= Place(j)
    PROVE  PushInv'
<1>1. OneEach(tickets)' /\ QueuedOnce' BY ListsStay
<1>2. ASSUME NEW j \in Jobs PROVE Place(j)' - Place(j) <= credit'[j] - credit[j]
  <2>1. Place(j) \in {0, 1} /\ Place(j)' \in {0, 1} BY DEF Place
  <2>2. credit[j] \in Int /\ credit'[j] = credit[j] BY DEF PushInv, PushTyped
  <2>3. Place(j)' <= Place(j) OBVIOUS
  <2> QED BY <2>1, <2>2, <2>3
<1>3. \A j \in Jobs : Sound(j)' OBVIOUS
<1> QED BY <1>1, <1>2, <1>3, Kept

LEMMA WriteNotificationKeeps ==
    ASSUME PushInv, NEW n \in Notes, NEW u \in Users, WriteNotification(n, u) PROVE PushInv'
<1> USE DEF WriteNotification
<1>1. PushTyped' BY DEF PushInv, PushTyped, Workers
<1>2. WritingOK'
  <2>1. n \in Int BY DEF Notes
  <2>2. note[n].user = NoUser BY <2>1
  <2>3. writing' = [user |-> u, at |-> n, rows |-> {n} \X DevicesOf(u)] OBVIOUS
  <2>4. DevicesOf(u) \subseteq Devices BY DEF DevicesOf
  <2>5. {n} \X DevicesOf(u) \subseteq {n} \X Devices BY <2>4
  <2> QED BY <2>2, <2>3, <2>5 DEF WritingOK
<1>3. Grows /\ \A j \in Jobs : Sound(j)' /\ Place(j)' <= Place(j) BY JobsStay
<1> QED BY <1>1, <1>2, <1>3, Quiet

LEMMA CommitNotificationKeeps == ASSUME PushInv, CommitNotification PROVE PushInv'
<1> USE DEF CommitNotification
<1>1. /\ writing.at \in Notes /\ writing.user \in Users /\ note[writing.at].user = NoUser
      /\ writing.rows \subseteq {writing.at} \X Devices
  BY DEF PushInv, WritingOK
<1>2. PICK n \in Notes : n = writing.at BY <1>1
<1>3. PICK u \in Users : u = writing.user BY <1>1
<1>4. note' = [note EXCEPT ![n] = [user |-> u, open |-> TRUE]] BY <1>2, <1>3
<1>5. note \in [Notes -> [user : Users \cup {NoUser}, open : BOOLEAN]] BY DEF PushInv, PushTyped
<1>6. note' \in [Notes -> [user : Users \cup {NoUser}, open : BOOLEAN]]
  <2>1. [user |-> u, open |-> TRUE] \in [user : Users \cup {NoUser}, open : BOOLEAN] OBVIOUS
  <2> HIDE DEF CommitNotification
  <2> QED BY <2>1, <1>4, <1>5
<1>7. u # NoUser /\ note'[n].user = u BY <1>4, <1>5, PushAssumption
<1>8. \A m \in Notes : note[m].user # NoUser => note'[m].user # NoUser BY <1>4, <1>5, <1>7
<1>9. \A j \in Jobs : j \in writing.rows =>
        note'[j[1]].user # NoUser /\ (j \in PhoneJobs \/ note[j[1]].user = NoUser)
  BY <1>1, <1>2, <1>7
<1>10. /\ job' \in [Jobs -> JobRow] /\ Grows
       /\ \A j \in Jobs : Sound(j)' /\ Place(j)' <= Place(j)
  BY <1>8, <1>9, Queueing
<1>11. PushTyped' BY <1>6, <1>10 DEF PushInv, PushTyped, Workers
<1>12. WritingOK' BY DEF WritingOK
<1> QED BY <1>10, <1>11, <1>12, Quiet

LEMMA TestKeeps ==
    ASSUME PushInv, NEW n \in Notes, NEW d \in Devices, Test(n, d) PROVE PushInv'
<1> USE DEF Test
<1>1. device[d].user \in Users BY DEF PushInv, PushTyped
<1>2. PICK u \in Users : u = device[d].user BY <1>1
<1>3. note' = [note EXCEPT ![n] = [user |-> u, open |-> FALSE]] BY <1>2
<1>4. note \in [Notes -> [user : Users \cup {NoUser}, open : BOOLEAN]] BY DEF PushInv, PushTyped
<1>5. note' \in [Notes -> [user : Users \cup {NoUser}, open : BOOLEAN]] BY <1>3, <1>4
<1>6. u # NoUser /\ note'[n].user = u BY <1>3, <1>4, PushAssumption
<1>7. \A m \in Notes : note[m].user # NoUser => note'[m].user # NoUser BY <1>3, <1>4, <1>6
<1>8. note[n].user = NoUser
  <2>1. n \in Int BY DEF Notes
  <2> QED BY <2>1
<1>9. \A j \in Jobs : j \in {<<n, d>>} =>
        note'[j[1]].user # NoUser /\ (j \in PhoneJobs \/ note[j[1]].user = NoUser)
  BY <1>6, <1>8
<1>10. /\ job' \in [Jobs -> JobRow] /\ Grows
       /\ \A j \in Jobs : Sound(j)' /\ Place(j)' <= Place(j)
  BY <1>7, <1>9, Queueing
<1>11. PushTyped' BY <1>5, <1>10 DEF PushInv, PushTyped, Workers
<1>12. WritingOK' BY DEF WritingOK
<1> QED BY <1>10, <1>11, <1>12, Quiet

LEMMA CloseNotificationKeeps ==
    ASSUME PushInv, NEW n \in Notes, CloseNotification(n) PROVE PushInv'
<1> USE DEF CloseNotification
<1>1. note \in [Notes -> [user : Users \cup {NoUser}, open : BOOLEAN]] BY DEF PushInv, PushTyped
<1>2. /\ note' \in [Notes -> [user : Users \cup {NoUser}, open : BOOLEAN]]
      /\ \A m \in Notes : note'[m].user = note[m].user
  BY <1>1
<1>3. Grows /\ \A j \in Jobs : Sound(j)' /\ Place(j)' <= Place(j) BY <1>2, JobsStay
<1>4. PushTyped' BY <1>2 DEF PushInv, PushTyped, Workers
<1>5. WritingOK' BY <1>2 DEF PushInv, WritingOK
<1> QED BY <1>3, <1>4, <1>5, Quiet

LEMMA DeviceTyped ==
    ASSUME PushInv, NEW d \in Devices, NEW row,
           device' = [device EXCEPT ![d] = row],
           row \in [user : Users \cup {NoUser}, enabled : BOOLEAN, users : SUBSET Users],
           row.enabled => row.user \in Users
    PROVE  /\ device' \in [Devices -> [user : Users \cup {NoUser}, enabled : BOOLEAN,
                                     users : SUBSET Users]]
           /\ \A e \in Devices : device'[e].enabled => device'[e].user \in Users
<1>1. device \in [Devices -> [user : Users \cup {NoUser}, enabled : BOOLEAN, users : SUBSET Users]]
  BY DEF PushInv, PushTyped
<1>2. \A e \in Devices : device[e].enabled => device[e].user \in Users BY DEF PushInv, PushTyped
<1> QED BY <1>1, <1>2

LEMMA Signed ==
    ASSUME PushInv, NEW u \in Users, NEW d \in Devices, SignIn(u, d)
    PROVE  /\ device' \in [Devices -> [user : Users \cup {NoUser}, enabled : BOOLEAN,
                                     users : SUBSET Users]]
           /\ \A e \in Devices : device'[e].enabled => device'[e].user \in Users
<1>1. device[d] \in [user : Users \cup {NoUser}, enabled : BOOLEAN, users : SUBSET Users]
  BY DEF PushInv, PushTyped
<1>2. PICK row : row = [device[d] EXCEPT !.user = u, !.enabled = TRUE] OBVIOUS
<1>3. /\ row \in [user : Users \cup {NoUser}, enabled : BOOLEAN, users : SUBSET Users]
      /\ row.user = u
  BY <1>1, <1>2
<1>4. device' = [device EXCEPT ![d] = row]
  <2>1. device \in [Devices -> [user : Users \cup {NoUser}, enabled : BOOLEAN, users : SUBSET Users]]
    BY DEF PushInv, PushTyped
  <2>2. device' = [device EXCEPT ![d].user = u, ![d].enabled = TRUE] BY DEF SignIn
  <2> QED BY <2>1, <2>2, <1>2
<1> QED BY <1>3, <1>4, DeviceTyped

LEMMA Disabled ==
    ASSUME PushInv, NEW d \in Devices, device' = [device EXCEPT ![d].enabled = FALSE]
    PROVE  /\ device' \in [Devices -> [user : Users \cup {NoUser}, enabled : BOOLEAN,
                                     users : SUBSET Users]]
           /\ \A e \in Devices : device'[e].enabled => device'[e].user \in Users
<1>1. device[d] \in [user : Users \cup {NoUser}, enabled : BOOLEAN, users : SUBSET Users]
  BY DEF PushInv, PushTyped
<1>2. PICK row : row = [device[d] EXCEPT !.enabled = FALSE] OBVIOUS
<1>3. /\ row \in [user : Users \cup {NoUser}, enabled : BOOLEAN, users : SUBSET Users]
      /\ ~row.enabled
  BY <1>1, <1>2
<1>4. device' = [device EXCEPT ![d] = row] BY <1>2
<1> QED BY <1>3, <1>4, DeviceTyped

LEMMA RegisterPhoneKeeps ==
    ASSUME PushInv, NEW u \in Users, NEW d \in Devices, RegisterPhone(u, d) PROVE PushInv'
<1>1. /\ SignIn(u, d) /\ d \in Phones
      /\ UNCHANGED <<note, writing, worker, tickets, receipts, credit, faults>>
      /\ job' = Enqueue({n \in Notes : note[n] = [user |-> u, open |-> TRUE]} \X {d})
  BY DEF RegisterPhone, SignIn
<1>2. \A j \in Jobs : j \in {n \in Notes : note[n] = [user |-> u, open |-> TRUE]} \X {d} =>
        note'[j[1]].user # NoUser /\ (j \in PhoneJobs \/ note[j[1]].user = NoUser)
  BY <1>1, PhoneJob, PushAssumption
<1>3. /\ job' \in [Jobs -> JobRow] /\ Grows
      /\ \A j \in Jobs : Sound(j)' /\ Place(j)' <= Place(j)
  BY <1>1, <1>2, Queueing
<1>4. PushTyped' BY <1>1, <1>3, Signed DEF PushInv, PushTyped, Workers
<1>5. WritingOK' BY <1>1 DEF PushInv, WritingOK
<1> QED BY <1>1, <1>3, <1>4, <1>5, Quiet

LEMMA RegisterBrowserKeeps ==
    ASSUME PushInv, NEW u \in Users, NEW d \in Devices, RegisterBrowser(u, d) PROVE PushInv'
<1>1. /\ SignIn(u, d) /\ d \in Browsers
      /\ UNCHANGED <<note, writing, worker, tickets, receipts, credit, faults>>
      /\ job' = [j \in Jobs |-> IF j[2] = d /\ device[d].user # u THEN NoJob ELSE job[j]]
  BY DEF RegisterBrowser, SignIn
<1>2. job \in [Jobs -> JobRow] BY DEF PushInv, PushTyped
<1>3. job' \in [Jobs -> JobRow] BY <1>1, <1>2 DEF NoJob, JobRow
<1>4. \A j \in PhoneJobs : job'[j] = job[j]
  <2>1. \A j \in PhoneJobs : j \in Jobs /\ j[2] # d BY <1>1, PhoneJob, PhonesAreJobs, PushAssumption
  <2> QED BY <2>1, <1>1
<1>5. Grows
  <2>1. \A j \in PhoneJobs : job[j].tries \in Nat BY <1>2, PhonesAreJobs DEF JobRow
  <2> QED BY <2>1, <1>4 DEF Grows
<1>6. ASSUME NEW j \in Jobs PROVE Sound(j)' /\ Place(j)' <= Place(j)
  <2>1. Sound(j) BY DEF PushInv
  <2>2. CASE job'[j] = job[j]
    <3>1. Sound(j)' BY <2>1, <2>2, <1>1 DEF Sound
    <3>2. Waits(j)' <=> Waits(j) BY <2>2, <1>1 DEF Waits
    <3> QED BY <3>1, <3>2 DEF Place
  <2>3. CASE job'[j] # job[j]
    <3>1. job'[j] = NoJob BY <2>3, <1>1
    <3>2. j \notin PhoneJobs BY <2>3, <1>4
    <3>3. Sound(j)' BY <3>1, <3>2 DEF Sound, NoJob
    <3>4. Waits(j)' => Waits(j) BY <3>1, <3>2, <2>1, <1>1 DEF Waits, NoJob, Sound
    <3> QED BY <3>3, <3>4 DEF Place
  <2> QED BY <2>2, <2>3
<1>7. PushTyped' BY <1>1, <1>3, Signed DEF PushInv, PushTyped, Workers
<1>8. WritingOK' BY <1>1 DEF PushInv, WritingOK
<1> QED BY <1>1, <1>5, <1>6, <1>7, <1>8, Quiet

LEMMA UnregisterPhoneKeeps ==
    ASSUME PushInv, NEW d \in Devices, UnregisterPhone(d) PROVE PushInv'
<1>1. /\ device' = [device EXCEPT ![d].enabled = FALSE]
      /\ UNCHANGED <<job, note, writing, worker, tickets, receipts, credit, faults>>
  BY DEF UnregisterPhone, SignOut
<1>2. Grows /\ \A j \in Jobs : Sound(j)' /\ Place(j)' <= Place(j) BY <1>1, JobsStay
<1>3. PushTyped' BY <1>1, Disabled DEF PushInv, PushTyped, Workers
<1>4. WritingOK' BY <1>1 DEF PushInv, WritingOK
<1> QED BY <1>1, <1>2, <1>3, <1>4, Quiet

LEMMA UnregisterBrowserKeeps ==
    ASSUME PushInv, NEW d \in Devices, UnregisterBrowser(d) PROVE PushInv'
<1>1. /\ device' = [device EXCEPT ![d].enabled = FALSE] /\ d \in Browsers
      /\ UNCHANGED <<note, writing, worker, tickets, receipts, credit, faults>>
      /\ job' = [j \in Jobs |-> IF j[2] = d /\ job[j].st \in {"pending", "retry"}
                                THEN [job[j] EXCEPT !.st = "cancelled"] ELSE job[j]]
  BY DEF UnregisterBrowser, SignOut, CancelQueue
<1>2. job \in [Jobs -> JobRow] BY DEF PushInv, PushTyped
<1>3. ASSUME NEW j \in Jobs
      PROVE  /\ job'[j] \in JobRow
             /\ job'[j] # job[j] => /\ job[j].st # "none" /\ job'[j].st = "cancelled"
                                    /\ j \notin PhoneJobs
  <2>1. job[j] \in JobRow BY <1>2
  <2>2. CASE j[2] = d /\ job[j].st \in {"pending", "retry"}
    <3>1. job'[j] = [job[j] EXCEPT !.st = "cancelled"] BY <2>2, <1>1
    <3>2. j \notin PhoneJobs BY <2>2, <1>1, PhoneJob, PushAssumption
    <3> QED BY <2>1, <2>2, <3>1, <3>2 DEF JobRow
  <2>3. CASE ~(j[2] = d /\ job[j].st \in {"pending", "retry"})
    BY <2>1, <2>3, <1>1
  <2> QED BY <2>2, <2>3
<1>4. job' \in [Jobs -> JobRow] BY <1>1, <1>3
<1>5. Grows
  <2>1. \A j \in PhoneJobs : job[j].tries \in Nat /\ job'[j] = job[j]
    BY <1>2, <1>3, PhonesAreJobs DEF JobRow
  <2> QED BY <2>1 DEF Grows
<1>6. ASSUME NEW j \in Jobs PROVE Sound(j)' /\ Place(j)' <= Place(j)
  <2>1. Sound(j) BY DEF PushInv
  <2>2. CASE job'[j] = job[j]
    <3>1. Sound(j)' BY <2>1, <2>2, <1>1 DEF Sound
    <3>2. Waits(j)' <=> Waits(j) BY <2>2, <1>1 DEF Waits
    <3> QED BY <3>1, <3>2 DEF Place
  <2>3. CASE job'[j] # job[j]
    <3>1. job[j].st # "none" /\ job'[j].st = "cancelled" /\ j \notin PhoneJobs BY <2>3, <1>3
    <3>2. Sound(j)' BY <3>1, <2>1, <1>1 DEF Sound
    <3>3. ~Waits(j)' BY <3>1 DEF Waits
    <3> QED BY <3>2, <3>3 DEF Place
  <2> QED BY <2>2, <2>3
<1>7. PushTyped' BY <1>1, <1>4, Disabled DEF PushInv, PushTyped, Workers
<1>8. WritingOK' BY <1>1 DEF PushInv, WritingOK
<1> QED BY <1>1, <1>5, <1>6, <1>7, <1>8, Quiet

LEMMA MaterializeKeeps == ASSUME PushInv, Materialize PROVE PushInv'
<1>1. PICK rows : /\ rows = {j \in PhoneJobs : note[j[1]].open /\ j[2] \in DevicesOf(note[j[1]].user)}
                  /\ job' = Enqueue(rows)
                  /\ UNCHANGED <<device, note, writing, worker, tickets, receipts, credit, faults>>
  BY DEF Materialize
<1>2. \A j \in Jobs : j \in rows =>
        note'[j[1]].user # NoUser /\ (j \in PhoneJobs \/ note[j[1]].user = NoUser)
  <2> SUFFICES ASSUME NEW j \in Jobs, j \in rows PROVE note[j[1]].user # NoUser /\ j \in PhoneJobs
    BY <1>1
  <2>1. j \in PhoneJobs /\ j[2] \in DevicesOf(note[j[1]].user) BY <1>1
  <2>2. j[2] \in Devices /\ device[j[2]].enabled /\ device[j[2]].user = note[j[1]].user
    BY <2>1 DEF DevicesOf
  <2>3. device[j[2]].user \in Users BY <2>2 DEF PushInv, PushTyped
  <2> QED BY <2>1, <2>2, <2>3, PushAssumption
<1>3. /\ job' \in [Jobs -> JobRow] /\ Grows
      /\ \A j \in Jobs : Sound(j)' /\ Place(j)' <= Place(j)
  BY <1>1, <1>2, Queueing
<1>4. PushTyped' BY <1>1, <1>3 DEF PushInv, PushTyped, Workers
<1>5. WritingOK' BY <1>1 DEF PushInv, WritingOK
<1> QED BY <1>1, <1>3, <1>4, <1>5, Quiet

------------------------------------------------------------------------------
(* The steps: claims that lapse, and receipts.                                *)

\* The jobs that have a ticket or a receipt are queued phones.
LEMMA Receivers ==
    ASSUME PushInv
    PROVE  /\ \A i \in DOMAIN tickets : tickets[i].job \in PhoneJobs /\ job[tickets[i].job].st # "none"
           /\ \A a \in receipts : a[1] \in PhoneJobs /\ job[a[1]].st # "none"
<1>1. \A i \in DOMAIN tickets : tickets[i].job \in PhoneJobs
  <2>1. tickets \in [1 .. Len(tickets) -> Ticket] BY LenProperties DEF PushInv, PushTyped
  <2> QED BY <2>1 DEF Ticket
<1>2. \A a \in receipts : a[1] \in PhoneJobs BY DEF PushInv, PushTyped
<1> QED BY <1>1, <1>2 DEF PushInv, QueuedOnce

LEMMA LapseKeeps == ASSUME PushInv, NEW j \in Jobs, Lapse(j) PROVE PushInv'
<1>1. /\ job[j].st = "sending" /\ job' = Set(j, "retry")
      /\ faults' \in {faults, faults + 1} /\ (faults' # faults => faults < MaxFaults)
      /\ credit' = [credit EXCEPT ![j] = @ + 1]
      /\ UNCHANGED <<device, note, writing, worker, tickets, receipts>>
  BY DEF Lapse
<1>2. /\ job' \in [Jobs -> JobRow] /\ Grows
      /\ \A x \in Jobs : Sound(x)' /\ (x # j => Place(x)' = Place(x))
  BY <1>1, StateSet
<1>3. credit \in [Jobs -> Int] BY DEF PushInv, PushTyped
<1>4. /\ credit' \in [Jobs -> Int] /\ credit'[j] = credit[j] + 1
      /\ \A x \in Jobs : x # j => credit'[x] = credit[x]
  BY <1>1, <1>3
<1>5. faults' \in 0 .. MaxFaults
  <2>1. faults \in 0 .. MaxFaults BY DEF PushInv, PushTyped
  <2> QED BY <2>1, <1>1, PushAssumption
<1>6. PushTyped' BY <1>1, <1>2, <1>4, <1>5 DEF PushInv, PushTyped, Workers
<1>7. WritingOK' BY <1>1 DEF PushInv, WritingOK
<1>8. ASSUME NEW x \in Jobs PROVE Place(x)' - Place(x) <= credit'[x] - credit[x]
  <2>1. Place(x) \in {0, 1} /\ Place(x)' \in {0, 1} BY DEF Place
  <2>2. credit[x] \in Int BY <1>3
  <2>3. CASE x = j BY <2>1, <2>2, <2>3, <1>4
  <2>4. CASE x # j
    <3>1. Place(x)' = Place(x) /\ credit'[x] = credit[x] BY <2>4, <1>2, <1>4
    <3> QED BY <3>1, <2>1, <2>2
  <2> QED BY <2>3, <2>4
<1>9. OneEach(tickets)' /\ QueuedOnce' BY <1>1, <1>2, ListsStay
<1> QED BY <1>1, <1>2, <1>6, <1>7, <1>8, <1>9, Kept

LEMMA ExpireKeeps == ASSUME PushInv, NEW j \in Jobs, Expire(j) PROVE PushInv'
<1>1. /\ j[2] \in Browsers /\ job[j].st # "none" /\ job' = Set(j, "expired")
      /\ UNCHANGED <<device, note, writing, worker, tickets, receipts, credit, faults>>
  BY DEF Expire
<1>2. j \notin PhoneJobs BY <1>1, PhoneJob, PushAssumption
<1>3. /\ job' \in [Jobs -> JobRow] /\ Grows
      /\ \A x \in Jobs : Sound(x)' /\ (x # j => Place(x)' = Place(x))
      /\ Place(j)' = 0
  BY <1>1, <1>2, StateSet
<1>4. \A x \in Jobs : Place(x)' <= Place(x)
  <2> SUFFICES ASSUME NEW x \in Jobs PROVE Place(x)' <= Place(x) OBVIOUS
  <2>1. Place(x) \in {0, 1} BY DEF Place
  <2>2. CASE x = j BY <2>1, <2>2, <1>3
  <2>3. CASE x # j BY <2>1, <2>3, <1>3
  <2> QED BY <2>2, <2>3
<1>5. PushTyped' BY <1>1, <1>3 DEF PushInv, PushTyped, Workers
<1>6. WritingOK' BY <1>1 DEF PushInv, WritingOK
<1> QED BY <1>1, <1>3, <1>4, <1>5, <1>6, Quiet

LEMMA SaveReceiptKeeps == ASSUME PushInv, NEW j \in Jobs, SaveReceipt(j) PROVE PushInv'
<1>1. PICK a \in {"ok", "gone", "error"} :
        /\ <<j, a>> \in receipts
        /\ receipts' = receipts \ {<<j, a>>}
        /\ IF a = "gone"
           THEN Disable(j[2]) /\ job' = Set(j, "disabled")
           ELSE /\ job' = [job EXCEPT ![j].st = IF a = "ok" THEN "delivered" ELSE "failed",
                                      ![j].checked = TRUE]
                /\ UNCHANGED device
        /\ tickets' = OtherTickets(j)
        /\ UNCHANGED <<note, writing, worker, credit, faults>>
  BY DEF SaveReceipt
<1>2. j \in PhoneJobs /\ job[j].st # "none" /\ j[2] \in Devices
  <2>1. j \in PhoneJobs /\ job[j].st # "none" BY <1>1, Receivers
  <2> QED BY <2>1 DEF Jobs
<1>3. job \in [Jobs -> JobRow] BY DEF PushInv, PushTyped
<1>4. /\ job' \in [Jobs -> JobRow] /\ Grows
      /\ \A x \in Jobs : Sound(x)' /\ (x # j => Place(x)' = Place(x))
      /\ \A x \in Jobs : job[x].st # "none" => job'[x].st # "none"
      /\ Place(j)' = 0
  <2>1. CASE a = "gone"
    <3>1. job' = Set(j, "disabled") BY <2>1, <1>1
    <3> QED BY <3>1, <1>1, <1>2, StateSet
  <2>2. CASE a # "gone"
    <3>1. PICK row : row = [job[j] EXCEPT !.st = IF a = "ok" THEN "delivered" ELSE "failed",
                                          !.checked = TRUE]
      OBVIOUS
    <3>2. /\ row \in JobRow /\ row.st \in {"delivered", "failed"} /\ row.checked
          /\ row.tries = job[j].tries
      BY <3>1, <1>3 DEF JobRow
    <3>3. job' = [job EXCEPT ![j] = row] BY <2>2, <3>1, <1>1, <1>3
    <3> QED BY <3>2, <3>3, <1>1, <1>2, Marked
  <2> QED BY <2>1, <2>2
<1>5. /\ device' \in [Devices -> [user : Users \cup {NoUser}, enabled : BOOLEAN,
                                users : SUBSET Users]]
      /\ \A e \in Devices : device'[e].enabled => device'[e].user \in Users
  <2>1. CASE a = "gone"
    <3>1. device' = [device EXCEPT ![j[2]].enabled = FALSE] BY <2>1, <1>1 DEF Disable
    <3> QED BY <3>1, <1>2, Disabled
  <2>2. CASE a # "gone"
    <3>1. device' = device BY <2>2, <1>1
    <3> QED BY <3>1 DEF PushInv, PushTyped
  <2> QED BY <2>1, <2>2
<1>6. /\ tickets' \in Seq(Ticket) /\ OneEach(tickets')
      /\ \A i \in DOMAIN tickets' : \E m \in DOMAIN tickets : tickets'[i] = tickets[m]
  BY <1>1, OtherTicketsOnly DEF PushInv, PushTyped
<1>7. PushTyped' BY <1>1, <1>4, <1>5, <1>6 DEF PushInv, PushTyped, Workers
<1>8. WritingOK' BY <1>1 DEF PushInv, WritingOK
<1>9. OneEach(tickets)' BY <1>6 DEF OneEach
<1>10. QueuedOnce'
  <2>1. \A i \in DOMAIN tickets' : job'[tickets'[i].job].st # "none"
    <3> SUFFICES ASSUME NEW i \in DOMAIN tickets' PROVE job'[tickets'[i].job].st # "none" OBVIOUS
    <3>1. PICK m \in DOMAIN tickets : tickets'[i] = tickets[m] BY <1>6
    <3>2. tickets[m].job \in Jobs /\ job[tickets[m].job].st # "none" BY Receivers, PhonesAreJobs
    <3> QED BY <3>1, <3>2, <1>4
  <2>2. \A b \in receipts' : job'[b[1]].st # "none"
    <3>1. \A b \in receipts' : b \in receipts BY <1>1
    <3> QED BY <3>1, <1>4, Receivers, PhonesAreJobs
  <2> QED BY <2>1, <2>2 DEF QueuedOnce
<1>11. ASSUME NEW x \in Jobs PROVE Place(x)' - Place(x) <= credit'[x] - credit[x]
  <2>1. Place(x) \in {0, 1} BY DEF Place
  <2>2. credit[x] \in Int /\ credit'[x] = credit[x] BY <1>1 DEF PushInv, PushTyped
  <2>3. Place(x)' = Place(x) \/ Place(x)' = 0
    <3>1. CASE x = j BY <3>1, <1>4
    <3>2. CASE x # j BY <3>2, <1>4
    <3> QED BY <3>1, <3>2
  <2> QED BY <2>1, <2>2, <2>3
<1>12. \A x \in Jobs : Sound(x)' BY <1>4
<1> QED BY <1>1, <1>4, <1>7, <1>8, <1>9, <1>10, <1>11, <1>12, Kept

LEMMA FetchReceiptsKeeps == ASSUME PushInv, FetchReceipts PROVE PushInv'
<1>1. UNCHANGED <<device, note, job, writing, worker, tickets, credit, faults>>
  BY DEF FetchReceipts
<1>2. \A a \in receipts' : /\ a \in PhoneJobs \X {"ok", "gone", "error"}
                           /\ \E i \in DOMAIN tickets : tickets[i].job = a[1]
  <2>1. PICK js \in (SUBSET {k.job : k \in Oldest \ Lost(tickets)}) \ {{}} :
          \E answer \in [js -> {"ok", "gone", "error"}] :
            receipts' = {<<j, answer[j]>> : j \in js}
    BY DEF FetchReceipts
  <2>2. PICK answer \in [js -> {"ok", "gone", "error"}] : receipts' = {<<j, answer[j]>> : j \in js}
    BY <2>1
  <2>3. \A k \in Oldest : \E i \in DOMAIN tickets : tickets[i] = k
    <3>1. tickets \in Seq(Ticket) /\ Len(tickets) \in Nat /\ DOMAIN tickets = 1 .. Len(tickets)
      BY LenProperties DEF PushInv, PushTyped
    <3>2. PICK n : n = IF Len(tickets) < ReceiptBatch THEN Len(tickets) ELSE ReceiptBatch OBVIOUS
    <3>3. n \in Nat /\ n <= Len(tickets) BY <3>1, <3>2, PushAssumption
    <3>4. PICK s : s = SubSeq(tickets, 1, n) OBVIOUS
    <3>5. \A i \in 1 .. n : i \in DOMAIN tickets BY <3>1, <3>3
    <3>6. \A i \in 1 .. n : tickets[i] \in Ticket BY <3>1, <3>5, ElementOfSeq
    <3>7. /\ s \in Seq(Ticket) /\ Len(s) = IF 1 <= n THEN n - 1 + 1 ELSE 0
          /\ \A i \in 1 .. n - 1 + 1 : s[i] = tickets[1 + i - 1]
      BY <3>3, <3>4, <3>6, SubSeqProperties
    <3>8. DOMAIN s = 1 .. n /\ \A i \in 1 .. n : s[i] = tickets[i]
      <4>1. Len(s) = n BY <3>3, <3>7
      <4>2. DOMAIN s = 1 .. n BY <4>1, <3>7, LenProperties
      <4>3. \A i \in 1 .. n : i \in 1 .. n - 1 + 1 /\ 1 + i - 1 = i BY <3>3
      <4> QED BY <4>2, <4>3, <3>7
    <3>9. Oldest = {s[i] : i \in DOMAIN s} BY <3>2, <3>4 DEF Oldest, ToSet
    <3> QED BY <3>5, <3>8, <3>9
  <2>4. \A j \in js : \E i \in DOMAIN tickets : tickets[i].job = j
    <3>1. \A j \in js : \E k \in Oldest : k.job = j OBVIOUS
    <3> QED BY <3>1, <2>3
  <2>5. \A j \in js : j \in PhoneJobs BY <2>4, Receivers
  <2> QED BY <2>2, <2>4, <2>5
<1>3. Grows /\ \A j \in Jobs : Sound(j)' /\ Place(j)' <= Place(j) BY <1>1, JobsStay
<1>4. receipts' \subseteq PhoneJobs \X {"ok", "gone", "error"} BY <1>2
<1>5. PushTyped' BY <1>1, <1>4 DEF PushInv, PushTyped, Workers
<1>6. WritingOK' BY <1>1 DEF PushInv, WritingOK
<1>7. OneEach(tickets)' BY <1>1 DEF PushInv, OneEach
<1>8. QueuedOnce'
  <2>1. \A a \in receipts' : job[a[1]].st # "none" BY <1>2, Receivers
  <2> QED BY <2>1, <1>1 DEF PushInv, QueuedOnce
<1>9. ASSUME NEW j \in Jobs PROVE Place(j)' - Place(j) <= credit'[j] - credit[j]
  <2>1. Place(j) \in {0, 1} /\ Place(j)' \in {0, 1} /\ Place(j)' <= Place(j) BY <1>3 DEF Place
  <2>2. credit[j] \in Int /\ credit'[j] = credit[j] BY <1>1 DEF PushInv, PushTyped
  <2> QED BY <2>1, <2>2
<1>10. \A j \in Jobs : Sound(j)' BY <1>3
<1> QED BY <1>1, <1>3, <1>5, <1>6, <1>7, <1>8, <1>9, <1>10, Kept

LEMMA DropReceiptsKeeps == ASSUME PushInv, DropReceipts PROVE PushInv'
<1>1. /\ receipts' = {} /\ faults < MaxFaults /\ faults' = faults + 1
      /\ UNCHANGED <<device, note, job, writing, worker, tickets, credit>>
  BY DEF DropReceipts
<1>2. Grows /\ \A j \in Jobs : Sound(j)' /\ Place(j)' <= Place(j) BY <1>1, JobsStay
<1>3. faults' \in 0 .. MaxFaults
  <2>1. faults \in 0 .. MaxFaults BY DEF PushInv, PushTyped
  <2> QED BY <2>1, <1>1, PushAssumption
<1>4. PushTyped' BY <1>1, <1>3 DEF PushInv, PushTyped, Workers
<1>5. WritingOK' BY <1>1 DEF PushInv, WritingOK
<1>6. OneEach(tickets)' BY <1>1 DEF PushInv, OneEach
<1>7. QueuedOnce' BY <1>1 DEF PushInv, QueuedOnce
<1>8. ASSUME NEW j \in Jobs PROVE Place(j)' - Place(j) <= credit'[j] - credit[j]
  <2>1. Place(j) \in {0, 1} /\ Place(j)' \in {0, 1} /\ Place(j)' <= Place(j) BY <1>2 DEF Place
  <2>2. credit[j] \in Int /\ credit'[j] = credit[j] BY <1>1 DEF PushInv, PushTyped
  <2> QED BY <2>1, <2>2
<1>9. \A j \in Jobs : Sound(j)' BY <1>2
<1> QED BY <1>1, <1>2, <1>4, <1>5, <1>6, <1>7, <1>8, <1>9, Kept

------------------------------------------------------------------------------
(* The steps: a pass claims, sends and saves.                                 *)

\* A pass knows what it goes on with as it knew it before.
LEMMA Went ==
    ASSUME NEW w \in Workers, NEW rest, NEW answers, Goto(w, rest, answers),
           NEW new, new = worker'[w]
    PROVE  /\ worker' = [worker EXCEPT ![w] = new] /\ new.plan = rest /\ new.save = answers
           /\ \A j : InPlan(new, j) \/ InSave(new, j) =>
                j \in DOMAIN new.known /\ new.known[j] = worker[w].known[j]
<1>1. PICK left : left = (UNION {ToSet(rest[i]) : i \in DOMAIN rest})
                             \cup {a[1] : a \in ToSet(answers)}
  OBVIOUS
<1>2. PICK row : row = [plan |-> rest, save |-> answers, known |-> Restrict(worker[w].known, left)]
  OBVIOUS
<1>3. worker' = [worker EXCEPT ![w] = row] BY <1>1, <1>2 DEF Goto
<1>4. new = row BY <1>3 DEF Workers
<1>5. new.plan = rest /\ new.save = answers /\ new.known = [x \in left |-> worker[w].known[x]]
  BY <1>2, <1>4 DEF Restrict
<1>6. ASSUME NEW j, InPlan(new, j) PROVE j \in left
  <2>1. PICK i \in DOMAIN rest : \E m \in DOMAIN rest[i] : rest[i][m] = j
    BY <1>5, <1>6 DEF InPlan, Names
  <2>2. j \in ToSet(rest[i]) /\ i \in DOMAIN rest BY <2>1 DEF ToSet
  <2>3. j \in UNION {ToSet(rest[x]) : x \in DOMAIN rest} BY ONLY <2>2
  <2> QED BY ONLY <2>3, <1>1
<1>7. ASSUME NEW j, InSave(new, j) PROVE j \in left
  <2>1. PICK a \in DOMAIN answers : answers[a][1] = j BY <1>5, <1>7 DEF InSave
  <2>2. answers[a] \in ToSet(answers) BY DEF ToSet
  <2>3. j \in {b[1] : b \in ToSet(answers)} BY ONLY <2>1, <2>2
  <2> QED BY ONLY <2>3, <1>1
<1> QED BY <1>3, <1>4, <1>5, <1>6, <1>7

LEMMA StillNamed ==
    ASSUME PushInv, PushTyped', Grows, NEW w \in Workers, NEW new, PassShape(new), RefusedOK(new),
           \A j : InPlan(new, j) \/ InSave(new, j) =>
                    /\ j \in DOMAIN new.known /\ new.known[j] = worker[w].known[j]
                    /\ InPlan(worker[w], j) \/ InSave(worker[w], j)
    PROVE  PassOK(new)'
<1>1. PICK k : k = worker[w] OBVIOUS
<1>2. PassOK(k) /\ PushTyped /\ \A j \in Jobs : Sound(j) BY <1>1 DEF PushInv
<1>3. PassOK(k)' BY <1>2, StillKnown
<1>4. ASSUME NEW j \in PhoneJobs, InPlan(new, j) \/ InSave(new, j)
      PROVE  j \in DOMAIN new.known /\ new.known[j] \in Nat /\ new.known[j] + 1 <= job'[j].tries
  <2>1. InPlan(k, j) \/ InSave(k, j) BY <1>1, <1>4
  <2>2. k.known[j] \in Nat /\ k.known[j] + 1 <= job'[j].tries BY <2>1, <1>3 DEF PassOK, KnownOK
  <2>3. j \in DOMAIN new.known /\ new.known[j] = k.known[j] BY <1>1, <1>4
  <2> QED BY <2>2, <2>3
<1>5. KnownOK(new)' BY <1>4 DEF KnownOK
<1>6. PassShape(new)' /\ RefusedOK(new)' BY DEF PassShape, RefusedOK
<1> QED BY <1>5, <1>6 DEF PassOK

\* What a pass does while it sends changes only the pass and the credit.
LEMMA Sent ==
    ASSUME PushInv, NEW w \in Workers, NEW new, worker' = [worker EXCEPT ![w] = new],
           PassShape(new), RefusedOK(new),
           \A j : InPlan(new, j) \/ InSave(new, j) =>
                    /\ j \in DOMAIN new.known /\ new.known[j] = worker[w].known[j]
                    /\ InPlan(worker[w], j) \/ InSave(worker[w], j),
           UNCHANGED <<device, note, job, writing, tickets, receipts, faults>>,
           credit' \in [Jobs -> Int],
           \A j \in Jobs : Load(new, j) - Load(worker[w], j) <= credit'[j] - credit[j]
    PROVE  PushInv'
<1>1. Grows /\ \A j \in Jobs : Sound(j)' /\ Place(j)' <= Place(j) BY JobsStay
<1>2. PushTyped' BY DEF PushInv, PushTyped, Workers
<1>3. WritingOK' BY DEF PushInv, WritingOK
<1>4. OneEach(tickets)' /\ QueuedOnce' BY <1>1, ListsStay
<1>5. PassOK(new)' BY <1>1, <1>2, StillNamed
<1>6. ASSUME NEW j \in Jobs
      PROVE  (Place(j)' + Load(new, j)) - (Place(j) + Load(worker[w], j)) <= credit'[j] - credit[j]
  <2>1. Place(j) \in {0, 1} /\ Place(j)' \in {0, 1} /\ Place(j)' <= Place(j) BY <1>1 DEF Place
  <2>2. Load(new, j) \in {0, 1} /\ Load(worker[w], j) \in {0, 1} BY DEF Load
  <2>3. credit[j] \in Int /\ credit'[j] \in Int BY DEF PushInv, PushTyped
  <2>4. Load(new, j) - Load(worker[w], j) <= credit'[j] - credit[j] OBVIOUS
  <2> QED BY <2>1, <2>2, <2>3, <2>4
<1>7. \A j \in Jobs : Sound(j)' BY <1>1
<1> QED BY <1>1, <1>2, <1>3, <1>4, <1>5, <1>6, <1>7, Moved

\* What it does while it saves leaves the credit alone.
LEMMA Stored ==
    ASSUME PushInv, NEW w \in Workers, NEW new, worker' = [worker EXCEPT ![w] = new],
           PassShape(new), RefusedOK(new),
           \A j : InPlan(new, j) \/ InSave(new, j) =>
                    /\ j \in DOMAIN new.known /\ new.known[j] = worker[w].known[j]
                    /\ InPlan(worker[w], j) \/ InSave(worker[w], j),
           UNCHANGED <<note, writing, receipts, credit, faults>>,
           device' \in [Devices -> [user : Users \cup {NoUser}, enabled : BOOLEAN,
                                  users : SUBSET Users]],
           \A d \in Devices : device'[d].enabled => device'[d].user \in Users,
           job' \in [Jobs -> JobRow], Grows, \A x \in Jobs : Sound(x)',
           tickets' \in Seq(Ticket), OneEach(tickets'),
           \A i \in DOMAIN tickets' : job'[tickets'[i].job].st # "none",
           \A x \in Jobs : Place(x)' + Load(new, x) <= Place(x) + Load(worker[w], x)
    PROVE  PushInv'
<1>1. PushTyped' BY DEF PushInv, PushTyped, Workers
<1>2. WritingOK' BY DEF PushInv, WritingOK
<1>3. OneEach(tickets)' BY DEF OneEach
<1>4. QueuedOnce'
  <2>1. \A a \in receipts : job'[a[1]].st # "none" BY Receivers DEF Grows
  <2> QED BY <2>1 DEF QueuedOnce
<1>5. PassOK(new)' BY <1>1, StillNamed
<1>6. ASSUME NEW j \in Jobs
      PROVE  (Place(j)' + Load(new, j)) - (Place(j) + Load(worker[w], j)) <= credit'[j] - credit[j]
  <2>1. Place(j) \in {0, 1} /\ Place(j)' \in {0, 1} BY DEF Place
  <2>2. Load(new, j) \in {0, 1} /\ Load(worker[w], j) \in {0, 1} BY DEF Load
  <2>3. credit[j] \in Int /\ credit'[j] = credit[j] BY DEF PushInv, PushTyped
  <2>4. Place(j)' + Load(new, j) <= Place(j) + Load(worker[w], j) OBVIOUS
  <2> QED BY <2>1, <2>2, <2>3, <2>4
<1> QED BY <1>1, <1>2, <1>3, <1>4, <1>5, <1>6, Moved

\* A claim takes the place in which the job waits.
LEMMA Taken ==
    ASSUME PushInv, NEW w \in Workers, NEW js, js \subseteq Jobs, \A j \in js : Due(j),
           NEW plan, Take(w, js, plan), NEW new, new = worker'[w], PassShape(new),
           \A j : InPlan(new, j) => j \in js, \A j : ~InSave(new, j) /\ ~ToRetry(new, j)
    PROVE  PushInv'
<1>1. /\ worker[w] = Idle
      /\ job' = [j \in Jobs |-> IF j \in js THEN [job[j] EXCEPT !.st = "sending", !.tries = @ + 1]
                                ELSE job[j]]
      /\ worker' = [worker EXCEPT ![w] = [plan |-> plan, known |-> [j \in js |-> job[j].tries],
                                          save |-> <<>>]]
      /\ UNCHANGED <<device, note, writing, tickets, receipts, credit, faults>>
  BY DEF Take
<1>2. worker' = [worker EXCEPT ![w] = new] /\ new.known = [j \in js |-> job[j].tries] /\ new.save = <<>>
  BY <1>1 DEF Workers
<1>3. job \in [Jobs -> JobRow] BY DEF PushInv, PushTyped
<1>4. ASSUME NEW j \in js
      PROVE  /\ job'[j] \in JobRow /\ job'[j].st = "sending" /\ job'[j].tries = job[j].tries + 1
             /\ job[j].tries \in Nat /\ job[j].st \in {"pending", "retry"}
  <2>1. job[j] \in JobRow /\ job'[j] = [job[j] EXCEPT !.st = "sending", !.tries = @ + 1]
    BY <1>1, <1>3
  <2>2. job[j].st \in {"pending", "retry"} BY DEF Due
  <2>3. job[j].tries \in Nat BY <2>1 DEF JobRow
  <2>4. job'[j].st = "sending" /\ job'[j].tries = job[j].tries + 1 BY <2>1 DEF JobRow
  <2>5. job'[j] = [st |-> "sending", tries |-> job[j].tries + 1, checked |-> job[j].checked]
    BY <2>1 DEF JobRow
  <2>6. job[j].tries + 1 \in Nat /\ job[j].checked \in BOOLEAN BY <2>1, <2>3 DEF JobRow
  <2>7. job'[j] \in JobRow BY <2>5, <2>6 DEF JobRow
  <2> QED BY <2>2, <2>3, <2>4, <2>7
<1>5. \A j \in Jobs : j \notin js => job'[j] = job[j] BY <1>1
<1>6. job' \in [Jobs -> JobRow]
  <2>1. \A j \in Jobs : job'[j] \in JobRow BY <1>3, <1>4, <1>5
  <2> QED BY <2>1, <1>1
<1>7. Grows
  <2> SUFFICES ASSUME NEW j \in PhoneJobs, job[j].st # "none"
               PROVE  job'[j].st # "none" /\ job'[j].tries >= job[j].tries
    BY DEF Grows
  <2>1. j \in Jobs /\ job[j].tries \in Nat BY PhonesAreJobs, <1>3 DEF JobRow
  <2>2. CASE j \in js BY <2>1, <2>2, <1>4
  <2>3. CASE j \notin js BY <2>1, <2>3, <1>5
  <2> QED BY <2>2, <2>3
<1>8. ASSUME NEW j \in Jobs PROVE Sound(j)'
  <2>1. Sound(j) BY DEF PushInv
  <2>2. CASE j \in js
    <3>1. note'[j[1]].user # NoUser BY <2>1, <2>2, <1>1, <1>4 DEF Sound
    <3> QED BY <2>2, <3>1, <1>4 DEF Sound
  <2>3. CASE j \notin js
    <3>1. job'[j] = job[j] /\ note' = note BY <2>3, <1>1, <1>5
    <3> QED BY <2>1, <3>1 DEF Sound
  <2> QED BY <2>2, <2>3
<1>9. PushTyped' BY <1>1, <1>6 DEF PushInv, PushTyped, Workers
<1>10. WritingOK' BY <1>1 DEF PushInv, WritingOK
<1>11. OneEach(tickets)' /\ QueuedOnce' BY <1>1, <1>7, ListsStay
<1>12. PassOK(new)'
  <2>1. ASSUME NEW j \in PhoneJobs, InPlan(new, j) \/ InSave(new, j)
        PROVE  j \in DOMAIN new.known /\ new.known[j] \in Nat /\ new.known[j] + 1 <= job'[j].tries
    <3>1. j \in js BY <2>1
    <3>2. j \in DOMAIN new.known /\ new.known[j] = job[j].tries BY <3>1, <1>2
    <3> QED BY <3>1, <3>2, <1>4
  <2>2. KnownOK(new)' BY <2>1 DEF KnownOK
  <2>3. DOMAIN new.save = {} BY <1>2, EmptySeq
  <2>4. PassShape(new)' /\ RefusedOK(new)' BY <2>3 DEF PassShape, RefusedOK
  <2> QED BY <2>2, <2>4 DEF PassOK
<1>13. ASSUME NEW j \in Jobs
       PROVE  (Place(j)' + Load(new, j)) - (Place(j) + Load(worker[w], j)) <= credit'[j] - credit[j]
  <2>1. credit[j] \in Int /\ credit'[j] = credit[j] BY <1>1 DEF PushInv, PushTyped
  <2>2. Load(worker[w], j) = 0 BY <1>1, IdlePass DEF Load, Carries
  <2>3. Place(j)' + Load(new, j) <= Place(j) /\ Place(j)' \in Int /\ Load(new, j) \in Int /\ Place(j) \in Int
    <3>1. CASE j \in js
      <4>1. Place(j) = 1 /\ Place(j)' = 0 BY <3>1, <1>4 DEF Place, Waits
      <4>2. Load(new, j) \in {0, 1} BY DEF Load
      <4> QED BY <4>1, <4>2
    <3>2. CASE j \notin js
      <4>1. job'[j] = job[j] /\ note' = note BY <3>2, <1>1, <1>5
      <4>2. (Waits(j)' <=> Waits(j)) BY <4>1 DEF Waits
      <4>3. Place(j)' = Place(j) /\ Place(j) \in {0, 1} BY <4>2 DEF Place
      <4>4. Load(new, j) = 0 BY <3>2 DEF Load, Carries
      <4> QED BY <4>3, <4>4
    <3> QED BY <3>1, <3>2
  <2> QED BY <2>1, <2>2, <2>3
<1> QED BY <1>2, <1>7, <1>8, <1>9, <1>10, <1>11, <1>12, <1>13, Moved

LEMMA ClaimPhonesKeeps == ASSUME PushInv, NEW w \in Workers, ClaimPhones(w) PROVE PushInv'
<1>1. PICK js : js = {j \in PhoneJobs : Due(j)} OBVIOUS
<1>2. Take(w, js, <<SetToSeq(js)>>) BY <1>1 DEF ClaimPhones
<1>3. js \subseteq Jobs /\ IsFiniteSet(js) /\ \A j \in js : Due(j)
  BY <1>1, PhonesAreJobs, JobsFinite, FS_Subset
<1>4. PICK new : new = worker'[w] OBVIOUS
<1>5. new.plan = <<SetToSeq(js)>> /\ new.save = <<>> BY <1>2, <1>4 DEF Take, Workers
<1>6. /\ PassShape(new)
      /\ \A j : InPlan(new, j) => j \in js
      /\ \A j : ~InSave(new, j) /\ ~ToRetry(new, j)
  BY <1>3, <1>5, OneRequest
<1> QED BY <1>2, <1>3, <1>4, <1>6, Taken

LEMMA ClaimBrowsersKeeps == ASSUME PushInv, NEW w \in Workers, ClaimBrowsers(w) PROVE PushInv'
<1>1. PICK js : js = {j \in Jobs \ PhoneJobs : Due(j)} OBVIOUS
<1>2. PICK order \in SetToSeqs({<<j>> : j \in js}) : Take(w, js, order)
  BY <1>1 DEF ClaimBrowsers
<1>3. js \subseteq Jobs /\ IsFiniteSet(js) /\ \A j \in js : Due(j)
  BY <1>1, JobsFinite, FS_Subset
<1>4. PICK new : new = worker'[w] OBVIOUS
<1>5. new.plan = order /\ new.save = <<>> BY <1>2, <1>4 DEF Take, Workers
<1>6. /\ PassShape(new)
      /\ \A j : InPlan(new, j) => j \in js
      /\ \A j : ~InSave(new, j) /\ ~ToRetry(new, j)
  BY <1>3, <1>5, OneByOne
<1> QED BY <1>2, <1>3, <1>4, <1>6, Taken

LEMMA DieKeeps == ASSUME PushInv, NEW w \in Workers, Die(w) PROVE PushInv'
<1>1. /\ faults < MaxFaults /\ faults' = faults + 1 /\ worker' = [worker EXCEPT ![w] = Idle]
      /\ UNCHANGED <<device, note, job, writing, tickets, receipts, credit>>
  BY DEF Die
<1>2. Grows /\ \A j \in Jobs : Sound(j)' /\ Place(j)' <= Place(j) BY <1>1, JobsStay
<1>3. faults' \in 0 .. MaxFaults
  <2>1. faults \in 0 .. MaxFaults BY DEF PushInv, PushTyped
  <2> QED BY <2>1, <1>1, PushAssumption
<1>4. PushTyped' BY <1>1, <1>3 DEF PushInv, PushTyped, Workers
<1>5. WritingOK' BY <1>1 DEF PushInv, WritingOK
<1>6. OneEach(tickets)' /\ QueuedOnce' BY <1>1, <1>2, ListsStay
<1>7. PassOK(Idle)'
  <2>1. DOMAIN Idle.save = {} BY EmptySeq DEF Idle
  <2>2. PassShape(Idle)' BY IdlePass DEF PassShape
  <2>3. KnownOK(Idle)' BY IdlePass DEF KnownOK
  <2>4. RefusedOK(Idle)' BY <2>1 DEF RefusedOK
  <2> QED BY <2>2, <2>3, <2>4 DEF PassOK
<1>8. ASSUME NEW j \in Jobs
      PROVE  (Place(j)' + Load(Idle, j)) - (Place(j) + Load(worker[w], j)) <= credit'[j] - credit[j]
  <2>1. credit[j] \in Int /\ credit'[j] = credit[j] BY <1>1 DEF PushInv, PushTyped
  <2>2. Load(Idle, j) = 0 BY IdlePass DEF Load, Carries
  <2>3. Load(worker[w], j) \in {0, 1} BY DEF Load
  <2>4. Place(j) \in {0, 1} /\ Place(j)' \in {0, 1} /\ Place(j)' <= Place(j) BY <1>2 DEF Place
  <2> QED BY <2>1, <2>2, <2>3, <2>4
<1>9. \A j \in Jobs : Sound(j)' BY <1>2
<1> QED BY <1>1, <1>2, <1>4, <1>5, <1>6, <1>7, <1>8, <1>9, Moved

\* All the jobs of a request get an answer.
LEMMA AnsweredKeeps ==
    ASSUME PushInv, NEW w \in Workers, Sending(w), NEW answer \in [Request(w) -> Answers],
           Goto(w, Rest(w), [i \in DOMAIN Head(worker[w].plan) |->
                               <<Head(worker[w].plan)[i], answer[Head(worker[w].plan)[i]]>>]),
           UNCHANGED <<device, note, job, writing, tickets, receipts, faults>>,
           \A j \in Request(w) : answer[j] = "refused" => j \in PhoneJobs /\ j[2] \in Bad,
           credit' \in [Jobs -> Int],
           \A j \in Jobs : credit'[j] = IF j \in Request(w) /\ answer[j] = "sent"
                                       THEN credit[j] - 1 ELSE credit[j]
    PROVE  PushInv'
<1>1. PICK k : k = worker[w] OBVIOUS
<1>2. PICK new : new = worker'[w] OBVIOUS
<1>3. k.save = <<>> /\ k.plan # <<>> /\ PassShape(k) BY <1>1 DEF Sending, PushInv, PassOK
<1>4. Request(w) = ToSet(Head(k.plan)) /\ Rest(w) = Tail(k.plan) BY <1>1 DEF Request, Rest
<1>5. /\ worker' = [worker EXCEPT ![w] = new] /\ new.plan = Tail(k.plan)
      /\ new.save = [i \in DOMAIN Head(k.plan) |-> <<Head(k.plan)[i], answer[Head(k.plan)[i]]>>]
      /\ \A j : InPlan(new, j) \/ InSave(new, j) =>
           j \in DOMAIN new.known /\ new.known[j] = k.known[j]
  BY <1>1, <1>2, <1>4, Went
<1>6. /\ PassShape(new)
      /\ \A j : InPlan(k, j) <=> InPlan(new, j) \/ j \in Request(w)
      /\ \A j \in Request(w) : ~InPlan(new, j)
      /\ \A j : InSave(new, j) <=> j \in Request(w)
      /\ \A j : ToRetry(new, j) <=> j \in Request(w) /\ answer[j] = "retry"
      /\ \A a \in DOMAIN new.save :
           new.save[a][1] \in Request(w) /\ new.save[a][2] = answer[new.save[a][1]]
  <2>1. answer \in [ToSet(Head(k.plan)) -> Answers] BY <1>4
  <2>2. Replies(k, new, answer) BY ONLY <1>3, <1>5 DEF Replies
  <2> QED BY ONLY <2>1, <2>2, <1>3, <1>4, Answered
<1>7. RefusedOK(new)
  <2> SUFFICES ASSUME NEW a \in DOMAIN new.save, new.save[a][2] = "refused"
               PROVE  new.save[a][1] \in PhoneJobs /\ new.save[a][1][2] \in Bad
    BY DEF RefusedOK
  <2> QED BY <1>6
<1>8. \A j : InPlan(new, j) \/ InSave(new, j) =>
        /\ j \in DOMAIN new.known /\ new.known[j] = worker[w].known[j]
        /\ InPlan(worker[w], j) \/ InSave(worker[w], j)
  BY <1>1, <1>5, <1>6
<1>9. ASSUME NEW j \in Jobs PROVE Load(new, j) - Load(worker[w], j) <= credit'[j] - credit[j]
  <2>1. credit[j] \in Int BY DEF PushInv, PushTyped
  <2>2. Load(new, j) \in {0, 1} /\ Load(k, j) \in {0, 1} BY DEF Load
  <2>3. CASE j \in Request(w)
    <3>1. Load(k, j) = 1 BY <2>3, <1>6 DEF Load, Carries
    <3>2. CASE answer[j] = "sent"
      <4>1. Load(new, j) = 0 BY <2>3, <3>2, <1>6 DEF Load, Carries
      <4>2. credit'[j] = credit[j] - 1 BY <2>3, <3>2
      <4> QED BY <2>1, <3>1, <4>1, <4>2, <1>1
    <3>3. CASE answer[j] # "sent"
      <4>1. credit'[j] = credit[j] BY <3>3
      <4> QED BY <2>1, <2>2, <3>1, <4>1, <1>1
    <3> QED BY <3>2, <3>3
  <2>4. CASE j \notin Request(w)
    <3>1. credit'[j] = credit[j] BY <2>4
    <3>2. Carries(new, j) => Carries(k, j) BY <2>4, <1>6 DEF Carries
    <3>3. Load(new, j) <= Load(k, j) BY <3>2 DEF Load
    <3> QED BY <2>1, <2>2, <3>1, <3>3, <1>1
  <2> QED BY <2>3, <2>4
<1> QED BY <1>5, <1>6, <1>7, <1>8, <1>9, Sent

LEMMA AcceptKeeps == ASSUME PushInv, NEW w \in Workers, Accept(w) PROVE PushInv'
<1>1. PICK answer \in [Request(w) -> {"sent", "gone", "retry"}] :
        /\ Goto(w, Rest(w), [i \in DOMAIN Head(worker[w].plan) |->
                               <<Head(worker[w].plan)[i], answer[Head(worker[w].plan)[i]]>>])
        /\ credit' = [j \in Jobs |-> IF j \in Request(w) /\ answer[j] = "sent" THEN credit[j] - 1
                                     ELSE credit[j]]
  BY DEF Accept
<1>2. answer \in [Request(w) -> Answers] /\ \A j \in Request(w) : answer[j] # "refused"
  BY <1>1 DEF Answers
<1>3. Sending(w) /\ UNCHANGED <<device, note, job, writing, tickets, receipts, faults>>
  BY DEF Accept
<1>4. credit \in [Jobs -> Int] BY DEF PushInv, PushTyped
<1>5. \A j \in Jobs : /\ credit'[j] \in Int
                      /\ credit'[j] = IF j \in Request(w) /\ answer[j] = "sent"
                                      THEN credit[j] - 1 ELSE credit[j]
  BY <1>1, <1>4
<1>6. credit' \in [Jobs -> Int] BY <1>1, <1>5
<1> QED BY <1>1, <1>2, <1>3, <1>5, <1>6, AnsweredKeeps

\* The answer to a whole request.
LEMMA SameAnswer ==
    ASSUME PushInv, NEW w \in Workers, Sending(w), NEW a \in Answers \ {"sent"},
           Goto(w, Rest(w), ForAll(w, a)),
           a = "refused" => \A j \in Request(w) : j \in PhoneJobs /\ j[2] \in Bad,
           UNCHANGED <<device, note, job, writing, tickets, receipts, credit, faults>>
    PROVE  PushInv'
<1>1. PICK answer : answer = [j \in Request(w) |-> a] OBVIOUS
<1>2. answer \in [Request(w) -> Answers] /\ \A j \in Request(w) : answer[j] = a BY <1>1
<1>3. \A i \in DOMAIN Head(worker[w].plan) : Head(worker[w].plan)[i] \in Request(w)
  BY DEF Request, ToSet
<1>4. ForAll(w, a) = [i \in DOMAIN Head(worker[w].plan) |->
                        <<Head(worker[w].plan)[i], answer[Head(worker[w].plan)[i]]>>]
  BY <1>2, <1>3 DEF ForAll
<1>5. credit' \in [Jobs -> Int] BY DEF PushInv, PushTyped
<1>6. \A j \in Jobs : credit'[j] = IF j \in Request(w) /\ answer[j] = "sent"
                                   THEN credit[j] - 1 ELSE credit[j]
  BY <1>2
<1> QED BY <1>2, <1>4, <1>5, <1>6, AnsweredKeeps

LEMMA FailKeeps == ASSUME PushInv, NEW w \in Workers, Fail(w) PROVE PushInv'
<1>1. "retry" \in Answers \ {"sent"} BY DEF Answers
<1>2. /\ Sending(w) /\ Goto(w, Rest(w), ForAll(w, "retry"))
      /\ UNCHANGED <<device, note, job, writing, tickets, receipts, credit, faults>>
  BY DEF Fail
<1> QED BY <1>1, <1>2, SameAnswer

\* A request with another status fails for every device in it, and is not "refused".
LEMMA RejectKeeps == ASSUME PushInv, NEW w \in Workers, Reject(w) PROVE PushInv'
<1>1. "rejected" \in Answers \ {"sent"} BY DEF Answers
<1>2. /\ Sending(w) /\ Goto(w, Rest(w), ForAll(w, "rejected"))
      /\ UNCHANGED <<device, note, job, writing, tickets, receipts, credit, faults>>
  BY DEF Reject
<1> QED BY <1>1, <1>2, SameAnswer

\* A request for one phone is refused for that phone alone.
LEMMA SplitKeeps == ASSUME PushInv, NEW w \in Workers, Split(w) PROVE PushInv'
<1>1. PICK k : k = worker[w] OBVIOUS
<1>2. PICK js : js = Head(k.plan) OBVIOUS
<1>3. /\ Sending(w) /\ Request(w) \subseteq PhoneJobs /\ Refused(Request(w))
      /\ IF Len(js) = 1 THEN Goto(w, Rest(w), ForAll(w, "refused"))
         ELSE Goto(w, <<SubSeq(js, 1, Len(js) \div 2), SubSeq(js, Len(js) \div 2 + 1, Len(js))>>
                      \o Rest(w), <<>>)
      /\ UNCHANGED <<device, note, job, writing, tickets, receipts, credit, faults>>
  BY <1>1, <1>2 DEF Split
<1>4. k.save = <<>> /\ k.plan # <<>> /\ PassShape(k) BY <1>1, <1>3 DEF Sending, PushInv, PassOK
<1>5. Request(w) = ToSet(js) /\ Rest(w) = Tail(k.plan) BY <1>1, <1>2 DEF Request, Rest
<1>6. js \in Seq(Jobs) /\ Len(js) \in Nat /\ DOMAIN js = 1 .. Len(js)
  <2>1. k.plan \in Seq(Seq(Jobs)) BY <1>4 DEF PassShape
  <2>2. js \in Seq(Jobs) BY <2>1, <1>2, <1>4, HeadTailProperties
  <2> QED BY <2>2, LenProperties
<1>7. CASE Len(js) = 1
  <2>1. DOMAIN js = {1} BY <1>6, <1>7
  <2>2. Request(w) = {js[1]} BY <2>1, <1>5 DEF ToSet
  <2>3. js[1][2] \in Bad BY <2>2, <1>3 DEF Refused
  <2>4. "refused" \in Answers \ {"sent"} BY DEF Answers
  <2>5. Goto(w, Rest(w), ForAll(w, "refused")) BY <1>3, <1>7
  <2> QED BY <2>2, <2>3, <2>4, <2>5, <1>3, SameAnswer
<1>8. CASE Len(js) # 1
  <2>1. PICK c : c = Len(js) \div 2 OBVIOUS
  <2>2. c \in Int /\ 0 <= c /\ c <= Len(js) BY <2>1, <1>6
  <2>3. Goto(w, Halves(js, c) \o Tail(k.plan), <<>>) BY <2>1, <1>3, <1>5, <1>8 DEF Halves
  <2>4. PICK new : new = worker'[w] OBVIOUS
  <2>5. /\ worker' = [worker EXCEPT ![w] = new]
        /\ new.plan = Halves(js, c) \o Tail(k.plan) /\ new.save = <<>>
        /\ \A j : InPlan(new, j) \/ InSave(new, j) =>
             j \in DOMAIN new.known /\ new.known[j] = worker[w].known[j]
    <3>1. PICK rest : rest = Halves(js, c) \o Tail(k.plan) OBVIOUS
    <3>2. Goto(w, rest, <<>>) BY <2>3, <3>1
    <3>3. /\ worker' = [worker EXCEPT ![w] = new] /\ new.plan = rest /\ new.save = <<>>
          /\ \A j : InPlan(new, j) \/ InSave(new, j) =>
               j \in DOMAIN new.known /\ new.known[j] = worker[w].known[j]
      <4> HIDE DEF Goto
      <4>1. PICK none : none = <<>> OBVIOUS
      <4>2. Goto(w, rest, none) BY <3>2, <4>1
      <4>3. /\ worker' = [worker EXCEPT ![w] = new] /\ new.plan = rest /\ new.save = none
            /\ \A j : InPlan(new, j) \/ InSave(new, j) =>
                 j \in DOMAIN new.known /\ new.known[j] = worker[w].known[j]
        BY <2>4, <4>2, Went
      <4> QED BY <4>1, <4>3
    <3> QED BY <3>1, <3>3
  <2>6. /\ PassShape(new)
        /\ \A j : InPlan(k, j) <=> InPlan(new, j)
        /\ \A j : ~InSave(new, j) /\ ~ToRetry(new, j)
    BY <2>2, <2>5, <1>2, <1>4, Halved
  <2>7. RefusedOK(new)
    <3>1. DOMAIN new.save = {} BY <2>5, EmptySeq
    <3> QED BY <3>1 DEF RefusedOK
  <2>8. credit' \in [Jobs -> Int] BY <1>3 DEF PushInv, PushTyped
  <2>9. ASSUME NEW j \in Jobs PROVE Load(new, j) - Load(worker[w], j) <= credit'[j] - credit[j]
    <3>1. credit[j] \in Int /\ credit'[j] = credit[j] BY <1>3 DEF PushInv, PushTyped
    <3>2. Carries(new, j) => Carries(worker[w], j) BY <2>6, <1>1 DEF Carries
    <3>3. Load(new, j) \in {0, 1} /\ Load(worker[w], j) \in {0, 1} /\ Load(new, j) <= Load(worker[w], j)
      BY <3>2 DEF Load
    <3> QED BY <3>1, <3>3
  <2>10. \A j : InPlan(new, j) \/ InSave(new, j) =>
           /\ j \in DOMAIN new.known /\ new.known[j] = worker[w].known[j]
           /\ InPlan(worker[w], j) \/ InSave(worker[w], j)
    BY <2>5, <2>6, <1>1
  <2> QED BY <2>5, <2>6, <2>7, <2>8, <2>9, <2>10, <1>3, Sent
<1> QED BY <1>7, <1>8

\* The first answer that a pass has to save.
LEMMA FirstAnswer ==
    ASSUME PushInv, NEW w \in Workers, NEW j \in Jobs, NEW a, Saves(w, <<j, a>>)
    PROVE  /\ InSave(worker[w], j) /\ ~InPlan(worker[w], j)
           /\ j \in PhoneJobs => /\ job[j].st # "none" /\ worker[w].known[j] \in Nat
                                 /\ worker[w].known[j] + 1 <= job[j].tries
           /\ a = "refused" => j \in PhoneJobs /\ j[2] \in Bad
           /\ a = "retry" => ToRetry(worker[w], j)
           /\ j[2] \in Devices
<1>1. PICK k : k = worker[w] OBVIOUS
<1>2. k.save # <<>> /\ Head(k.save) = <<j, a>> /\ PassOK(k) BY <1>1 DEF Saves, PushInv
<1>3. k.save \in Seq(Jobs \X Answers) BY <1>2 DEF PassOK, PassShape
<1>4. Head(k.save) = k.save[1] /\ 1 \in DOMAIN k.save
  <2>1. Len(k.save) \in Nat /\ Len(k.save) # 0 /\ DOMAIN k.save = 1 .. Len(k.save)
    BY <1>2, <1>3, LenProperties, EmptySeq
  <2> QED BY <2>1, <1>2, <1>3, HeadTailProperties
<1>5. k.save[1] = <<j, a>> /\ k.save[1][1] = j /\ k.save[1][2] = a BY <1>2, <1>4
<1>6. InSave(k, j) /\ ~InPlan(k, j) BY <1>2, <1>4, <1>5 DEF InSave, PassOK, PassShape
<1>7. ASSUME j \in PhoneJobs
      PROVE  job[j].st # "none" /\ k.known[j] \in Nat /\ k.known[j] + 1 <= job[j].tries
  <2>1. k.known[j] \in Nat /\ k.known[j] + 1 <= job[j].tries BY <1>2, <1>6, <1>7 DEF PassOK, KnownOK
  <2>2. job[j].tries \in Nat BY DEF PushInv, PushTyped, JobRow
  <2>3. Sound(j) BY DEF PushInv
  <2> QED BY <2>1, <2>2, <2>3 DEF Sound, NoJob
<1>8. a = "refused" => j \in PhoneJobs /\ j[2] \in Bad BY <1>2, <1>4, <1>5 DEF PassOK, RefusedOK
<1>9. a = "retry" => ToRetry(k, j) BY <1>4, <1>5 DEF ToRetry
<1>10. j[2] \in Devices BY DEF Jobs
<1> QED BY <1>1, <1>6, <1>7, <1>8, <1>9, <1>10

\* Once its answer is saved, the pass is done with a job.
LEMMA SavedOne ==
    ASSUME PushInv, NEW w \in Workers, NEW j \in Jobs, NEW a, Saves(w, <<j, a>>), Saved(w)
    PROVE  \E new :
             /\ worker' = [worker EXCEPT ![w] = new] /\ PassShape(new) /\ RefusedOK(new)
             /\ \A x : InPlan(new, x) \/ InSave(new, x) =>
                    /\ x \in DOMAIN new.known /\ new.known[x] = worker[w].known[x]
                    /\ InPlan(worker[w], x) \/ InSave(worker[w], x)
             /\ Load(new, j) = 0
             /\ \A x \in Jobs : x # j => Load(new, x) = Load(worker[w], x)
<1>1. PICK k : k = worker[w] OBVIOUS
<1>2. k.save # <<>> /\ Head(k.save) = <<j, a>> /\ PassOK(k) BY <1>1 DEF Saves, PushInv
<1>3. PICK rest : rest = Tail(k.save) OBVIOUS
<1>4. PICK plan : plan = k.plan OBVIOUS
<1>5. Goto(w, plan, rest) BY <1>1, <1>3, <1>4 DEF Saved
<1>6. PICK new : new = worker'[w] OBVIOUS
<1>7. /\ worker' = [worker EXCEPT ![w] = new] /\ new.plan = plan /\ new.save = rest
      /\ \A x : InPlan(new, x) \/ InSave(new, x) =>
           x \in DOMAIN new.known /\ new.known[x] = worker[w].known[x]
  BY <1>5, <1>6, Went
<1>8. PassShape(k) BY <1>2 DEF PassOK
<1>9. /\ PassShape(new)
      /\ \A x : InPlan(new, x) <=> InPlan(k, x)
      /\ \A x : InSave(k, x) <=> InSave(new, x) \/ x = Head(k.save)[1]
      /\ ~InSave(new, Head(k.save)[1]) /\ ~InPlan(k, Head(k.save)[1])
      /\ \A x : ToRetry(k, x) <=> ToRetry(new, x) \/ Head(k.save) = <<x, "retry">>
      /\ \A b \in DOMAIN new.save : \E c \in DOMAIN k.save : new.save[b] = k.save[c]
  <2>1. Pops(k, new) BY <1>2, <1>3, <1>4, <1>7 DEF Pops
  <2> QED BY ONLY <2>1, <1>8, Popped
<1>10. Head(k.save)[1] = j BY <1>2
<1>11. RefusedOK(new) BY <1>2, <1>9 DEF PassOK, RefusedOK
<1>12. Load(new, j) = 0
  <2>1. ~InPlan(new, j) /\ ~InSave(new, j) BY <1>9, <1>10
  <2>2. ~ToRetry(new, j) BY <2>1 DEF ToRetry, InSave
  <2> QED BY <2>1, <2>2 DEF Load, Carries
<1>13. ASSUME NEW x \in Jobs, x # j PROVE Load(new, x) = Load(k, x)
  <2>1. Head(k.save) # <<x, "retry">> BY <1>2, <1>13
  <2>2. ToRetry(k, x) <=> ToRetry(new, x) BY <2>1, <1>9
  <2>3. InPlan(k, x) <=> InPlan(new, x) BY <1>9
  <2> QED BY <2>2, <2>3 DEF Load, Carries
<1>14. \A x : InPlan(new, x) \/ InSave(new, x) =>
         /\ x \in DOMAIN new.known /\ new.known[x] = worker[w].known[x]
         /\ InPlan(worker[w], x) \/ InSave(worker[w], x)
  BY <1>1, <1>7, <1>9
<1>15. \A x \in Jobs : x # j => Load(new, x) = Load(worker[w], x) BY <1>1, <1>13
<1>16. worker' = [worker EXCEPT ![w] = new] /\ PassShape(new) BY <1>7, <1>9
<1> QED BY ONLY <1>11, <1>12, <1>14, <1>15, <1>16

\* The job takes the state that its answer stands for, unless it was forgotten.
LEMMA Recorded ==
    ASSUME PushInv, NEW j \in Jobs, UNCHANGED note,
           NEW st \in {"sent", "retry", "failed", "rejected", "disabled"},
           job' = IF job[j].st = "none" THEN job ELSE Set(j, st),
           j \notin PhoneJobs => st # "disabled",
           (j \in PhoneJobs /\ st = "failed" /\ ~job[j].checked /\ j[2] \notin Bad)
               => job[j].tries >= MaxAttempts
    PROVE  /\ job' \in [Jobs -> JobRow] /\ Grows
           /\ \A x \in Jobs : Sound(x)' /\ (x # j => Place(x)' = Place(x))
           /\ \A x \in Jobs : job[x].st # "none" => job'[x].st # "none"
           /\ Place(j)' <= Place(j) \/ Place(j)' = IF st = "retry" THEN 1 ELSE 0
<1>1. CASE job[j].st = "none"
  <2>1. job' = job BY <1>1
  <2>2. Grows /\ \A x \in Jobs : Sound(x)' /\ Place(x)' <= Place(x) BY <2>1, JobsStay
  <2>3. \A x \in Jobs : Place(x)' = Place(x)
    <3> SUFFICES ASSUME NEW x \in Jobs PROVE Place(x)' = Place(x) OBVIOUS
    <3>1. Waits(x)' <=> Waits(x) BY <2>1 DEF Waits
    <3> QED BY <3>1 DEF Place
  <2>4. job' \in [Jobs -> JobRow] BY <2>1 DEF PushInv, PushTyped
  <2>5. \A x \in Jobs : Sound(x)' /\ (x # j => Place(x)' = Place(x)) BY <2>2, <2>3
  <2>6. Place(j)' <= Place(j) BY <2>2
  <2>7. \A x \in Jobs : job[x].st # "none" => job'[x].st # "none" BY <2>1
  <2> QED BY <2>2, <2>4, <2>5, <2>6, <2>7
<1>2. CASE job[j].st # "none"
  <2>1. job' = Set(j, st) BY <1>2
  <2>2. st \in {"pending", "sending", "sent", "delivered", "retry", "failed",
                "rejected", "disabled", "expired", "cancelled"}
    OBVIOUS
  <2>3. /\ job' \in [Jobs -> JobRow] /\ Grows
        /\ \A x \in Jobs : Sound(x)' /\ (x # j => Place(x)' = Place(x))
        /\ \A x \in Jobs : job[x].st # "none" => job'[x].st # "none"
        /\ Place(j)' = IF st \in {"pending", "retry"} THEN 1 ELSE 0
    BY <1>2, <2>1, <2>2, StateSet
  <2>4. Place(j)' = IF st = "retry" THEN 1 ELSE 0 BY <2>3
  <2> QED BY <2>3, <2>4
<1> QED BY <1>1, <1>2

\* The tickets that are left belong to queued jobs.
LEMMA StillQueued ==
    ASSUME PushInv, NEW j, \A x \in Jobs : job[x].st # "none" => job'[x].st # "none"
    PROVE  /\ OtherTickets(j) \in Seq(Ticket) /\ OneEach(OtherTickets(j))
           /\ \A i \in DOMAIN OtherTickets(j) :
                OtherTickets(j)[i].job # j /\ job'[OtherTickets(j)[i].job].st # "none"
           /\ \A i \in DOMAIN tickets : job'[tickets[i].job].st # "none"
<1>1. /\ OtherTickets(j) \in Seq(Ticket) /\ OneEach(OtherTickets(j))
      /\ \A i \in DOMAIN OtherTickets(j) :
           /\ OtherTickets(j)[i].job # j
           /\ \E m \in DOMAIN tickets : OtherTickets(j)[i] = tickets[m]
  BY OtherTicketsOnly DEF PushInv, PushTyped
<1>2. \A m \in DOMAIN tickets : job'[tickets[m].job].st # "none" BY Receivers, PhonesAreJobs
<1> QED BY <1>1, <1>2

\* The last step of every save of an answer.
LEMMA SavedKeeps ==
    ASSUME PushInv, NEW w \in Workers, NEW j \in Jobs, NEW a, Saves(w, <<j, a>>), Saved(w),
           UNCHANGED <<note, writing, receipts, credit, faults>>,
           device' \in [Devices -> [user : Users \cup {NoUser}, enabled : BOOLEAN,
                                  users : SUBSET Users]],
           \A d \in Devices : device'[d].enabled => device'[d].user \in Users,
           job' \in [Jobs -> JobRow], Grows,
           \A x \in Jobs : Sound(x)' /\ (x # j => Place(x)' = Place(x)),
           Place(j)' <= Place(j) \/ Place(j)' = IF a = "retry" THEN 1 ELSE 0,
           tickets' \in Seq(Ticket), OneEach(tickets'),
           \A i \in DOMAIN tickets' : job'[tickets'[i].job].st # "none"
    PROVE  PushInv'
<1>1. PICK new :
        /\ worker' = [worker EXCEPT ![w] = new] /\ PassShape(new) /\ RefusedOK(new)
        /\ \A x : InPlan(new, x) \/ InSave(new, x) =>
               /\ x \in DOMAIN new.known /\ new.known[x] = worker[w].known[x]
               /\ InPlan(worker[w], x) \/ InSave(worker[w], x)
        /\ Load(new, j) = 0
        /\ \A x \in Jobs : x # j => Load(new, x) = Load(worker[w], x)
  BY SavedOne
<1>2. ASSUME NEW x \in Jobs
      PROVE  Place(x)' + Load(new, x) <= Place(x) + Load(worker[w], x)
  <2>1. Place(x) \in {0, 1} /\ Place(x)' \in {0, 1} BY DEF Place
  <2>2. Load(new, x) \in {0, 1} /\ Load(worker[w], x) \in {0, 1} BY DEF Load
  <2>3. CASE x # j
    <3>1. Place(x)' = Place(x) /\ Load(new, x) = Load(worker[w], x) BY <2>3, <1>1
    <3> QED BY <3>1, <2>1, <2>2
  <2>4. CASE x = j
    <3>1. Load(new, x) = 0 BY <2>4, <1>1
    <3>2. a = "retry" => Load(worker[w], x) = 1 BY <2>4, FirstAnswer DEF Load, Carries
    <3>3. Place(x)' <= Place(x) \/ Place(x)' = IF a = "retry" THEN 1 ELSE 0 BY <2>4
    <3>4. Place(x)' <= Place(x) + Load(worker[w], x)
      <4>1. CASE Place(x)' <= Place(x) BY <4>1, <2>1, <2>2
      <4>2. CASE ~(Place(x)' <= Place(x)) /\ a = "retry" BY <4>2, <3>2, <2>1, <2>2
      <4>3. CASE ~(Place(x)' <= Place(x)) /\ a # "retry"
        <5>1. Place(x)' = 0 BY <4>3, <3>3
        <5> QED BY <5>1, <2>1, <2>2
      <4> QED BY <4>1, <4>2, <4>3
    <3> QED BY <3>1, <3>4, <2>1, <2>2
  <2> QED BY <2>3, <2>4
<1>3. \A x \in Jobs : Sound(x)' OBVIOUS
<1> QED BY <1>1, <1>2, <1>3, Stored

LEMMA SaveSentKeeps == ASSUME PushInv, NEW w \in Workers, NEW j \in Jobs, SaveSent(w, j) PROVE PushInv'
<1>1. /\ Saves(w, <<j, "sent">>) /\ Saved(w)
      /\ job' = IF job[j].st = "none" THEN job ELSE Set(j, "sent")
      /\ UNCHANGED <<device, note, writing, receipts, credit, faults>>
  BY DEF SaveSent
<1>2. /\ job' \in [Jobs -> JobRow] /\ Grows
      /\ \A x \in Jobs : Sound(x)' /\ (x # j => Place(x)' = Place(x))
      /\ \A x \in Jobs : job[x].st # "none" => job'[x].st # "none"
      /\ Place(j)' <= Place(j) \/ Place(j)' = 0
  <2>1. PICK st : st = "sent" OBVIOUS
  <2>2. st \in {"sent", "retry", "failed", "rejected", "disabled"} /\ st # "retry" /\ st # "failed" /\ st # "disabled"
    BY <2>1
  <2>3. job' = IF job[j].st = "none" THEN job ELSE Set(j, st) BY <2>1, <1>1
  <2> QED BY <2>2, <2>3, <1>1, Recorded
<1>3. /\ tickets' \in Seq(Ticket) /\ OneEach(tickets')
      /\ \A i \in DOMAIN tickets' : job'[tickets'[i].job].st # "none"
  <2>1. /\ OtherTickets(j) \in Seq(Ticket) /\ OneEach(OtherTickets(j))
        /\ \A i \in DOMAIN OtherTickets(j) :
             OtherTickets(j)[i].job # j /\ job'[OtherTickets(j)[i].job].st # "none"
        /\ \A i \in DOMAIN tickets : job'[tickets[i].job].st # "none"
    BY <1>2, StillQueued
  <2>2. CASE j \in PhoneJobs /\ ~job[j].checked
    <3>1. PICK answered \in BOOLEAN :
            tickets' = Append(OtherTickets(j), [job |-> j, answered |-> answered])
      BY <2>2 DEF SaveSent
    <3>2. PICK s : s = OtherTickets(j) OBVIOUS
    <3>3. PICK t : t = [job |-> j, answered |-> answered] OBVIOUS
    <3>4. PICK r : r = Append(s, t) OBVIOUS
    <3>5. t \in Ticket /\ t.job = j BY <2>2, <3>1, <3>3 DEF Ticket
    <3>6. s \in Seq(Ticket) /\ \A i, n \in DOMAIN s : s[i].job = s[n].job => i = n
      BY <2>1, <3>2 DEF OneEach
    <3>7. \A i \in DOMAIN s : s[i].job # j /\ job'[s[i].job].st # "none" BY <2>1, <3>2
    <3>8. /\ r \in Seq(Ticket) /\ Len(r) = Len(s) + 1
          /\ \A i \in 1 .. Len(s) : r[i] = s[i]
          /\ r[Len(s) + 1] = t
      BY <3>4, <3>5, <3>6, AppendProperties
    <3>9. PICK n \in Nat : n = Len(s) BY <3>6, LenProperties
    <3>10. DOMAIN s = 1 .. n /\ DOMAIN r = 1 .. n + 1 BY <3>6, <3>8, <3>9, LenProperties
    <3>11. \A i \in 1 .. n + 1 : (i \in 1 .. n /\ r[i] = s[i]) \/ (i = n + 1 /\ r[i] = t)
      BY <3>8, <3>9
    <3>12. \A i, m \in 1 .. n + 1 : r[i].job = r[m].job => i = m
      <4> TAKE i, m \in 1 .. n + 1
      <4> HAVE r[i].job = r[m].job
      <4>1. CASE i \in 1 .. n /\ m \in 1 .. n
        <5>1. r[i] = s[i] /\ r[m] = s[m] BY <4>1, <3>8, <3>9
        <5> QED BY <4>1, <5>1, <3>6, <3>10
      <4>2. CASE i \in 1 .. n /\ ~(m \in 1 .. n)
        <5>1. r[i] = s[i] /\ r[m] = t BY <4>2, <3>8, <3>9, <3>11
        <5> QED BY <4>2, <5>1, <3>5, <3>7, <3>10
      <4>3. CASE ~(i \in 1 .. n) /\ m \in 1 .. n
        <5>1. r[i] = t /\ r[m] = s[m] BY <4>3, <3>8, <3>9, <3>11
        <5> QED BY <4>3, <5>1, <3>5, <3>7, <3>10
      <4>4. CASE ~(i \in 1 .. n) /\ ~(m \in 1 .. n) BY <4>4, <3>11
      <4> QED BY <4>1, <4>2, <4>3, <4>4
    <3>13. job'[j].st # "none" BY <2>2, <1>1, <1>2, FirstAnswer
    <3>14. \A i \in 1 .. n + 1 : job'[r[i].job].st # "none"
      BY <3>5, <3>7, <3>10, <3>11, <3>13
    <3>15. tickets' = r BY <3>1, <3>2, <3>3, <3>4
    <3> QED BY <3>8, <3>10, <3>12, <3>14, <3>15 DEF OneEach
  <2>3. CASE ~(j \in PhoneJobs /\ ~job[j].checked)
    <3>1. tickets' = tickets BY <2>3 DEF SaveSent
    <3> QED BY <3>1, <2>1 DEF PushInv, PushTyped, OneEach
  <2> QED BY <2>2, <2>3
<1>4. /\ device' \in [Devices -> [user : Users \cup {NoUser}, enabled : BOOLEAN,
                                users : SUBSET Users]]
      /\ \A d \in Devices : device'[d].enabled => device'[d].user \in Users
  BY <1>1 DEF PushInv, PushTyped
<1> QED BY <1>1, <1>2, <1>3, <1>4, SavedKeeps

LEMMA SaveDisableKeeps ==
    ASSUME PushInv, NEW w \in Workers, NEW j \in Jobs, SaveDisable(w, j) PROVE PushInv'
<1>1. /\ Saves(w, <<j, "disable">>) /\ Saved(w)
      /\ device' = [device EXCEPT ![j[2]].enabled = FALSE]
      /\ UNCHANGED <<note, job, writing, tickets, receipts, credit, faults>>
  BY DEF SaveDisable, Disable
<1>2. /\ device' \in [Devices -> [user : Users \cup {NoUser}, enabled : BOOLEAN,
                                users : SUBSET Users]]
      /\ \A d \in Devices : device'[d].enabled => device'[d].user \in Users
  <2>1. j[2] \in Devices BY DEF Jobs
  <2> QED BY <2>1, <1>1, Disabled
<1>3. Grows /\ \A x \in Jobs : Sound(x)' /\ Place(x)' <= Place(x) BY <1>1, JobsStay
<1>4. \A x \in Jobs : Place(x)' = Place(x)
  <2> SUFFICES ASSUME NEW x \in Jobs PROVE Place(x)' = Place(x) OBVIOUS
  <2>1. Waits(x)' <=> Waits(x) BY <1>1 DEF Waits
  <2> QED BY <2>1 DEF Place
<1>5. job' \in [Jobs -> JobRow] /\ tickets' \in Seq(Ticket) /\ OneEach(tickets')
  BY <1>1 DEF PushInv, PushTyped, OneEach
<1>6. \A i \in DOMAIN tickets' : job'[tickets'[i].job].st # "none" BY <1>1, Receivers
<1>7. \A x \in Jobs : Sound(x)' /\ (x # j => Place(x)' = Place(x)) BY <1>3, <1>4
<1>8. Place(j)' <= Place(j) BY <1>3
<1> QED BY <1>1, <1>2, <1>3, <1>5, <1>6, <1>7, <1>8, SavedKeeps

LEMMA SaveFailureKeeps ==
    ASSUME PushInv, NEW w \in Workers, NEW j \in Jobs, SaveFailure(w, j) PROVE PushInv'
<1>1. PICK a \in {"retry", "refused", "rejected"} :
        /\ Saves(w, <<j, a>>) /\ Saved(w)
        /\ job' = IF job[j].st = "none" THEN job ELSE Set(j, Verdict(w, j, a))
        /\ tickets' = OtherTickets(j)
        /\ UNCHANGED <<device, note, writing, receipts, credit, faults>>
  BY DEF SaveFailure
<1>2. PICK st : st = Verdict(w, j, a) OBVIOUS
<1>3. /\ st \in {"sent", "retry", "failed", "rejected", "disabled"} /\ st # "disabled"
      /\ st = "retry" => a = "retry"
      /\ st = "failed" => a # "rejected"
      /\ st = "failed" /\ a = "retry" => ~(worker[w].known[j] + 1 < MaxAttempts)
  <2>1. CASE a = "rejected" BY <1>2, <2>1 DEF Verdict
  <2>2. CASE a = "refused" BY <1>2, <2>2 DEF Verdict
  <2>3. CASE a = "retry" BY <1>2, <2>3 DEF Verdict
  <2> QED BY <2>1, <2>2, <2>3, <1>1
<1>4. ASSUME j \in PhoneJobs, st = "failed", j[2] \notin Bad PROVE job[j].tries >= MaxAttempts
  <2>1. /\ worker[w].known[j] \in Nat /\ worker[w].known[j] + 1 <= job[j].tries
        /\ a # "refused"
    BY <1>1, <1>4, FirstAnswer
  <2>2. a = "retry" BY <2>1, <1>1, <1>3, <1>4
  <2>3. ~(worker[w].known[j] + 1 < MaxAttempts) BY <2>2, <1>3, <1>4
  <2>4. job[j].tries \in Nat BY DEF PushInv, PushTyped, JobRow
  <2> QED BY <2>1, <2>3, <2>4, PushAssumption
<1>5. job' = IF job[j].st = "none" THEN job ELSE Set(j, st) BY <1>1, <1>2
<1>6. /\ job' \in [Jobs -> JobRow] /\ Grows
      /\ \A x \in Jobs : Sound(x)' /\ (x # j => Place(x)' = Place(x))
      /\ \A x \in Jobs : job[x].st # "none" => job'[x].st # "none"
      /\ Place(j)' <= Place(j) \/ Place(j)' = IF st = "retry" THEN 1 ELSE 0
  BY <1>1, <1>3, <1>4, <1>5, Recorded
<1>7. Place(j)' <= Place(j) \/ Place(j)' = IF a = "retry" THEN 1 ELSE 0
  <2>1. Place(j) \in {0, 1} BY DEF Place
  <2>2. CASE st = "retry" BY <2>2, <1>3, <1>6
  <2>3. CASE st # "retry"
    <3>1. Place(j)' <= Place(j) \/ Place(j)' = 0 BY <2>3, <1>6
    <3> QED BY <3>1, <2>1
  <2> QED BY <2>2, <2>3
<1>8. /\ tickets' \in Seq(Ticket) /\ OneEach(tickets')
      /\ \A i \in DOMAIN tickets' : job'[tickets'[i].job].st # "none"
  BY <1>1, <1>6, StillQueued
<1>9. /\ device' \in [Devices -> [user : Users \cup {NoUser}, enabled : BOOLEAN,
                                users : SUBSET Users]]
      /\ \A d \in Devices : device'[d].enabled => device'[d].user \in Users
  BY <1>1 DEF PushInv, PushTyped
<1> QED BY <1>1, <1>6, <1>7, <1>8, <1>9, SavedKeeps

\* A phone that is gone is disabled with its job, a browser after it.
LEMMA SaveGoneKeeps == ASSUME PushInv, NEW w \in Workers, NEW j \in Jobs, SaveGone(w, j) PROVE PushInv'
<1>1. /\ Saves(w, <<j, "gone">>) /\ tickets' = OtherTickets(j)
      /\ UNCHANGED <<note, writing, receipts, credit, faults>>
  BY DEF SaveGone
<1>2. CASE j \in PhoneJobs
  <2>1. /\ device' = [device EXCEPT ![j[2]].enabled = FALSE] /\ Saved(w)
        /\ job' = Set(j, "disabled")
    BY <1>2 DEF SaveGone, Disable
  <2>2. job[j].st # "none" /\ j[2] \in Devices BY <1>1, <1>2, FirstAnswer
  <2>3. /\ job' \in [Jobs -> JobRow] /\ Grows
        /\ \A x \in Jobs : Sound(x)' /\ (x # j => Place(x)' = Place(x))
        /\ \A x \in Jobs : job[x].st # "none" => job'[x].st # "none"
        /\ Place(j)' = 0
    <3>1. PICK st : st = "disabled" OBVIOUS
    <3>2. /\ st \in {"pending", "sending", "sent", "delivered", "retry", "failed",
                    "rejected", "disabled", "expired", "cancelled"}
          /\ st \notin {"expired", "cancelled"} /\ st # "failed" /\ st \notin {"pending", "retry"}
      BY <3>1
    <3>3. job' = Set(j, st) BY <2>1, <3>1
    <3>4. /\ job' \in [Jobs -> JobRow] /\ Grows
          /\ \A x \in Jobs : Sound(x)' /\ (x # j => Place(x)' = Place(x))
          /\ \A x \in Jobs : job[x].st # "none" => job'[x].st # "none"
          /\ Place(j)' = IF st \in {"pending", "retry"} THEN 1 ELSE 0
      BY <1>1, <1>2, <2>2, <3>2, <3>3, StateSet
    <3> QED BY <3>2, <3>4
  <2>4. /\ tickets' \in Seq(Ticket) /\ OneEach(tickets')
        /\ \A i \in DOMAIN tickets' : job'[tickets'[i].job].st # "none"
    BY <1>1, <2>3, StillQueued
  <2>5. /\ device' \in [Devices -> [user : Users \cup {NoUser}, enabled : BOOLEAN,
                                  users : SUBSET Users]]
        /\ \A d \in Devices : device'[d].enabled => device'[d].user \in Users
    BY <2>1, <2>2, Disabled
  <2>6. Place(j)' <= Place(j) \/ Place(j)' = IF "gone" = "retry" THEN 1 ELSE 0 BY <2>3
  <2> QED BY <1>1, <2>1, <2>3, <2>4, <2>5, <2>6, SavedKeeps
<1>3. CASE j \notin PhoneJobs
  <2>1. PICK k : k = worker[w] OBVIOUS
  <2>2. PICK rest : rest = <<<<j, "disable">>>> \o Tail(k.save) OBVIOUS
  <2>3. PICK plan : plan = k.plan OBVIOUS
  <2>4. Goto(w, plan, rest) /\ device' = device
    BY <1>3, <2>1, <2>2, <2>3 DEF SaveGone
  <2>5. PICK new : new = worker'[w] OBVIOUS
  <2>6. /\ worker' = [worker EXCEPT ![w] = new] /\ new.plan = plan /\ new.save = rest
        /\ \A x : InPlan(new, x) \/ InSave(new, x) =>
             x \in DOMAIN new.known /\ new.known[x] = worker[w].known[x]
    BY <2>4, <2>5, Went
  <2>7. k.save # <<>> /\ Head(k.save) = <<j, "gone">> /\ PassOK(k)
    BY <2>1, <1>1 DEF Saves, PushInv
  <2>8. /\ PassShape(new)
        /\ \A x : InPlan(new, x) <=> InPlan(k, x)
        /\ \A x : InSave(new, x) <=> InSave(k, x)
        /\ \A x : ToRetry(new, x) <=> ToRetry(k, x)
        /\ \A a \in DOMAIN new.save : a \in DOMAIN k.save /\ new.save[a][1] = k.save[a][1]
        /\ \A a \in DOMAIN new.save : new.save[a][2] = "disable" \/ new.save[a] = k.save[a]
    <3>1. Follows(k, new, j) BY <2>2, <2>3, <2>6, <2>7 DEF Follows
    <3>2. PassShape(k) BY <2>7 DEF PassOK
    <3> QED BY ONLY <3>1, <3>2, Followed
  <2>9. RefusedOK(new)
    <3> SUFFICES ASSUME NEW a \in DOMAIN new.save, new.save[a][2] = "refused"
                 PROVE  new.save[a][1] \in PhoneJobs /\ new.save[a][1][2] \in Bad
      BY DEF RefusedOK
    <3>1. a \in DOMAIN k.save /\ new.save[a] = k.save[a] BY <2>8
    <3> QED BY <3>1, <2>7 DEF PassOK, RefusedOK
  <2>10. /\ job' \in [Jobs -> JobRow] /\ Grows
         /\ \A x \in Jobs : Sound(x)' /\ (x # j => Place(x)' = Place(x))
         /\ \A x \in Jobs : job[x].st # "none" => job'[x].st # "none"
         /\ Place(j)' <= Place(j) \/ Place(j)' = 0
    <3>1. PICK st : st = "failed" OBVIOUS
    <3>2. st \in {"sent", "retry", "failed", "rejected", "disabled"} /\ st # "disabled" /\ st # "retry" BY <3>1
    <3>3. job' = IF job[j].st = "none" THEN job ELSE Set(j, st) BY <1>3, <3>1 DEF SaveGone
    <3>4. /\ job' \in [Jobs -> JobRow] /\ Grows
          /\ \A x \in Jobs : Sound(x)' /\ (x # j => Place(x)' = Place(x))
          /\ \A x \in Jobs : job[x].st # "none" => job'[x].st # "none"
          /\ Place(j)' <= Place(j) \/ Place(j)' = IF st = "retry" THEN 1 ELSE 0
      BY <1>1, <1>3, <3>2, <3>3, Recorded
    <3> QED BY <3>2, <3>4
  <2>11. /\ tickets' \in Seq(Ticket) /\ OneEach(tickets')
         /\ \A i \in DOMAIN tickets' : job'[tickets'[i].job].st # "none"
    BY <1>1, <2>10, StillQueued
  <2>12. /\ device' \in [Devices -> [user : Users \cup {NoUser}, enabled : BOOLEAN,
                                   users : SUBSET Users]]
         /\ \A d \in Devices : device'[d].enabled => device'[d].user \in Users
    BY <2>4 DEF PushInv, PushTyped
  <2>13. ASSUME NEW x \in Jobs PROVE Place(x)' + Load(new, x) <= Place(x) + Load(worker[w], x)
    <3>1. Load(new, x) = Load(worker[w], x) BY <2>1, <2>8 DEF Load, Carries
    <3>2. Load(worker[w], x) \in {0, 1} BY DEF Load
    <3>3. Place(x) \in {0, 1} /\ Place(x)' \in {0, 1} BY DEF Place
    <3>4. Place(x)' <= Place(x)
      <4>1. CASE x = j
        <5>1. Place(x)' <= Place(x) \/ Place(x)' = 0 BY <4>1, <2>10
        <5> QED BY <5>1, <3>3
      <4>2. CASE x # j
        <5>1. Place(x)' = Place(x) BY <4>2, <2>10
        <5> QED BY <5>1, <3>3
      <4> QED BY <4>1, <4>2
    <3> QED BY <3>1, <3>2, <3>3, <3>4
  <2>14. \A x : InPlan(new, x) \/ InSave(new, x) =>
           /\ x \in DOMAIN new.known /\ new.known[x] = worker[w].known[x]
           /\ InPlan(worker[w], x) \/ InSave(worker[w], x)
    BY <2>1, <2>6, <2>8
  <2>15. \A x \in Jobs : Sound(x)' BY <2>10
  <2> QED BY <1>1, <2>6, <2>8, <2>9, <2>10, <2>11, <2>12, <2>13, <2>14, <2>15, Stored
<1> QED BY <1>2, <1>3

------------------------------------------------------------------------------
(* All steps.                                                                 *)

LEMMA PushInitOK == PushInit => PushInv
<1> SUFFICES ASSUME PushInit PROVE PushInv OBVIOUS
<1>1. PICK home \in Households :
        /\ device = [d \in Devices |->
                       [user |-> NoUser, enabled |-> FALSE, users |-> home.users[d]]]
        /\ worker = [w \in 1 .. home.passes |-> Idle]
  BY DEF PushInit
<1>2. /\ note = [n \in Notes |-> [user |-> NoUser, open |-> FALSE]]
      /\ job = [j \in Jobs |-> NoJob] /\ writing = None
      /\ tickets = <<>> /\ receipts = {} /\ credit = [j \in Jobs |-> 1] /\ faults = 0
  BY DEF PushInit
<1>3. home.users \in [Devices -> SUBSET Users] /\ home.passes \in Nat
  <2>1. home \in [users : [Phones \cup Browsers -> SUBSET Users], passes : Nat] BY PushAssumption
  <2> QED BY <2>1 DEF Devices
<1>4. Workers = 1 .. home.passes /\ \A w \in Workers : worker[w] = Idle BY <1>1 DEF Workers
<1>5. PushTyped
  <2>1. device \in [Devices -> [user : Users \cup {NoUser}, enabled : BOOLEAN, users : SUBSET Users]]
    BY <1>1, <1>3
  <2>2. \A d \in Devices : device[d].enabled => device[d].user \in Users BY <1>1
  <2>3. job \in [Jobs -> JobRow] BY <1>2 DEF NoJob, JobRow
  <2>4. IsFiniteSet(Workers) BY <1>3, <1>4, FS_Interval
  <2>5. tickets \in Seq(Ticket) BY <1>2, EmptySeq
  <2>6. faults \in 0 .. MaxFaults BY <1>2, PushAssumption
  <2>7. note \in [Notes -> [user : Users \cup {NoUser}, open : BOOLEAN]] BY <1>2
  <2>8. credit \in [Jobs -> Int] BY <1>2
  <2> QED BY <1>2, <2>1, <2>2, <2>3, <2>4, <2>5, <2>6, <2>7, <2>8 DEF PushTyped
<1>6. WritingOK BY <1>2 DEF WritingOK
<1>7. OneEach(tickets) /\ QueuedOnce
  <2>1. DOMAIN tickets = {} BY <1>2, EmptySeq
  <2> QED BY <2>1, <1>2 DEF OneEach, QueuedOnce
<1>8. PassOK(Idle)
  <2>1. DOMAIN Idle.save = {} BY EmptySeq DEF Idle
  <2> QED BY <2>1, IdlePass DEF PassOK, KnownOK, RefusedOK
<1>9. ASSUME NEW j \in Jobs PROVE Sound(j) /\ Covered(j)
  <2>1. job[j] = NoJob /\ credit[j] = 1 BY <1>2
  <2>2. Sound(j) BY <2>1 DEF Sound, NoJob
  <2>3. Carriers(j) = {} BY <1>4, IdlePass DEF Carriers, Carries
  <2>4. Cardinality(Carriers(j)) = 0 BY <2>3, FS_EmptySet
  <2>5. Place(j) \in {0, 1} BY DEF Place
  <2>6. Covered(j) BY <2>1, <2>4, <2>5 DEF Covered
  <2> QED BY <2>2, <2>6
<1> QED BY <1>4, <1>5, <1>6, <1>7, <1>8, <1>9 DEF PushInv

LEMMA PushStutter == ASSUME PushInv, UNCHANGED pushVars PROVE PushInv'
<1>1. UNCHANGED <<device, note, job, writing, worker, tickets, receipts, credit, faults>>
  BY DEF pushVars
<1>2. Grows /\ \A j \in Jobs : Sound(j)' /\ Place(j)' <= Place(j) BY <1>1, JobsStay
<1>3. PushTyped' BY <1>1 DEF PushInv, PushTyped, Workers
<1>4. WritingOK' BY <1>1 DEF PushInv, WritingOK
<1> QED BY <1>1, <1>2, <1>3, <1>4, Quiet

LEMMA PushStep == ASSUME PushInv, PushNext PROVE PushInv'
<1> USE DEF PushNext
<1>1. ASSUME NEW n \in Notes,
             \/ \E u \in Users : WriteNotification(n, u)
             \/ \E d \in Devices : TestPush(n, d) \/ TestBrowser(n, d)
             \/ CloseNotification(n)
      PROVE  PushInv'
  BY <1>1, WriteNotificationKeeps, TestKeeps, CloseNotificationKeeps DEF TestPush, TestBrowser
<1>2. CASE CommitNotification \/ Materialize
  BY <1>2, CommitNotificationKeeps, MaterializeKeeps
<1>3. ASSUME NEW d \in Devices,
             \/ UnregisterPhone(d) \/ UnregisterBrowser(d)
             \/ \E u \in Users : RegisterPhone(u, d) \/ RegisterBrowser(u, d)
      PROVE  PushInv'
  BY <1>3, UnregisterPhoneKeeps, UnregisterBrowserKeeps, RegisterPhoneKeeps, RegisterBrowserKeeps
<1>4. ASSUME NEW j \in Jobs, Lapse(j) \/ Expire(j) \/ SaveReceipt(j) PROVE PushInv'
  BY <1>4, LapseKeeps, ExpireKeeps, SaveReceiptKeeps
<1>5. ASSUME NEW w \in Workers, ClaimPhones(w) \/ ClaimBrowsers(w) \/ Pass(w) \/ Die(w)
      PROVE  PushInv'
  <2>1. ASSUME Save(w) PROVE PushInv'
    BY <2>1, SaveSentKeeps, SaveGoneKeeps, SaveDisableKeeps, SaveFailureKeeps DEF Save
  <2>2. CASE Split(w) \/ Reject(w) \/ Fail(w) \/ Accept(w)
    BY <2>2, SplitKeeps, RejectKeeps, FailKeeps, AcceptKeeps
  <2>3. CASE ClaimPhones(w) \/ ClaimBrowsers(w) \/ Die(w)
    BY <2>3, ClaimPhonesKeeps, ClaimBrowsersKeeps, DieKeeps
  <2> QED BY <1>5, <2>1, <2>2, <2>3 DEF Pass
<1>6. CASE FetchReceipts \/ DropReceipts BY <1>6, FetchReceiptsKeeps, DropReceiptsKeeps
<1> QED BY <1>1, <1>2, <1>3, <1>4, <1>5, <1>6

LEMMA PushInvHolds == PushSpec => []PushInv
<1>1. PushInv /\ [PushNext]_pushVars => PushInv' BY PushStutter, PushStep
<1> QED BY PushInitOK, <1>1, PTL DEF PushSpec

\* Every value keeps its type, a phone's job is neither expired nor cancelled, a browser's
\* neither delivered nor disabled, and receipts belong to phones (the CHECKs of the two tables
\* of deliveries, whatever the workers, the devices and the notifications do).
THEOREM PushTypesHold == PushSpec => []PushTypeOK
BY PushInvHolds, RulesFollow, PTL

\* With any number of passes, devices and notifications: no device gets a notification more
\* often than its claims lapsed plus one, and a phone whose token Expo accepts is given up only
\* after its attempts are used up, by a receipt, or because its whole request was answered with
\* a status other than 400 (kept apart as "rejected"): whoever else was in a request answered
\* 400 costs it nothing (sendPushDeliveries, the claims and saves of RunPushDeliveryBatch and
\* RunWebPushBatch).
THEOREM OneCopyEach == PushSpec => []PushRules
BY PushInvHolds, RulesFollow, PTL

------------------------------------------------------------------------------
(* Town Hall.                                                                 *)

USE BoundsAssumption

HallRow == [st : {"none", "open", "closed", "gone"}, due : BOOLEAN, reported : BOOLEAN,
            chosen : Providers \cup {NoProvider}]
PartRow == [app : {"none", "pending", "admitted", "declined", "removed"},
            seat : {"none", "active", "removed"},
            offer : 0 .. MaxOffers, newest : 0 .. MaxOffers]
Deals == Requests \X (1 .. MaxOffers)
PairRow == [link : {"none", "accepted", "declined"} \cup Sides, blocks : SUBSET Sides,
            room : BOOLEAN, deals : [Deals -> {0, 1}]]
TxRow == [op : {"none", "approve", "say", "choose"}, p : Providers \cup {NoProvider},
          price : 0 .. MaxOffers, close : BOOLEAN]

Typed ==
    /\ scene \in Scenes
    /\ hall \in [Requests -> HallRow]
    /\ part \in [Requests -> [Providers -> PartRow]]
    /\ pair \in [Providers -> PairRow]
    /\ paid \in [Providers -> BOOLEAN]
    /\ tx \in [Requests \cup Providers -> TxRow]

\* What an open transaction on a room found and still relies on
Held(r) ==
    LET p == tx[r].p IN
    /\ hall[r].st = "open" /\ p \in Providers /\ tx[r].op # "none"
    /\ tx[r].op = "approve" => part[r][p].app = "pending"
    /\ tx[r].op \in {"say", "choose"} => part[r][p].seat = "active"
    /\ tx[r].op = "choose" => tx[r].price # 0 /\ tx[r].price = part[r][p].newest

\* Both tables of a provider agree, and the offer that stands is the newest one
PartOK(row) == (row.app = "admitted" <=> row.seat = "active") /\ row.offer = row.newest

\* A set that is counted against a limit
Within(S, limit) == IsFiniteSet(S) /\ Cardinality(S) <= limit

RoomOK(r) ==
    /\ \A p \in Providers : PartOK(part[r][p])
    /\ hall[r].st = "none" => Seated(r) = {}
    /\ Within(Seated(r), Seats)
    /\ Locked(r) => Held(r)

\* A private room is locked only by somebody who writes there
PairOK(p) ==
    /\ pair[p].blocks # {} => pair[p].link \in {"none", "declined"}
    /\ Locked(p) => pair[p].blocks = {}

PlanOK(p) == Within(RoomsOf(p), RoomLimit)

\* The choice of a request is in the private room of the chosen one
ChosenOK(r) ==
    hall[r].chosen # NoProvider =>
        \E n \in 1 .. MaxOffers : pair[hall[r].chosen].deals[<<r, n>>] = 1

Inv ==
    /\ Typed
    /\ \A r \in Requests : RoomOK(r) /\ ChosenOK(r)
    /\ \A p \in Providers : PairOK(p) /\ PlanOK(p)

------------------------------------------------------------------------------
(* Sets that are counted, and what stays when nobody touches it.              *)

LEMMA Fewer ==
    ASSUME NEW S, NEW T, NEW n \in Nat, Within(S, n), T \subseteq S
    PROVE  Within(T, n)
<1>1. IsFiniteSet(T) /\ Cardinality(T) <= Cardinality(S) BY FS_Subset DEF Within
<1>2. Cardinality(T) \in Nat /\ Cardinality(S) \in Nat BY <1>1, FS_CardinalityType DEF Within
<1> QED BY <1>1, <1>2 DEF Within

LEMMA OneMore ==
    ASSUME NEW S, NEW x, NEW n \in Nat, IsFiniteSet(S), Cardinality(S) < n
    PROVE  Within(S \cup {x}, n)
<1>1. /\ IsFiniteSet(S \cup {x}) /\ Cardinality(S) \in Nat
      /\ Cardinality(S \cup {x}) = IF x \in S THEN Cardinality(S) ELSE Cardinality(S) + 1
  BY FS_AddElement, FS_CardinalityType
<1> QED BY <1>1 DEF Within

LEMMA NothingCounted ==
    ASSUME NEW n \in Nat
    PROVE  Within({}, n)
BY FS_EmptySet DEF Within

LEMMA RoomStays ==
    ASSUME NEW r \in Requests, RoomOK(r),
           hall'[r].st = hall[r].st, part'[r] = part[r], tx'[r] = tx[r]
    PROVE  RoomOK(r)'
BY DEF RoomOK, Seated, Locked, Held

LEMMA PairStays ==
    ASSUME NEW p \in Providers, PairOK(p), tx'[p] = tx[p],
           pair'[p].blocks = pair[p].blocks, pair'[p].link = pair[p].link
    PROVE  PairOK(p)'
BY DEF PairOK, Locked

LEMMA PlanStays ==
    ASSUME NEW p \in Providers, PlanOK(p),
           \A r \in Requests :
              hall'[r].st = "open" /\ ~hall'[r].due /\ part'[r][p].seat = "active" =>
                 hall[r].st = "open" /\ ~hall[r].due /\ part[r][p].seat = "active"
    PROVE  PlanOK(p)'
<1>1. RoomsOf(p)' \subseteq RoomsOf(p) BY DEF RoomsOf, Seated
<1>2. PICK S : S = RoomsOf(p)' OBVIOUS
<1>3. Within(S, RoomLimit) BY <1>1, <1>2, Fewer DEF PlanOK
<1> QED BY <1>2, <1>3 DEF PlanOK, Within

\* A choice that was recorded stays recorded
LEMMA ChosenStays ==
    ASSUME NEW r \in Requests, ChosenOK(r), hall[r].chosen \in Providers \cup {NoProvider},
           hall'[r].chosen = hall[r].chosen,
           \A p \in Providers, d \in Deals : pair[p].deals[d] = 1 => pair'[p].deals[d] = 1
    PROVE  ChosenOK(r)'
BY DEF ChosenOK, Deals

LEMMA Rows ==
    ASSUME Inv
    PROVE  /\ \A r \in Requests : /\ hall[r] \in HallRow /\ part[r] \in [Providers -> PartRow]
                                  /\ hall[r].chosen \in Providers \cup {NoProvider}
                                  /\ tx[r] \in TxRow
           /\ \A p \in Providers : pair[p] \in PairRow /\ tx[p] \in TxRow
           /\ Typed
BY DEF Inv, Typed, HallRow

------------------------------------------------------------------------------
(* Rooms: posted, reported, overdue, closed and purged.                       *)

\* The rows of rooms change and nothing else: a locked room keeps its state, and
\* none with providers in it opens
LEMMA HallStep ==
    ASSUME Inv, UNCHANGED <<scene, part, pair, paid, tx>>,
           hall' \in [Requests -> HallRow],
           \A r \in Requests :
              /\ hall'[r].chosen = hall[r].chosen
              /\ hall'[r].st = hall[r].st \/ (~Locked(r) /\ hall'[r].st # "none")
              /\ hall'[r].st = "open" /\ ~hall'[r].due =>
                   (hall[r].st = "open" /\ ~hall[r].due) \/ Seated(r) = {}
    PROVE  Inv'
<1>1. Typed' BY Rows DEF Typed
<1>2. ASSUME NEW r \in Requests PROVE RoomOK(r)'
  <2>1. RoomOK(r) BY DEF Inv
  <2>2. CASE hall'[r].st = hall[r].st BY <2>1, <2>2, RoomStays
  <2>3. CASE ~Locked(r) /\ hall'[r].st # "none" BY <2>1, <2>3 DEF RoomOK, Seated, Locked
  <2> QED BY <2>2, <2>3
<1>3. ASSUME NEW r \in Requests PROVE ChosenOK(r)' BY Rows, ChosenStays DEF Inv
<1>4. ASSUME NEW p \in Providers PROVE PairOK(p)' BY PairStays DEF Inv
<1>5. ASSUME NEW p \in Providers PROVE PlanOK(p)'
  <2>1. ASSUME NEW r \in Requests, hall'[r].st = "open", ~hall'[r].due,
               part'[r][p].seat = "active"
        PROVE  hall[r].st = "open" /\ ~hall[r].due /\ part[r][p].seat = "active"
    BY <2>1 DEF Seated
  <2> QED BY <2>1, PlanStays DEF Inv
<1> QED BY <1>1, <1>2, <1>3, <1>4, <1>5 DEF Inv

LEMMA HallRowStep ==
    ASSUME Inv, NEW r \in Requests, NEW row \in HallRow, hall' = [hall EXCEPT ![r] = row],
           UNCHANGED <<scene, part, pair, paid, tx>>,
           row.chosen = hall[r].chosen,
           row.st = hall[r].st \/ (~Locked(r) /\ row.st # "none"),
           row.st = "open" /\ ~row.due => (hall[r].st = "open" /\ ~hall[r].due) \/ Seated(r) = {}
    PROVE  Inv'
<1>1. hall \in [Requests -> HallRow] BY Rows DEF Typed
<1>2. hall' \in [Requests -> HallRow] BY <1>1
<1>3. hall'[r] = row /\ \A q \in Requests : q # r => hall'[q] = hall[q] BY <1>1
<1>4. \A q \in Requests :
              /\ hall'[q].chosen = hall[q].chosen
              /\ hall'[q].st = hall[q].st \/ (~Locked(q) /\ hall'[q].st # "none")
              /\ hall'[q].st = "open" /\ ~hall'[q].due =>
                   (hall[q].st = "open" /\ ~hall[q].due) \/ Seated(q) = {}
  BY <1>3
<1> QED BY <1>2, <1>4, HallStep

LEMMA HallCreateKeeps ==
    ASSUME Inv, NEW r \in Requests, HallCreate(r)
    PROVE  Inv'
<1>1. PICK row : row = [hall[r] EXCEPT !.st = "open"] OBVIOUS
<1>2. row \in HallRow /\ row.chosen = hall[r].chosen /\ row.st = "open"
  BY <1>1, Rows DEF HallRow
<1>3. hall' = [hall EXCEPT ![r] = row] BY <1>1, Rows DEF HallCreate, Typed
<1>4. Seated(r) = {} /\ ~Locked(r) BY DEF Inv, RoomOK, Held, HallCreate
<1>5. UNCHANGED <<scene, part, pair, paid, tx>> BY DEF HallCreate
<1> QED BY <1>2, <1>3, <1>4, <1>5, HallRowStep

LEMMA DeadlineKeeps ==
    ASSUME Inv, NEW r \in Requests, DeadlinePasses(r)
    PROVE  Inv'
<1>1. PICK row : row = [hall[r] EXCEPT !.due = TRUE] OBVIOUS
<1>2. row \in HallRow /\ row.chosen = hall[r].chosen /\ row.st = hall[r].st /\ row.due
  BY <1>1, Rows DEF HallRow
<1>3. hall' = [hall EXCEPT ![r] = row] BY <1>1, Rows DEF DeadlinePasses, Typed
<1>4. UNCHANGED <<scene, part, pair, paid, tx>> BY DEF DeadlinePasses
<1> QED BY <1>2, <1>3, <1>4, HallRowStep

LEMMA ReportKeeps ==
    ASSUME Inv, NEW r \in Requests, Report(r)
    PROVE  Inv'
<1>1. PICK row : row = [hall[r] EXCEPT !.reported = TRUE] OBVIOUS
<1>2. /\ row \in HallRow /\ row.chosen = hall[r].chosen /\ row.st = hall[r].st
      /\ row.due = hall[r].due
  BY <1>1, Rows DEF HallRow
<1>3. hall' = [hall EXCEPT ![r] = row] BY <1>1, Rows DEF Report, Typed
<1>4. UNCHANGED <<scene, part, pair, paid, tx>> BY DEF Report
<1> QED BY <1>2, <1>3, <1>4, HallRowStep

LEMMA PurgeKeeps ==
    ASSUME Inv, Purge
    PROVE  Inv'
<1>1. \A r \in Requests :
         hall'[r] = IF r \in Ended
                    THEN [hall[r] EXCEPT !.st = IF hall[r].reported THEN "closed" ELSE "gone"]
                    ELSE hall[r]
  BY DEF Purge
<1>2. ASSUME NEW r \in Requests
      PROVE  /\ hall'[r] \in HallRow /\ hall'[r].chosen = hall[r].chosen
             /\ hall'[r] = hall[r] \/ (~Locked(r) /\ hall'[r].st \in {"closed", "gone"})
  <2>1. hall[r] \in HallRow BY Rows
  <2>2. CASE r \in Ended
    <3>1. ~Locked(r) BY <2>2 DEF Ended
    <3>2. hall'[r] = [hall[r] EXCEPT !.st = IF hall[r].reported THEN "closed" ELSE "gone"]
      BY <1>1, <2>2
    <3> QED BY <2>1, <3>1, <3>2 DEF HallRow
  <2> QED BY <1>1, <2>1, <2>2 DEF HallRow
<1>3. hall' \in [Requests -> HallRow] BY <1>2 DEF Purge
<1>4. UNCHANGED <<scene, part, pair, paid, tx>> BY DEF Purge
<1>5. \A r \in Requests :
              /\ hall'[r].chosen = hall[r].chosen
              /\ hall'[r].st = hall[r].st \/ (~Locked(r) /\ hall'[r].st # "none")
              /\ hall'[r].st = "open" /\ ~hall'[r].due =>
                   (hall[r].st = "open" /\ ~hall[r].due) \/ Seated(r) = {}
  BY <1>2
<1> QED BY <1>3, <1>4, <1>5, HallStep

------------------------------------------------------------------------------
(* Seats, applications and offers.                                            *)

\* In a room that nobody holds, rows are written by which nobody gets a seat
LEMMA PartStep ==
    ASSUME Inv, NEW r \in Requests, NEW rows \in [Providers -> PartRow],
           part' = [part EXCEPT ![r] = rows], ~Locked(r),
           \A p \in Providers : /\ PartOK(rows[p])
                                /\ rows[p].seat = "active" => part[r][p].seat = "active",
           hall' \in [Requests -> HallRow],
           \A q \in Requests : /\ hall'[q].chosen = hall[q].chosen
                               /\ q # r => hall'[q] = hall[q],
           hall'[r].st # "none",
           hall'[r].st = "open" /\ ~hall'[r].due => hall[r].st = "open" /\ ~hall[r].due,
           UNCHANGED <<scene, pair, paid, tx>>
    PROVE  Inv'
<1>1. part \in [Requests -> [Providers -> PartRow]] BY Rows DEF Typed
<1>2. /\ part' \in [Requests -> [Providers -> PartRow]] /\ part'[r] = rows
      /\ \A q \in Requests : q # r => part'[q] = part[q]
  BY <1>1
<1>3. Typed' BY <1>2, Rows DEF Typed
<1>4. ASSUME NEW q \in Requests PROVE RoomOK(q)'
  <2>1. CASE q # r BY <1>2, <2>1, RoomStays DEF Inv
  <2>2. CASE q = r
    <3>1. PICK S : S = Seated(r)' OBVIOUS
    <3>2. S \subseteq Seated(r) BY <1>2, <3>1 DEF Seated
    <3>3. Within(S, Seats) BY <3>2, Fewer DEF Inv, RoomOK
    <3>4. Within(Seated(r), Seats)' BY <3>1, <3>3 DEF Within
    <3> QED BY <1>2, <2>2, <3>4 DEF RoomOK, Locked, PartOK
  <2> QED BY <2>1, <2>2
<1>5. ASSUME NEW q \in Requests PROVE ChosenOK(q)' BY Rows, ChosenStays DEF Inv
<1>6. ASSUME NEW p \in Providers PROVE PairOK(p)' BY PairStays DEF Inv
<1>7. ASSUME NEW p \in Providers PROVE PlanOK(p)'
  <2>1. ASSUME NEW q \in Requests, hall'[q].st = "open", ~hall'[q].due,
               part'[q][p].seat = "active"
        PROVE  hall[q].st = "open" /\ ~hall[q].due /\ part[q][p].seat = "active"
    BY <1>2, <2>1
  <2> QED BY <2>1, PlanStays DEF Inv
<1> QED BY <1>3, <1>4, <1>5, <1>6, <1>7 DEF Inv

\* The row of one provider in an open room that nobody holds
LEMMA PartRowStep ==
    ASSUME Inv, NEW r \in Requests, NEW p \in Providers, NEW row \in PartRow, OpenHall(r),
           part' = [part EXCEPT ![r][p] = row], PartOK(row),
           row.seat = "active" => part[r][p].seat = "active",
           UNCHANGED <<scene, hall, pair, paid, tx>>
    PROVE  Inv'
<1>1. part \in [Requests -> [Providers -> PartRow]] /\ part[r] \in [Providers -> PartRow]
  BY Rows DEF Typed
<1>2. PICK rows : rows = [part[r] EXCEPT ![p] = row] OBVIOUS
<1>3. /\ rows \in [Providers -> PartRow] /\ rows[p] = row
      /\ \A o \in Providers : o # p => rows[o] = part[r][o]
  BY <1>1, <1>2
<1>4. part' = [part EXCEPT ![r] = rows] BY <1>1, <1>2
<1>5. \A o \in Providers : PartOK(rows[o]) /\ (rows[o].seat = "active" => part[r][o].seat = "active")
  BY <1>3 DEF Inv, RoomOK
<1>6. ~Locked(r) /\ hall[r].st # "none" BY DEF OpenHall
<1>7. hall' \in [Requests -> HallRow] BY Rows DEF Typed
<1> QED BY <1>3, <1>4, <1>5, <1>6, <1>7, PartStep

LEMMA ApplyKeeps ==
    ASSUME Inv, NEW r \in Requests, NEW p \in Providers, HallApply(r, p) \/ Decline(r, p)
    PROVE  Inv'
<1>1. PICK app \in {"pending", "declined"} : part' = [part EXCEPT ![r][p].app = app]
  BY DEF HallApply, Decline
<1>2. OpenHall(r) /\ UNCHANGED <<scene, hall, pair, paid, tx>> BY DEF HallApply, Decline
<1>3. PICK row : row = [part[r][p] EXCEPT !.app = app] OBVIOUS
<1>4. part[r][p] \in PartRow /\ PartOK(part[r][p]) BY Rows DEF Inv, RoomOK
<1>5. part[r][p].app # "admitted" BY DEF HallApply, Decline
<1>6. row \in PartRow /\ PartOK(row) /\ row.seat # "active"
  BY <1>3, <1>4, <1>5 DEF PartRow, PartOK
<1>7. part' = [part EXCEPT ![r][p] = row] BY <1>1, <1>3, Rows DEF Typed
<1> QED BY <1>2, <1>6, <1>7, PartRowStep

LEMMA RemoveKeeps ==
    ASSUME Inv, NEW r \in Requests, NEW p \in Providers, RemoveMember(r, p)
    PROVE  Inv'
<1>1. /\ OpenHall(r) /\ UNCHANGED <<scene, hall, pair, paid, tx>>
      /\ part' = [part EXCEPT ![r][p].app = "removed", ![r][p].seat = "removed"]
  BY DEF RemoveMember
<1>2. PICK row : row = [part[r][p] EXCEPT !.app = "removed", !.seat = "removed"] OBVIOUS
<1>3. part[r][p] \in PartRow /\ PartOK(part[r][p]) BY Rows DEF Inv, RoomOK
<1>4. row \in PartRow /\ PartOK(row) /\ row.seat # "active"
  BY <1>2, <1>3 DEF PartRow, PartOK
<1>5. part' = [part EXCEPT ![r][p] = row] BY <1>1, <1>2, Rows DEF Typed
<1> QED BY <1>1, <1>4, <1>5, PartRowStep

LEMMA OfferKeeps ==
    ASSUME Inv, NEW r \in Requests, NEW p \in Providers, NEW n \in 1 .. MaxOffers,
           HallOffer(r, p, n)
    PROVE  Inv'
<1>1. /\ OpenHall(r) /\ UNCHANGED <<scene, hall, pair, paid, tx>>
      /\ part' = [part EXCEPT ![r][p].offer = n, ![r][p].newest = n]
  BY DEF HallOffer
<1>2. PICK row : row = [part[r][p] EXCEPT !.offer = n, !.newest = n] OBVIOUS
<1>3. part[r][p] \in PartRow /\ PartOK(part[r][p]) /\ n \in 0 .. MaxOffers
  BY Rows DEF Inv, RoomOK
<1>4. row \in PartRow /\ PartOK(row) /\ row.seat = part[r][p].seat
  BY <1>2, <1>3 DEF PartRow, PartOK
<1>5. part' = [part EXCEPT ![r][p] = row] BY <1>1, <1>2, Rows DEF Typed
<1> QED BY <1>1, <1>4, <1>5, PartRowStep

\* closeHallTx leaves nobody in the room
LEMMA Emptying ==
    ASSUME Inv, NEW r \in Requests
    PROVE  /\ Emptied(r) \in [Providers -> PartRow]
           /\ \A p \in Providers : PartOK(Emptied(r)[p]) /\ Emptied(r)[p].seat # "active"
<1>1. ASSUME NEW p \in Providers
      PROVE  /\ Removed(part[r][p]) \in PartRow /\ PartOK(Removed(part[r][p]))
             /\ Removed(part[r][p]).seat # "active"
  <2>1. part[r][p] \in PartRow /\ PartOK(part[r][p]) BY Rows DEF Inv, RoomOK
  <2>2. PICK row \in PartRow : row = part[r][p] BY <2>1
  <2>3. PICK out : out = Removed(row) OBVIOUS
  <2>4. /\ out.seat = IF row.seat = "none" THEN row.seat ELSE "removed"
        /\ out.app = IF row.app \in {"pending", "admitted"} THEN "removed" ELSE row.app
        /\ out.offer = row.offer /\ out.newest = row.newest
        /\ out = [app |-> out.app, seat |-> out.seat, offer |-> out.offer, newest |-> out.newest]
    BY <2>3 DEF Removed, PartRow
  <2>5. out \in PartRow /\ out.seat # "active" /\ out.app # "admitted" BY <2>4 DEF PartRow
  <2> QED BY <2>1, <2>2, <2>3, <2>4, <2>5 DEF PartOK
<1> QED BY <1>1 DEF Emptied

LEMMA CloseKeeps ==
    ASSUME Inv, NEW r \in Requests, HallClose(r)
    PROVE  Inv'
<1>1. /\ OpenHall(r) /\ UNCHANGED <<scene, pair, paid, tx>>
      /\ hall' = [hall EXCEPT ![r].st = "closed"] /\ part' = [part EXCEPT ![r] = Emptied(r)]
  BY DEF HallClose
<1>2. PICK rows \in [Providers -> PartRow] :
         /\ rows = Emptied(r)
         /\ \A p \in Providers : PartOK(rows[p]) /\ rows[p].seat # "active"
  BY Emptying
<1>3. PICK row : row = [hall[r] EXCEPT !.st = "closed"] OBVIOUS
<1>4. row \in HallRow /\ row.st = "closed" /\ row.chosen = hall[r].chosen
  BY <1>3, Rows DEF HallRow
<1>5. hall' = [hall EXCEPT ![r] = row] BY <1>1, <1>3, Rows DEF Typed
<1>6. /\ hall' \in [Requests -> HallRow] /\ hall'[r] = row
      /\ \A q \in Requests : q # r => hall'[q] = hall[q]
  BY <1>4, <1>5, Rows DEF Typed
<1>7. ~Locked(r) BY <1>1 DEF OpenHall
<1> QED BY <1>1, <1>2, <1>4, <1>6, <1>7, PartStep

------------------------------------------------------------------------------
(* Transactions that stay open.                                               *)

LEMMA NoTxTyped == NoTx \in TxRow /\ NoTx.op = "none"
<1>1. 0 \in 0 .. MaxOffers OBVIOUS
<1> QED BY <1>1 DEF NoTx, TxRow

\* A room is taken or given back; what its holder relies on is there
LEMMA TxStep ==
    ASSUME Inv, NEW x \in Requests \cup Providers, NEW row \in TxRow,
           tx' = [tx EXCEPT ![x] = row], UNCHANGED <<scene, hall, part, pair, paid>>,
           row # NoTx /\ x \in Requests => Held(x)',
           row # NoTx /\ x \in Providers => pair[x].blocks = {}
    PROVE  Inv'
<1>1. tx \in [Requests \cup Providers -> TxRow] BY Rows DEF Typed
<1>2. /\ tx' \in [Requests \cup Providers -> TxRow] /\ tx'[x] = row
      /\ \A y \in Requests \cup Providers : y # x => tx'[y] = tx[y]
  BY <1>1
<1>3. Typed' BY <1>2, Rows DEF Typed
<1>4. ASSUME NEW r \in Requests PROVE RoomOK(r)'
  <2>1. CASE r # x BY <1>2, <2>1, RoomStays DEF Inv
  <2>2. CASE r = x
    <3>1. RoomOK(r) BY DEF Inv
    <3>2. Within(Seated(r), Seats)' BY <3>1 DEF RoomOK, Seated, Within
    <3>3. Locked(r)' => Held(r)' BY <1>2, <2>2 DEF Locked
    <3> QED BY <3>1, <3>2, <3>3 DEF RoomOK, Seated
  <2> QED BY <2>1, <2>2
<1>5. ASSUME NEW r \in Requests PROVE ChosenOK(r)' BY Rows, ChosenStays DEF Inv
<1>6. ASSUME NEW p \in Providers PROVE PairOK(p)'
  <2>1. CASE p # x BY <1>2, <2>1, PairStays DEF Inv
  <2>2. CASE p = x BY <1>2, <2>2 DEF Inv, PairOK, Locked
  <2> QED BY <2>1, <2>2
<1>7. ASSUME NEW p \in Providers PROVE PlanOK(p)' BY PlanStays DEF Inv
<1> QED BY <1>3, <1>4, <1>5, <1>6, <1>7 DEF Inv

LEMMA BeginApproveKeeps ==
    ASSUME Inv, NEW r \in Requests, NEW p \in Providers, BeginApprove(r, p)
    PROVE  Inv'
<1>1. /\ OpenHall(r) /\ part[r][p].app = "pending"
      /\ tx' = [tx EXCEPT ![r] = [NoTx EXCEPT !.op = "approve", !.p = p]]
      /\ UNCHANGED <<scene, hall, part, pair, paid>>
  BY DEF BeginApprove
<1>2. PICK row : row = [NoTx EXCEPT !.op = "approve", !.p = p] OBVIOUS
<1>3. row \in TxRow /\ row.op = "approve" /\ row.p = p BY <1>2, NoTxTyped DEF TxRow
<1>4. tx' = [tx EXCEPT ![r] = row] /\ tx'[r] = row BY <1>1, <1>2, Rows DEF Typed
<1>5. Held(r)' BY <1>1, <1>3, <1>4 DEF Held, OpenHall
<1> QED BY <1>1, <1>3, <1>4, <1>5, TxStep

LEMMA BeginSayKeeps ==
    ASSUME Inv, NEW x \in Requests \cup Providers, NEW p \in Providers, BeginSay(x, p)
    PROVE  Inv'
<1>1. /\ UNCHANGED <<scene, hall, part, pair, paid>>
      /\ tx' = [tx EXCEPT ![x] = [NoTx EXCEPT !.op = "say", !.p = p]]
  BY DEF BeginSay
<1>2. PICK row : row = [NoTx EXCEPT !.op = "say", !.p = p] OBVIOUS
<1>3. row \in TxRow /\ row.op = "say" /\ row.p = p BY <1>2, NoTxTyped DEF TxRow
<1>4. tx' = [tx EXCEPT ![x] = row] /\ tx'[x] = row BY <1>1, <1>2, Rows DEF Typed
<1>5. ASSUME x \in Requests PROVE Held(x)'
  <2>1. OpenHall(x) /\ p \in Seated(x) BY <1>5 DEF BeginSay
  <2> QED BY <1>1, <1>3, <1>4, <2>1 DEF Held, OpenHall, Seated
<1>6. ASSUME x \in Providers PROVE pair[x].blocks = {} BY <1>6 DEF BeginSay
<1> QED BY <1>1, <1>3, <1>4, <1>5, <1>6, TxStep

LEMMA BeginChooseKeeps ==
    ASSUME Inv, NEW r \in Requests, NEW p \in Providers, NEW close \in BOOLEAN,
           BeginChoose(r, p, close)
    PROVE  Inv'
<1>1. /\ OpenHall(r) /\ part[r][p].offer > 0 /\ p \in Seated(r)
      /\ tx' = [tx EXCEPT ![r] = [op |-> "choose", p |-> p, price |-> part[r][p].offer,
                                  close |-> close]]
      /\ UNCHANGED <<scene, hall, part, pair, paid>>
  BY DEF BeginChoose
<1>2. part[r][p] \in PartRow /\ part[r][p].offer = part[r][p].newest
  BY Rows DEF Inv, RoomOK, PartOK
<1>3. PICK row : row = [op |-> "choose", p |-> p, price |-> part[r][p].offer, close |-> close]
  OBVIOUS
<1>4. /\ row \in TxRow /\ row.op = "choose" /\ row.p = p /\ row.price = part[r][p].newest
      /\ row.price # 0
  BY <1>1, <1>2, <1>3 DEF TxRow, PartRow
<1>5. tx' = [tx EXCEPT ![r] = row] /\ tx'[r] = row BY <1>1, <1>3, Rows DEF Typed
<1>6. Held(r)' BY <1>1, <1>4, <1>5 DEF Held, OpenHall, Seated
<1> QED BY <1>1, <1>4, <1>5, <1>6, TxStep

LEMMA LetGoKeeps ==
    ASSUME Inv, NEW x \in Requests \cup Providers, EndSay(x) \/ Rollback(x)
    PROVE  Inv'
<1>1. tx' = [tx EXCEPT ![x] = NoTx] /\ UNCHANGED <<scene, hall, part, pair, paid>>
  BY DEF EndSay, Rollback, End
<1> QED BY <1>1, NoTxTyped, TxStep

\* The seat that was free is given away: to one who is in one room more now
LEMMA EndApproveKeeps ==
    ASSUME Inv, NEW r \in Requests, EndApprove(r)
    PROVE  Inv'
<1>1. PICK p : p = tx[r].p OBVIOUS
<1>2. /\ tx[r].op = "approve" /\ Cardinality(Seated(r)) < Seats
      /\ Cardinality(RoomsOf(p)) < RoomLimit
      /\ part' = [part EXCEPT ![r][p].app = "admitted", ![r][p].seat = "active"]
      /\ tx' = [tx EXCEPT ![r] = NoTx] /\ UNCHANGED <<scene, hall, pair, paid>>
  BY <1>1 DEF EndApprove, End
<1>3. Held(r) BY <1>2, NoTxTyped DEF Inv, RoomOK, Locked
<1>4. p \in Providers /\ hall[r].st = "open" BY <1>1, <1>3 DEF Held
<1>5. part[r] \in [Providers -> PartRow] /\ PartOK(part[r][p]) BY <1>4, Rows DEF Inv, RoomOK
<1>6. PICK row : row = [part[r][p] EXCEPT !.app = "admitted", !.seat = "active"] OBVIOUS
<1>7. row \in PartRow /\ PartOK(row) /\ row.seat = "active"
  BY <1>4, <1>5, <1>6 DEF PartRow, PartOK
<1>8. PICK rows : rows = [part[r] EXCEPT ![p] = row] OBVIOUS
<1>9. /\ rows \in [Providers -> PartRow] /\ rows[p] = row
      /\ \A o \in Providers : o # p => rows[o] = part[r][o]
  BY <1>4, <1>5, <1>7, <1>8
<1>10. part' = [part EXCEPT ![r] = rows] BY <1>2, <1>4, <1>5, <1>6, <1>8, Rows DEF Typed
<1>11. /\ part' \in [Requests -> [Providers -> PartRow]] /\ part'[r] = rows
       /\ \A q \in Requests : q # r => part'[q] = part[q]
  BY <1>9, <1>10, Rows DEF Typed
<1>12. /\ tx' \in [Requests \cup Providers -> TxRow] /\ tx'[r] = NoTx
       /\ \A x \in Requests \cup Providers : x # r => tx'[x] = tx[x]
  BY <1>2, NoTxTyped, Rows DEF Typed
<1>13. Typed' BY <1>2, <1>11, <1>12, Rows DEF Typed
<1>14. ASSUME NEW q \in Requests PROVE RoomOK(q)'
  <2>1. CASE q # r BY <1>2, <1>11, <1>12, <2>1, RoomStays DEF Inv
  <2>2. CASE q = r
    <3>1. PICK S : S = Seated(r)' OBVIOUS
    <3>2. S = Seated(r) \cup {p} BY <1>4, <1>7, <1>9, <1>11, <3>1 DEF Seated
    <3>3. IsFiniteSet(Seated(r)) BY DEF Inv, RoomOK, Within
    <3>4. Within(S, Seats) BY <1>2, <3>2, <3>3, OneMore
    <3>5. Within(Seated(r), Seats)' BY <3>1, <3>4 DEF Within
    <3>6. \A o \in Providers : PartOK(rows[o]) BY <1>7, <1>9 DEF Inv, RoomOK
    <3>7. \A o \in Providers : PartOK(part[r][o])' BY <1>11, <3>6 DEF PartOK
    <3>8. hall'[r].st # "none" /\ ~Locked(r)' BY <1>2, <1>4, <1>12 DEF Locked
    <3> QED BY <2>2, <3>5, <3>7, <3>8 DEF RoomOK
  <2> QED BY <2>1, <2>2
<1>15. ASSUME NEW q \in Requests PROVE ChosenOK(q)' BY <1>2, Rows, ChosenStays DEF Inv
<1>16. ASSUME NEW o \in Providers PROVE PairOK(o)' BY <1>2, <1>12, PairStays DEF Inv
<1>17. ASSUME NEW o \in Providers PROVE PlanOK(o)'
  <2>1. CASE o # p
    <3>1. \A q \in Requests : part'[q][o].seat = part[q][o].seat BY <1>9, <1>11, <2>1
    <3> QED BY <1>2, <3>1, PlanStays DEF Inv
  <2>2. CASE o = p
    <3>1. PICK S : S = RoomsOf(p)' OBVIOUS
    <3>2. S \subseteq RoomsOf(p) \cup {r} BY <1>2, <1>11, <3>1 DEF RoomsOf, Seated
    <3>3. IsFiniteSet(RoomsOf(p)) BY <1>4 DEF Inv, PlanOK, Within
    <3>4. Within(RoomsOf(p) \cup {r}, RoomLimit) BY <1>2, <3>3, OneMore
    <3>5. Within(S, RoomLimit) BY <3>2, <3>4, Fewer
    <3> QED BY <2>2, <3>1, <3>5 DEF PlanOK, Within
  <2> QED BY <2>1, <2>2
<1> QED BY <1>13, <1>14, <1>15, <1>16, <1>17 DEF Inv

\* The choice is recorded in the private room, and the request may be closed
LEMMA EndChooseKeeps ==
    ASSUME Inv, NEW r \in Requests, EndChoose(r)
    PROVE  Inv'
<1>1. PICK p : p = tx[r].p OBVIOUS
<1>2. PICK d : d = <<r, tx[r].price>> OBVIOUS
<1>3. /\ tx[r].op = "choose" /\ ~Locked(p) /\ pair[p].blocks = {}
      /\ pair' = [pair EXCEPT ![p].room = TRUE, ![p].deals[d] = 1]
      /\ hall' = [hall EXCEPT ![r].chosen = p, ![r].st = IF tx[r].close THEN "closed" ELSE @]
      /\ part' = IF tx[r].close THEN [part EXCEPT ![r] = Emptied(r)] ELSE part
      /\ tx' = [tx EXCEPT ![r] = NoTx] /\ UNCHANGED <<scene, paid>>
  BY <1>1, <1>2 DEF EndChoose, End
<1>4. Held(r) BY <1>3, NoTxTyped DEF Inv, RoomOK, Locked
<1>5. /\ p \in Providers /\ hall[r].st = "open" /\ tx[r].price \in 1 .. MaxOffers
      /\ d \in Deals
  <2>1. p \in Providers /\ hall[r].st = "open" /\ tx[r].price # 0
    BY <1>1, <1>3, <1>4 DEF Held
  <2>2. tx[r].price \in 0 .. MaxOffers BY Rows DEF TxRow
  <2> QED BY <1>2, <2>1, <2>2 DEF Deals
<1>6. PICK row : row = [hall[r] EXCEPT !.chosen = p, !.st = IF tx[r].close THEN "closed" ELSE @]
  OBVIOUS
<1>7. /\ row \in HallRow /\ row.chosen = p /\ row.due = hall[r].due
      /\ row.st \in {"open", "closed"}
  BY <1>5, <1>6, Rows DEF HallRow
<1>8. /\ hall' \in [Requests -> HallRow] /\ hall'[r] = row
      /\ \A q \in Requests : q # r => hall'[q] = hall[q]
  BY <1>3, <1>6, <1>7, Rows DEF Typed
<1>9. PICK pr : pr = [pair[p] EXCEPT !.room = TRUE, !.deals[d] = 1] OBVIOUS
<1>10. pair[p] \in PairRow BY <1>5, Rows
<1>11. /\ pr.deals = [pair[p].deals EXCEPT ![d] = 1] /\ pr.link = pair[p].link
       /\ pr.blocks = pair[p].blocks /\ pr \in PairRow
  BY <1>9, <1>10 DEF PairRow
<1>12. /\ pair' \in [Providers -> PairRow] /\ pair'[p] = pr
       /\ \A o \in Providers : o # p => pair'[o] = pair[o]
  BY <1>3, <1>5, <1>9, <1>11, Rows DEF Typed
<1>13. /\ pair'[p].deals[d] = 1
       /\ \A o \in Providers : /\ pair'[o].link = pair[o].link
                               /\ pair'[o].blocks = pair[o].blocks
       /\ \A o \in Providers, e \in Deals : pair[o].deals[e] = 1 => pair'[o].deals[e] = 1
  BY <1>5, <1>10, <1>11, <1>12 DEF PairRow
<1>14. PICK rows \in [Providers -> PartRow] :
         /\ part' = [part EXCEPT ![r] = rows]
         /\ \A o \in Providers : /\ PartOK(rows[o])
                                 /\ rows[o].seat = "active" => part[r][o].seat = "active"
  <2>1. CASE tx[r].close
    <3>1. part' = [part EXCEPT ![r] = Emptied(r)] BY <1>3, <2>1
    <3> QED BY <3>1, Emptying
  <2>2. CASE ~tx[r].close
    <3>1. part' = [part EXCEPT ![r] = part[r]] BY <1>3, <2>2, Rows DEF Typed
    <3>2. \A o \in Providers : PartOK(part[r][o]) BY DEF Inv, RoomOK
    <3> QED BY <3>1, <3>2, Rows
  <2> QED BY <2>1, <2>2
<1>15. /\ part' \in [Requests -> [Providers -> PartRow]] /\ part'[r] = rows
       /\ \A q \in Requests : q # r => part'[q] = part[q]
  BY <1>14, Rows DEF Typed
<1>16. /\ tx' \in [Requests \cup Providers -> TxRow] /\ tx'[r] = NoTx
       /\ \A x \in Requests \cup Providers : x # r => tx'[x] = tx[x]
  BY <1>3, NoTxTyped, Rows DEF Typed
<1>17. Typed' BY <1>3, <1>8, <1>12, <1>15, <1>16, Rows DEF Typed
<1>18. ASSUME NEW q \in Requests PROVE RoomOK(q)'
  <2>1. CASE q # r BY <1>8, <1>15, <1>16, <2>1, RoomStays DEF Inv
  <2>2. CASE q = r
    <3>1. PICK S : S = Seated(r)' OBVIOUS
    <3>2. S \subseteq Seated(r) BY <1>14, <1>15, <3>1 DEF Seated
    <3>3. Within(S, Seats) BY <3>2, Fewer DEF Inv, RoomOK
    <3>4. Within(Seated(r), Seats)' BY <3>1, <3>3 DEF Within
    <3>5. \A o \in Providers : PartOK(part[r][o])' BY <1>14, <1>15 DEF PartOK
    <3>6. hall'[r].st # "none" /\ ~Locked(r)' BY <1>7, <1>8, <1>16 DEF Locked
    <3> QED BY <2>2, <3>4, <3>5, <3>6 DEF RoomOK
  <2> QED BY <2>1, <2>2
<1>19. ASSUME NEW q \in Requests PROVE ChosenOK(q)'
  <2>1. CASE q # r BY <1>8, <1>13, <2>1, Rows, ChosenStays DEF Inv
  <2>2. CASE q = r BY <1>2, <1>5, <1>7, <1>8, <1>13, <2>2 DEF ChosenOK
  <2> QED BY <2>1, <2>2
<1>20. ASSUME NEW o \in Providers PROVE PairOK(o)' BY <1>13, <1>16, PairStays DEF Inv
<1>21. ASSUME NEW o \in Providers PROVE PlanOK(o)'
  <2>1. ASSUME NEW q \in Requests, hall'[q].st = "open", ~hall'[q].due,
               part'[q][o].seat = "active"
        PROVE  hall[q].st = "open" /\ ~hall[q].due /\ part[q][o].seat = "active"
    BY <1>5, <1>7, <1>8, <1>14, <1>15, <2>1
  <2> QED BY <2>1, PlanStays DEF Inv
<1> QED BY <1>17, <1>18, <1>19, <1>20, <1>21 DEF Inv

------------------------------------------------------------------------------
(* Friends, blocks and subscriptions.                                         *)

\* Friendship, blocks and private room of a pair change; choices stay
LEMMA PairStep ==
    ASSUME Inv, NEW p \in Providers, NEW row \in PairRow, pair' = [pair EXCEPT ![p] = row],
           row.deals = pair[p].deals, row.blocks # {} => row.link \in {"none", "declined"},
           ~Locked(p) \/ row.blocks = pair[p].blocks,
           UNCHANGED <<scene, hall, part, paid, tx>>
    PROVE  Inv'
<1>1. /\ pair' \in [Providers -> PairRow] /\ pair'[p] = row
      /\ \A o \in Providers : o # p => pair'[o] = pair[o]
  BY Rows DEF Typed
<1>2. Typed' BY <1>1, Rows DEF Typed
<1>3. ASSUME NEW r \in Requests PROVE RoomOK(r)' BY RoomStays DEF Inv
<1>4. ASSUME NEW r \in Requests PROVE ChosenOK(r)'
  <2>1. \A o \in Providers : pair'[o].deals = pair[o].deals BY <1>1
  <2> QED BY <2>1, Rows, ChosenStays DEF Inv
<1>5. ASSUME NEW o \in Providers PROVE PairOK(o)'
  <2>1. CASE o # p BY <1>1, <2>1, PairStays DEF Inv
  <2>2. CASE o = p BY <1>1, <2>2 DEF Inv, PairOK, Locked
  <2> QED BY <2>1, <2>2
<1>6. ASSUME NEW o \in Providers PROVE PlanOK(o)' BY PlanStays DEF Inv
<1> QED BY <1>2, <1>3, <1>4, <1>5, <1>6 DEF Inv

LEMMA FriendKeeps ==
    ASSUME Inv, NEW p \in Providers,
           \/ \E by \in Sides : RequestFriend(p, by)
           \/ \E accept \in BOOLEAN : ReplyFriend(p, accept)
           \/ RemoveFriend(p)
    PROVE  Inv'
<1>1. PICK link \in {"accepted", "declined"} \cup Sides :
         /\ pair' = [pair EXCEPT ![p].link = link]
         /\ pair[p].blocks = {} \/ link = "declined"
  <2>1. ASSUME NEW by \in Sides, RequestFriend(p, by)
        PROVE  pair[p].blocks = {} /\ pair' = [pair EXCEPT ![p].link = by]
    BY <2>1 DEF RequestFriend
  <2>2. ASSUME NEW accept \in BOOLEAN, ReplyFriend(p, accept)
        PROVE  /\ pair[p].blocks = {}
               /\ \E link \in {"accepted", "declined"} : pair' = [pair EXCEPT ![p].link = link]
    BY <2>2 DEF ReplyFriend
  <2>3. CASE RemoveFriend(p) BY <2>3 DEF RemoveFriend
  <2> QED BY <2>1, <2>2, <2>3
<1>2. UNCHANGED <<scene, hall, part, paid, tx>>
  BY DEF RequestFriend, ReplyFriend, RemoveFriend
<1>3. PICK row : row = [pair[p] EXCEPT !.link = link] OBVIOUS
<1>4. pair[p] \in PairRow BY Rows
<1>5. /\ row \in PairRow /\ row.deals = pair[p].deals /\ row.blocks = pair[p].blocks
      /\ row.link = link
  BY <1>3, <1>4 DEF PairRow
<1>6. pair' = [pair EXCEPT ![p] = row] BY <1>1, <1>3, Rows DEF Typed
<1> QED BY <1>1, <1>2, <1>5, <1>6, PairStep

LEMMA BlockKeeps ==
    ASSUME Inv, NEW p \in Providers, NEW by \in Sides, Block(p, by) \/ Unblock(p, by)
    PROVE  Inv'
<1>1. ~Locked(p) /\ UNCHANGED <<scene, hall, part, paid, tx>> BY DEF Block, Unblock
<1>2. pair[p] \in PairRow /\ PairOK(p) BY Rows DEF Inv
<1>3. CASE Block(p, by)
  <2>1. PICK row : row = [pair[p] EXCEPT !.blocks = @ \cup {by},
                                         !.link = IF @ = "none" THEN @ ELSE "declined"]
    OBVIOUS
  <2>2. /\ row \in PairRow /\ row.deals = pair[p].deals /\ row.link \in {"none", "declined"}
    BY <1>2, <2>1 DEF PairRow
  <2>3. pair' = [pair EXCEPT ![p] = row] BY <1>3, <2>1, Rows DEF Block, Typed
  <2> QED BY <1>1, <2>2, <2>3, PairStep
<1>4. CASE Unblock(p, by)
  <2>1. PICK row : row = [pair[p] EXCEPT !.blocks = @ \ {by}] OBVIOUS
  <2>2. /\ row \in PairRow /\ row.deals = pair[p].deals /\ row.link = pair[p].link
    BY <1>2, <2>1 DEF PairRow
  <2>3. pair[p].link \in {"none", "declined"} BY <1>2, <1>4 DEF PairOK, Unblock
  <2>4. pair' = [pair EXCEPT ![p] = row] BY <1>4, <2>1, Rows DEF Unblock, Typed
  <2> QED BY <1>1, <2>2, <2>3, <2>4, PairStep
<1> QED BY <1>3, <1>4

LEMMA DirectKeeps ==
    ASSUME Inv, NEW p \in Providers, StartDirect(p)
    PROVE  Inv'
<1>1. /\ pair' = [pair EXCEPT ![p].room = TRUE] /\ pair[p].blocks = {}
      /\ UNCHANGED <<scene, hall, part, paid, tx>>
  BY DEF StartDirect
<1>2. pair[p] \in PairRow BY Rows
<1>3. PICK row : row = [pair[p] EXCEPT !.room = TRUE] OBVIOUS
<1>4. row \in PairRow /\ row.deals = pair[p].deals /\ row.blocks = {}
  BY <1>1, <1>2, <1>3 DEF PairRow
<1>5. pair' = [pair EXCEPT ![p] = row] BY <1>1, <1>3, Rows DEF Typed
<1> QED BY <1>1, <1>4, <1>5, PairStep

\* Nothing but the subscription of a provider, or nothing at all
LEMMA AroundKeeps ==
    ASSUME Inv, UNCHANGED <<scene, hall, part, pair, tx>>, paid' \in [Providers -> BOOLEAN]
    PROVE  Inv'
<1>1. Typed' BY Rows DEF Typed
<1>2. ASSUME NEW r \in Requests PROVE RoomOK(r)' /\ ChosenOK(r)'
  BY Rows, RoomStays, ChosenStays DEF Inv
<1>3. ASSUME NEW p \in Providers PROVE PairOK(p)' /\ PlanOK(p)'
  BY PairStays, PlanStays DEF Inv
<1> QED BY <1>1, <1>2, <1>3 DEF Inv

------------------------------------------------------------------------------
(* The invariant.                                                             *)

LEMMA Begins == Init => Inv
<1> SUFFICES ASSUME Init PROVE Inv OBVIOUS
<1>1. 0 \in 0 .. MaxOffers /\ \A p \in Providers : (p \in scene.providers) \in BOOLEAN OBVIOUS
<1>2. Typed
  <2>1. hall \in [Requests -> HallRow] BY DEF Init, HallRow
  <2>2. part \in [Requests -> [Providers -> PartRow]] BY <1>1 DEF Init, PartRow
  <2>3. [d \in Deals |-> 0] \in [Deals -> {0, 1}] OBVIOUS
  <2>4. pair \in [Providers -> PairRow] BY <2>3 DEF Init, PairRow, Deals
  <2>5. paid \in [Providers -> BOOLEAN] BY DEF Init
  <2>6. tx \in [Requests \cup Providers -> TxRow] BY NoTxTyped DEF Init
  <2> QED BY <2>1, <2>2, <2>4, <2>5, <2>6 DEF Init, Typed
<1>3. \A x \in Requests \cup Providers : ~Locked(x) BY DEF Init, Locked
<1>4. ASSUME NEW r \in Requests PROVE RoomOK(r) /\ ChosenOK(r)
  <2>1. Seated(r) = {} BY DEF Init, Seated
  <2>2. \A p \in Providers : PartOK(part[r][p]) BY DEF Init, PartOK
  <2>3. Within(Seated(r), Seats) BY <2>1, NothingCounted
  <2>4. hall[r].chosen = NoProvider BY DEF Init
  <2> QED BY <1>3, <2>1, <2>2, <2>3, <2>4 DEF RoomOK, ChosenOK
<1>5. ASSUME NEW p \in Providers PROVE PairOK(p) /\ PlanOK(p)
  <2>1. RoomsOf(p) = {} BY DEF Init, RoomsOf
  <2>2. Within(RoomsOf(p), RoomLimit) BY <2>1, NothingCounted
  <2>3. pair[p].blocks = {} BY DEF Init
  <2> QED BY <1>3, <2>2, <2>3 DEF PairOK, PlanOK
<1> QED BY <1>2, <1>4, <1>5 DEF Inv

LEMMA NextKeeps == Inv /\ [Next]_vars => Inv'
<1> SUFFICES ASSUME Inv, [Next]_vars PROVE Inv' OBVIOUS
<1>1. CASE UNCHANGED vars BY <1>1, Rows, AroundKeeps DEF vars, Typed
<1>2. ASSUME NEW r \in Requests,
             HallCreate(r) \/ DeadlinePasses(r) \/ Report(r) \/ HallClose(r)
      PROVE  Inv'
  BY <1>2, HallCreateKeeps, DeadlineKeeps, ReportKeeps, CloseKeeps
<1>3. ASSUME NEW r \in Requests, NEW p \in Providers,
             HallApply(r, p) \/ BeginApprove(r, p) \/ Decline(r, p) \/ RemoveMember(r, p)
      PROVE  Inv'
  BY <1>3, ApplyKeeps, BeginApproveKeeps, RemoveKeeps
<1>4. ASSUME NEW r \in Requests, NEW p \in Providers, NEW n \in 1 .. MaxOffers,
             HallOffer(r, p, n)
      PROVE  Inv'
  BY <1>4, OfferKeeps
<1>5. ASSUME NEW r \in Requests, NEW p \in Providers, NEW close \in BOOLEAN,
             BeginChoose(r, p, close)
      PROVE  Inv'
  BY <1>5, BeginChooseKeeps
<1>6. CASE Purge BY <1>6, PurgeKeeps
<1>7. ASSUME NEW x \in Requests \cup Providers, Finish(x) PROVE Inv'
  BY <1>7, LetGoKeeps, EndApproveKeeps, EndChooseKeeps DEF Finish
<1>8. ASSUME NEW x \in Requests \cup Providers, NEW p \in Providers, BeginSay(x, p) PROVE Inv'
  BY <1>8, BeginSayKeeps
<1>9. ASSUME NEW p \in scene.providers,
             \/ \E by \in Sides : RequestFriend(p, by) \/ Block(p, by) \/ Unblock(p, by)
             \/ \E accept \in BOOLEAN : ReplyFriend(p, accept)
             \/ RemoveFriend(p) \/ StartDirect(p) \/ SubscriptionMoves(p)
      PROVE  Inv'
  <2>1. p \in Providers BY Rows DEF Typed
  <2>2. CASE SubscriptionMoves(p)
    <3>1. paid \in [Providers -> BOOLEAN] BY Rows DEF Typed
    <3>2. paid' \in [Providers -> BOOLEAN] BY <2>1, <2>2, <3>1 DEF SubscriptionMoves
    <3> QED BY <2>2, <3>2, AroundKeeps DEF SubscriptionMoves
  <2> QED BY <1>9, <2>1, <2>2, FriendKeeps, BlockKeeps, DirectKeeps
<1> QED BY <1>1, <1>2, <1>3, <1>4, <1>5, <1>6, <1>7, <1>8, <1>9 DEF Next

\* Rooms, seats, offers, pairs and transactions together, whichever handlers of
\* Town Hall meet.
THEOREM Invariance == Spec => []Inv
BY Begins, NextKeeps, PTL DEF Spec

\* Every row of the rooms, of their members and of the pairs keeps the states the
\* tables know, and so does every open transaction.
THEOREM TypeCorrect == Spec => []TypeOK
<1>1. Inv => TypeOK
  <2> SUFFICES ASSUME Inv PROVE TypeOK OBVIOUS
  <2>1. ASSUME NEW p \in Providers
        PROVE  /\ pair[p].link \in {"none", "accepted", "declined"} \cup Sides
               /\ pair[p].blocks \subseteq Sides /\ pair[p].room \in BOOLEAN
               /\ pair[p].deals \in [Requests \X (1 .. MaxOffers) -> Nat]
    <3>1. pair[p] \in PairRow BY Rows
    <3>2. pair[p].deals \in [Deals -> {0, 1}] /\ {0, 1} \subseteq Nat BY <3>1 DEF PairRow
    <3>3. pair[p].deals \in [Deals -> Nat] BY <3>2
    <3> QED BY <3>1, <3>3 DEF PairRow, Deals
  <2>2. \A x \in Requests \cup Providers : tx[x] \in TxRow BY Rows
  <2> QED BY <2>1, <2>2, Rows DEF TypeOK, Typed, HallRow, PartRow, TxRow
<1> QED BY <1>1, Invariance, PTL

\* The rooms are in order at every moment: never more providers than seats or
\* than the plan allows (enforce_town_hall_seats, enforce_provider_hall_capacity),
\* applications and seats agree, only those with a seat speak, a block silences
\* at once, and a choice is recorded once.
THEOREM RoomsAlwaysInOrder == Spec => []RoomsInOrder
<1>1. Inv => RoomsInOrder
  <2> SUFFICES ASSUME Inv PROVE RoomsInOrder OBVIOUS
  <2>1. NeverOverbooked BY DEF Inv, RoomOK, PlanOK, Within, NeverOverbooked
  <2>2. AdmittedIsSeated BY DEF Inv, RoomOK, PartOK, AdmittedIsSeated, Seated
  <2>3. SpeakersAreAdmitted
    BY NoTxTyped DEF Inv, RoomOK, Held, Locked, SpeakersAreAdmitted, Seated
  <2>4. BlocksHold BY NoTxTyped DEF Inv, PairOK, Locked, BlocksHold
  <2>5. DealsOnce
    <3>1. ASSUME NEW p \in Providers, NEW d \in DOMAIN pair[p].deals
          PROVE  pair[p].deals[d] <= 1
      <4>1. pair[p].deals \in [Deals -> {0, 1}] BY Rows DEF PairRow
      <4>2. pair[p].deals[d] \in {0, 1} BY <4>1
      <4> QED BY <4>2
    <3> QED BY <3>1 DEF Inv, ChosenOK, DealsOnce
  <2> QED BY <2>1, <2>2, <2>3, <2>4, <2>5 DEF RoomsInOrder
<1> QED BY <1>1, Invariance, PTL

\* Whatever changes the pair of a buyer and a provider is a choice or between them
LEMMA PairWriters ==
    ASSUME Next, pair' # pair
    PROVE  \/ \E r \in Requests : EndChoose(r)
           \/ \E p \in scene.providers :
                \/ \E by \in Sides : RequestFriend(p, by) \/ Block(p, by) \/ Unblock(p, by)
                \/ \E accept \in BOOLEAN : ReplyFriend(p, accept)
                \/ RemoveFriend(p) \/ StartDirect(p)
<1>1. ASSUME NEW r \in Requests,
             \/ HallCreate(r) \/ DeadlinePasses(r) \/ Report(r) \/ HallClose(r)
             \/ \E p \in Providers :
                  \/ HallApply(r, p) \/ BeginApprove(r, p) \/ Decline(r, p) \/ RemoveMember(r, p)
                  \/ \E n \in 1 .. MaxOffers : HallOffer(r, p, n)
                  \/ \E close \in BOOLEAN : BeginChoose(r, p, close)
      PROVE  FALSE
  BY <1>1 DEF HallCreate, DeadlinePasses, Report, HallClose, HallApply, BeginApprove, Decline,
              RemoveMember, HallOffer, BeginChoose
<1>2. ~Purge BY DEF Purge
<1>3. ASSUME NEW x \in Requests \cup Providers,
             Finish(x) \/ \E p \in Providers : BeginSay(x, p)
      PROVE  x \in Requests /\ EndChoose(x)
  BY <1>3 DEF Finish, EndSay, EndApprove, Rollback, BeginSay
<1>4. ASSUME NEW p \in scene.providers PROVE ~SubscriptionMoves(p) BY DEF SubscriptionMoves
<1> QED BY <1>1, <1>2, <1>3, <1>4 DEF Next

\* A choice is recorded at the newest price of its provider, while the request is
\* open, the provider has the seat and nobody blocks (HallOffer, HallChoose).
THEOREM ChoicesStand == Spec => DealsAreStanding
<1>1. ASSUME Inv, [Next]_vars, NEW p \in Providers, NEW d \in DOMAIN pair[p].deals,
             pair'[p].deals[d] > pair[p].deals[d]
      PROVE  /\ part[d[1]][p].newest = d[2] /\ p \in Seated(d[1])
             /\ hall[d[1]].st = "open" /\ pair[p].blocks = {}
  <2>1. pair[p].deals \in [Deals -> {0, 1}] /\ pair \in [Providers -> PairRow]
    BY <1>1, Rows DEF PairRow, Typed
  <2>2. d \in Deals /\ ~(pair[p].deals[d] > pair[p].deals[d]) BY <2>1
  <2>3. ASSUME NEW r \in Requests, EndChoose(r)
        PROVE  d = <<r, tx[r].price>> /\ p = tx[r].p
    <3>1. PICK e : e = <<r, tx[r].price>> OBVIOUS
    <3>2. PICK o : o = tx[r].p OBVIOUS
    <3>3. pair' = [pair EXCEPT ![o].room = TRUE, ![o].deals[e] = 1]
      BY <2>3, <3>1, <3>2 DEF EndChoose
    <3>4. o = p BY <1>1, <2>1, <2>2, <3>3
    <3>5. pair[p] \in PairRow BY <2>1
    <3>6. pair'[p].deals = [pair[p].deals EXCEPT ![e] = 1]
      BY <2>1, <3>3, <3>4, <3>5 DEF PairRow
    <3>7. d = e BY <1>1, <2>1, <2>2, <3>6
    <3> QED BY <3>1, <3>2, <3>4, <3>7
  <2>4. ASSUME NEW o \in scene.providers,
               \/ \E by \in Sides : RequestFriend(o, by) \/ Block(o, by) \/ Unblock(o, by)
               \/ \E accept \in BOOLEAN : ReplyFriend(o, accept)
               \/ RemoveFriend(o) \/ StartDirect(o)
        PROVE  pair'[p].deals = pair[p].deals
    <3>1. pair[p] \in PairRow /\ pair \in [Providers -> PairRow] BY <2>1
    <3>2. ASSUME NEW by \in Sides, RequestFriend(o, by) PROVE pair'[p].deals = pair[p].deals
      BY <3>1, <3>2 DEF RequestFriend, PairRow
    <3>3. ASSUME NEW by \in Sides, Block(o, by) PROVE pair'[p].deals = pair[p].deals
      BY <3>1, <3>3 DEF Block, PairRow
    <3>4. ASSUME NEW by \in Sides, Unblock(o, by) PROVE pair'[p].deals = pair[p].deals
      BY <3>1, <3>4 DEF Unblock, PairRow
    <3>5. ASSUME NEW accept \in BOOLEAN, ReplyFriend(o, accept)
          PROVE  pair'[p].deals = pair[p].deals
      BY <3>1, <3>5 DEF ReplyFriend, PairRow
    <3>6. CASE RemoveFriend(o) BY <3>1, <3>6 DEF RemoveFriend, PairRow
    <3>7. CASE StartDirect(o) BY <3>1, <3>7 DEF StartDirect, PairRow
    <3> QED BY <2>4, <3>2, <3>3, <3>4, <3>5, <3>6, <3>7
  <2>5. PICK r \in Requests : EndChoose(r)
    <3>1. pair'[p].deals # pair[p].deals BY <1>1, <2>2
    <3>2. pair' # pair /\ Next BY <1>1, <3>1 DEF vars
    <3> QED BY <1>1, <2>4, <3>1, <3>2, PairWriters
  <2>6. d = <<r, tx[r].price>> /\ p = tx[r].p BY <2>3, <2>5
  <2>7. tx[r].op = "choose" /\ pair[p].blocks = {} BY <2>5, <2>6 DEF EndChoose
  <2>8. Held(r) BY <1>1, <2>7, NoTxTyped DEF Inv, RoomOK, Locked
  <2> QED BY <2>6, <2>7, <2>8 DEF Held, Seated
<1>2. Inv /\ [Next]_vars =>
        [\A p \in Providers : \A d \in DOMAIN pair[p].deals :
         pair'[p].deals[d] > pair[p].deals[d] =>
           /\ part[d[1]][p].newest = d[2] /\ p \in Seated(d[1])
           /\ hall[d[1]].st = "open" /\ pair[p].blocks = {}]_vars
  BY <1>1
<1> QED BY <1>2, Invariance, PTL DEF Spec, DealsAreStanding

\* What Town Hall promises: the rooms are in order at every moment, and what is
\* agreed in them stands.
THEOREM TownHallHolds == Spec => HallHolds
<1>1. RoomsInOrder' => [RoomsInOrder']_vars OBVIOUS
<1> QED BY <1>1, RoomsAlwaysInOrder, ChoicesStand, PTL DEF HallHolds, RoomsKept
==============================================================================
