------------------------------- MODULE TownHall -------------------------------
(***************************************************************************)
(* Town Hall: a buyer posts a request, providers apply for one of its seats, *)
(* make offers, and the buyer takes one into a private chat.  With it the   *)
(* friendships, blocks and private rooms the choice ends in.                *)
(*                                                                         *)
(* Every operation on a room locks its row first and decides afterwards; a  *)
(* transaction that stays open between the two is in tx.  Blocks and        *)
(* friendships take the advisory lock of their pair, always within one step. *)
(*                                                                         *)
(* Abstractions.  One buyer owns all requests; a provider is one account    *)
(* with a private room of its own with that buyer.  The price of an offer    *)
(* is its number: the client numbers what it submits and waits for each     *)
(* answer.  The subscription of a provider may end or begin at any moment.  *)
(*                                                                         *)
(* A definition introduced by "Slip:" is an operation with one plausible   *)
(* mistake; no behaviour of Spec uses it.                                  *)
(***************************************************************************)
EXTENDS Integers, FiniteSets

CONSTANTS
    Requests,   \* town_hall rooms
    Providers,
    NoProvider,
    Scenes,     \* the cases: which requests and providers there are, and whether
                \* buyer and providers are friends and block each other
    Seats,      \* active providers of one room (10 in the code)
    RoomLimit,  \* town_hall_room_limit of a provider's plan
    MaxOffers   \* bound on the offers of one provider for one request

ASSUME BoundsAssumption ==
    /\ NoProvider \notin Providers /\ Requests \cap Providers = {}
    /\ Scenes \subseteq [requests : SUBSET Requests, providers : SUBSET Providers,
                         social : BOOLEAN]
    /\ Seats \in Nat \ {0} /\ RoomLimit \in Nat \ {0} /\ MaxOffers \in Nat

Sides == {"buyer", "provider"}

VARIABLES
    scene,
    hall,    \* chat_rooms of kind town_hall with their town_hall_requests
    part,    \* town_hall_applications, chat_participants, town_hall_offers; newest:
             \* history, the number of offers the provider has submitted
    pair,    \* social_connections, social_blocks, the private room of buyer and
             \* provider, and how often a choice was recorded there
    paid,    \* verified and paid_active
    tx       \* the open transaction that holds the row of a room, named by its
             \* request or, for a private room, by its provider

vars == <<scene, hall, part, pair, paid, tx>>

NoTx == [op |-> "none", p |-> NoProvider, price |-> 0, close |-> FALSE]

Init ==
    /\ scene \in Scenes
    /\ hall = [r \in Requests |->
                 [st |-> "none", due |-> FALSE, reported |-> FALSE, chosen |-> NoProvider]]
    /\ part = [r \in Requests |-> [p \in Providers |->
                 [app |-> "none", seat |-> "none", offer |-> 0, newest |-> 0]]]
    /\ pair = [p \in Providers |-> [link |-> "none", blocks |-> {}, room |-> FALSE,
                 deals |-> [d \in Requests \X (1 .. MaxOffers) |-> 0]]]
    /\ paid = [p \in Providers |-> p \in scene.providers]
    /\ tx = [x \in Requests \cup Providers |-> NoTx]

Locked(x) == tx[x] # NoTx
\* FOR UPDATE on the room of a request that is open and not past its deadline.
OpenHall(r) == ~Locked(r) /\ hall[r].st = "open" /\ ~hall[r].due
Seated(r) == {p \in Providers : part[r][p].seat = "active"}
RoomsOf(p) == {r \in Requests : p \in Seated(r) /\ hall[r].st = "open" /\ ~hall[r].due}

-----------------------------------------------------------------------------
(* Requests *)

\* A retry with the same reference finds the room and changes nothing.
HallCreate(r) ==
    /\ r \in scene.requests /\ hall[r].st = "none"
    /\ hall' = [hall EXCEPT ![r].st = "open"]
    /\ UNCHANGED <<scene, part, pair, paid, tx>>

\* 24 hours after it was posted.
DeadlinePasses(r) ==
    /\ hall[r].st = "open" /\ ~hall[r].due
    /\ hall' = [hall EXCEPT ![r].due = TRUE]
    /\ UNCHANGED <<scene, part, pair, paid, tx>>

Report(r) ==
    /\ hall[r].st \in {"open", "closed"} /\ ~hall[r].reported
    /\ hall' = [hall EXCEPT ![r].reported = TRUE]
    /\ UNCHANGED <<scene, part, pair, paid, tx>>

\* Slip: the applications take the state of their room, which their table does not
\* know (TypeOK).
RemovedWithTheRoom(row) ==
    [row EXCEPT !.seat = IF @ = "none" THEN @ ELSE "removed",
                !.app = IF @ \in {"pending", "admitted"} THEN "closed" ELSE @]

\* closeHallTx
Removed(row) ==
    [row EXCEPT !.seat = IF @ = "none" THEN @ ELSE "removed",
                !.app = IF @ \in {"pending", "admitted"} THEN "removed" ELSE @]
Emptied(r) == [p \in Providers |-> Removed(part[r][p])]

HallClose(r) ==
    /\ OpenHall(r)
    /\ hall' = [hall EXCEPT ![r].st = "closed"]
    /\ part' = [part EXCEPT ![r] = Emptied(r)]
    /\ UNCHANGED <<scene, pair, paid, tx>>

Ended ==
    {r \in Requests : ~Locked(r) /\ (hall[r].st = "closed" \/ (hall[r].st = "open" /\ hall[r].due))}

\* Slip: reported rooms are not left out, and the foreign key of the report makes
\* the whole batch fail (RequestsEnd).
PurgeEverything ==
    /\ Ended # {} /\ \A r \in Ended : ~hall[r].reported
    /\ hall' = [r \in Requests |-> IF r \in Ended THEN [hall[r] EXCEPT !.st = "gone"] ELSE hall[r]]
    /\ UNCHANGED <<scene, part, pair, paid, tx>>

\* The worker closes what is overdue and deletes what is closed, except the
\* evidence of a report; rooms locked by others are skipped.
Purge ==
    /\ \E r \in Ended : hall[r].st = "open" \/ ~hall[r].reported
    /\ hall' = [r \in Requests |->
                  IF r \in Ended
                  THEN [hall[r] EXCEPT !.st = IF hall[r].reported THEN "closed" ELSE "gone"]
                  ELSE hall[r]]
    /\ UNCHANGED <<scene, part, pair, paid, tx>>

-----------------------------------------------------------------------------
(* Seats *)

HallApply(r, p) ==
    /\ OpenHall(r) /\ p \in scene.providers /\ paid[p]
    /\ Cardinality(Seated(r)) < Seats
    /\ part[r][p].app \in {"none", "declined", "removed"}
    /\ part' = [part EXCEPT ![r][p].app = "pending"]
    /\ UNCHANGED <<scene, hall, pair, paid, tx>>

\* The owner approves: the room is locked and the application still pending.
BeginApprove(r, p) ==
    /\ OpenHall(r) /\ part[r][p].app = "pending" /\ paid[p]
    /\ tx' = [tx EXCEPT ![r] = [NoTx EXCEPT !.op = "approve", !.p = p]]
    /\ UNCHANGED <<scene, hall, part, pair, paid>>

End(x) == tx' = [tx EXCEPT ![x] = NoTx]

\* The seats of the room are counted under its lock; the triggers count the rooms
\* of the provider under the lock of its organisation and look at the clock again.
EndApprove(r) ==
    LET p == tx[r].p IN
    /\ tx[r].op = "approve"
    /\ Cardinality(Seated(r)) < Seats
    /\ paid[p] /\ Cardinality(RoomsOf(p)) < RoomLimit /\ ~hall[r].due
    /\ part' = [part EXCEPT ![r][p].app = "admitted", ![r][p].seat = "active"]
    /\ End(r)
    /\ UNCHANGED <<scene, hall, pair, paid>>

Decline(r, p) ==
    /\ OpenHall(r) /\ part[r][p].app = "pending"
    /\ part' = [part EXCEPT ![r][p].app = "declined"]
    /\ UNCHANGED <<scene, hall, pair, paid, tx>>

\* Slip: the owner's removal does not lock the room (SpeakersAreAdmitted).
RemoveUnlocked(r, p) ==
    /\ hall[r].st = "open" /\ ~hall[r].due /\ part[r][p].app = "admitted"
    /\ part' = [part EXCEPT ![r][p].app = "removed", ![r][p].seat = "removed"]
    /\ UNCHANGED <<scene, hall, pair, paid, tx>>

RemoveMember(r, p) ==
    /\ OpenHall(r) /\ part[r][p].app = "admitted"
    /\ part' = [part EXCEPT ![r][p].app = "removed", ![r][p].seat = "removed"]
    /\ UNCHANGED <<scene, hall, pair, paid, tx>>

-----------------------------------------------------------------------------
(* Messages and offers *)

\* lockMember: the room first, then who may write in it.
BeginSay(x, p) ==
    /\ ~Locked(x)
    /\ \/ x \in Requests /\ OpenHall(x) /\ p \in Seated(x) /\ paid[p]
       \/ x = p /\ pair[p].room /\ pair[p].blocks = {}
    /\ tx' = [tx EXCEPT ![x] = [NoTx EXCEPT !.op = "say", !.p = p]]
    /\ UNCHANGED <<scene, hall, part, pair, paid>>

EndSay(x) ==
    /\ tx[x].op = "say" /\ End(x)
    /\ UNCHANGED <<scene, hall, part, pair, paid>>

\* Slip: the offer is stored before its reference is looked up (DealsAreStanding).
HallOfferFirst(r, p, n) ==
    /\ OpenHall(r) /\ p \in Seated(r) /\ paid[p]
    /\ n \in 1 .. part[r][p].newest + 1
    /\ part' = [part EXCEPT ![r][p].offer = n,
                            ![r][p].newest = IF n > @ THEN n ELSE @]
    /\ UNCHANGED <<scene, hall, pair, paid, tx>>

\* The n-th submission, or a retry of an earlier one: its reference is known.
HallOffer(r, p, n) ==
    /\ OpenHall(r) /\ p \in Seated(r) /\ paid[p]
    /\ n = part[r][p].newest + 1
    /\ part' = [part EXCEPT ![r][p].offer = n, ![r][p].newest = n]
    /\ UNCHANGED <<scene, hall, pair, paid, tx>>

-----------------------------------------------------------------------------
(* The choice of an offer *)

\* The offer is read under the lock of the room; its provider must have a seat.
BeginChoose(r, p, close) ==
    /\ OpenHall(r) /\ part[r][p].offer > 0 /\ p \in Seated(r)
    /\ tx' = [tx EXCEPT ![r] = [op |-> "choose", p |-> p, price |-> part[r][p].offer,
                                close |-> close]]
    /\ UNCHANGED <<scene, hall, part, pair, paid>>

\* The pair is locked and not blocked; the private room is made or locked; the
\* message has a reference made of the request, the offer and its terms.
EndChoose(r) ==
    LET p == tx[r].p
        deal == <<r, tx[r].price>> IN
    /\ tx[r].op = "choose" /\ ~Locked(p) /\ pair[p].blocks = {}
    /\ pair' = [pair EXCEPT ![p].room = TRUE, ![p].deals[deal] = 1]
    /\ hall' = [hall EXCEPT ![r].chosen = p, ![r].st = IF tx[r].close THEN "closed" ELSE @]
    /\ part' = IF tx[r].close THEN [part EXCEPT ![r] = Emptied(r)] ELSE part
    /\ End(r)
    /\ UNCHANGED <<scene, paid>>

\* A check under the lock fails, a statement fails, or the process stops.
Rollback(x) ==
    /\ Locked(x) /\ End(x)
    /\ UNCHANGED <<scene, hall, part, pair, paid>>

-----------------------------------------------------------------------------
(* Friends and blocks.  Only Block and Unblock have a route in this release; *)
(* RequestFriend, ReplyFriend, RemoveFriend and StartDirect are handlers     *)
(* without one, called by the integration tests alone.  They stand for the   *)
(* friendships and private rooms that earlier releases left behind.          *)

Social(p) == scene.social /\ p \in scene.providers

RequestFriend(p, by) ==
    /\ Social(p) /\ pair[p].blocks = {} /\ pair[p].link \in {"none", "declined"}
    /\ pair' = [pair EXCEPT ![p].link = by]
    /\ UNCHANGED <<scene, hall, part, paid, tx>>

ReplyFriend(p, accept) ==
    /\ pair[p].link \in Sides /\ pair[p].blocks = {}
    /\ pair' = [pair EXCEPT ![p].link = IF accept THEN "accepted" ELSE "declined"]
    /\ UNCHANGED <<scene, hall, part, paid, tx>>

RemoveFriend(p) ==
    /\ pair[p].link # "none"
    /\ pair' = [pair EXCEPT ![p].link = "declined"]
    /\ UNCHANGED <<scene, hall, part, paid, tx>>

\* Serialised with the sends that have locked the private room.
Block(p, by) ==
    /\ Social(p) /\ ~Locked(p)
    /\ pair' = [pair EXCEPT ![p].blocks = @ \cup {by},
                            ![p].link = IF @ = "none" THEN @ ELSE "declined"]
    /\ UNCHANGED <<scene, hall, part, paid, tx>>

Unblock(p, by) ==
    /\ ~Locked(p) /\ by \in pair[p].blocks
    /\ pair' = [pair EXCEPT ![p].blocks = @ \ {by}]
    /\ UNCHANGED <<scene, hall, part, paid, tx>>

StartDirect(p) ==
    /\ pair[p].link = "accepted" /\ pair[p].blocks = {} /\ ~pair[p].room
    /\ pair' = [pair EXCEPT ![p].room = TRUE]
    /\ UNCHANGED <<scene, hall, part, paid, tx>>

SubscriptionMoves(p) ==
    /\ paid' = [paid EXCEPT ![p] = ~@]
    /\ UNCHANGED <<scene, hall, part, pair, tx>>

-----------------------------------------------------------------------------
Finish(x) == EndSay(x) \/ (x \in Requests /\ (EndApprove(x) \/ EndChoose(x))) \/ Rollback(x)

Next ==
    \/ \E r \in Requests :
         \/ HallCreate(r) \/ DeadlinePasses(r) \/ Report(r) \/ HallClose(r)
         \/ \E p \in Providers :
              \/ HallApply(r, p) \/ BeginApprove(r, p) \/ Decline(r, p) \/ RemoveMember(r, p)
              \/ \E n \in 1 .. MaxOffers : HallOffer(r, p, n)
              \/ \E close \in BOOLEAN : BeginChoose(r, p, close)
    \/ Purge
    \/ \E x \in Requests \cup Providers : Finish(x) \/ \E p \in Providers : BeginSay(x, p)
    \/ \E p \in scene.providers :
         \/ \E by \in Sides : RequestFriend(p, by) \/ Block(p, by) \/ Unblock(p, by)
         \/ \E accept \in BOOLEAN : ReplyFriend(p, accept)
         \/ RemoveFriend(p) \/ StartDirect(p) \/ SubscriptionMoves(p)

Spec == Init /\ [][Next]_vars

\* Time passes, transactions end, and the worker comes by every thirty seconds.
FairSpec ==
    /\ Spec
    /\ \A r \in Requests : WF_vars(DeadlinePasses(r)) /\ WF_vars(Finish(r))
    /\ WF_vars(Purge)

-----------------------------------------------------------------------------
TypeOK ==
    /\ scene \in Scenes
    /\ hall \in [Requests -> [st : {"none", "open", "closed", "gone"}, due : BOOLEAN,
                              reported : BOOLEAN, chosen : Providers \cup {NoProvider}]]
    /\ part \in [Requests -> [Providers ->
                  [app : {"none", "pending", "admitted", "declined", "removed"},
                   seat : {"none", "active", "removed"},
                   offer : 0 .. MaxOffers, newest : 0 .. MaxOffers]]]
    /\ \A p \in Providers :
         /\ pair[p].link \in {"none", "accepted", "declined"} \cup Sides
         /\ pair[p].blocks \subseteq Sides /\ pair[p].room \in BOOLEAN
         /\ pair[p].deals \in [Requests \X (1 .. MaxOffers) -> Nat]
    /\ paid \in [Providers -> BOOLEAN]
    /\ \A x \in Requests \cup Providers :
         tx[x] \in [op : {"none", "approve", "say", "choose"},
                    p : Providers \cup {NoProvider}, price : 0 .. MaxOffers, close : BOOLEAN]

\* However approvals in one room and in several meet: no room has more providers
\* than seats, no provider is in more open rooms than its plan allows
\* (HallMembership, enforce_town_hall_seats, enforce_provider_hall_capacity).
NeverOverbooked ==
    /\ \A r \in Requests : Cardinality(Seated(r)) <= Seats
    /\ \A p \in Providers : Cardinality(RoomsOf(p)) <= RoomLimit

\* The application and the seat of a provider say the same, also after a removal,
\* a second application and the closing of the room: two tables, many writers.
AdmittedIsSeated ==
    \A r \in Requests, p \in Providers : part[r][p].app = "admitted" <=> p \in Seated(r)

\* Who writes in a room still has the seat while the message is written: removal,
\* closing and the worker wait for the room ("a delayed sender cannot rely on stale
\* admission state", lockMember).
SpeakersAreAdmitted ==
    \A r \in Requests : tx[r].op = "say" => hall[r].st = "open" /\ tx[r].p \in Seated(r)

\* From the moment a block is there nobody writes in the private room, and the two
\* are neither friends nor on the way to it (Block and every sender).
BlocksHold ==
    \A p \in Providers :
      pair[p].blocks # {} => tx[p].op # "say" /\ pair[p].link \in {"none", "declined"}

\* The choice of an offer is written once into the private room, however often the
\* buyer repeats it ("selected offer was not recorded exactly once").
DealsOnce ==
    /\ \A p \in Providers : \A d \in DOMAIN pair[p].deals : pair[p].deals[d] <= 1
    /\ \A r \in Requests : hall[r].chosen # NoProvider =>
         \E n \in 1 .. MaxOffers : pair[hall[r].chosen].deals[<<r, n>>] = 1

\* A choice is recorded at the newest price its provider has submitted, while the
\* request is open, the provider has its seat and nobody blocks: a late retry of an
\* older offer, a removal or a block can not come in between (HallOffer, HallChoose).
DealsAreStanding ==
    [][\A p \in Providers : \A d \in DOMAIN pair[p].deals :
         pair'[p].deals[d] > pair[p].deals[d] =>
           /\ part[d[1]][p].newest = d[2] /\ p \in Seated(d[1])
           /\ hall[d[1]].st = "open" /\ pair[p].blocks = {}]_vars

\* Every request ends: a day later it is gone, or kept for its report; one that is
\* reported does not keep the others.
RequestsEnd ==
    \A r \in Requests : hall[r].st = "open" ~> (hall[r].st = "gone" \/ hall[r].reported)

\* The rooms are in order at every moment: seats, applications, speakers, blocks
\* and the choices written into private rooms.
RoomsInOrder == /\ NeverOverbooked /\ AdmittedIsSeated /\ SpeakersAreAdmitted
                /\ BlocksHold /\ DealsOnce

\* No step leaves the rooms out of order, and what is agreed in them stands (enforce_town_hall_seats,
\* HallMembership, HallOffer and HallChoose, whichever of them meet).
RoomsKept == [][RoomsInOrder']_vars
HallHolds == RoomsInOrder /\ RoomsKept /\ DealsAreStanding

=============================================================================
