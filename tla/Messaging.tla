------------------------------- MODULE Messaging -------------------------------
(***************************************************************************)
(* Conversations.  A customer and a business share one thread, made of one   *)
(* physical conversation per listing or product the customer wrote about;   *)
(* bookings and enquiries enter the same thread and may take a seat of an   *)
(* availability slot.  A support ticket is a conversation with the desk of  *)
(* the administrators.  Receipts tell the sender what was delivered, read.  *)
(*                                                                         *)
(* The two sides are "customer" (buyer, or the user of a ticket) and "desk" *)
(* (the provider, or an administrator).                                    *)
(*                                                                         *)
(* A message carries the start of its transaction as its time (created_at   *)
(* defaults to now()) and is visible from the commit: the operations that   *)
(* write are open in tx between the two, several at once and in any order.   *)
(*                                                                         *)
(* Abstractions.  One customer, one business, one ticket.  A client          *)
(* reference stands for one body.  The business is entitled throughout and   *)
(* no conversation is blocked (no code of the repository blocks one).  The    *)
(* signed-URL epoch in a revision tag is left out, so tags agree more often   *)
(* than in the code.                                                         *)
(*                                                                         *)
(* A definition introduced by "Slip:" is an operation with one plausible   *)
(* mistake; no behaviour of ChatSpec uses it.                                  *)
(***************************************************************************)
EXTENDS Integers, FiniteSetsExt, Functions

CONSTANTS
    Contacts,   \* the listings and products of the business
    Ticket,     \* the support ticket
    None,       \* no conversation, no session
    References,       \* client references: client_message_id, idempotency_key
    By,         \* the side that uses each reference
    Bookings,   \* the references that are booking requests
    Writers,   \* writing requests under way at the same time
    Scenes,     \* the cases: a channel and the operations its clients use
    Capacities, \* capacities the provider gives the slot
    MaxClock    \* bound on the transactions begun

Sides == {"customer", "desk"}

ASSUME MessagingAssumption ==
    /\ Ticket \notin Contacts /\ None \notin Contacts \cup {Ticket} \cup Writers
    /\ By \in [References -> Sides] /\ \A r \in References \cap Bookings : By[r] = "customer"
    /\ Scenes \subseteq [channel : {"business", "support"},
                         does : SUBSET {"contact", "send", "book", "page", "read", "receipt"}]
    /\ Capacities \subseteq Nat \ {0} /\ Capacities # {} /\ MaxClock \in Nat

VARIABLES
    scene,
    clock,    \* transactions begun
    thread,   \* provider_conversations: the thread_id of each
    bumps,    \* calls of bump_provider_chat_revision, by conversation and transaction
    pair,     \* the session that holds the advisory lock of customer and business
    tx,       \* the open transactions, and what remains to announce after one
    ticket,   \* support_tickets.status
    msgs,     \* provider_conversation_messages, support_messages
    told,     \* messages with an event or notification for the other side
    mark,     \* *_last_read_at of every conversation
    page,     \* what each side displays, and the revision tag it came with
    receipt,  \* message_receipts of the other side, and preferences
    booking,  \* provider_requests.status
    slot      \* provider_availability_slots

chatVars == <<scene, clock, thread, bumps, pair, tx, ticket, msgs, told, mark, page, receipt,
              booking, slot>>

NoWrite == [op |-> "idle", ref |-> None, to |-> None, at |-> 0, root |-> None]
Open(op, r, c, root) == [op |-> op, ref |-> r, to |-> c, at |-> clock + 1, root |-> root]
Rooms == Contacts \cup {Ticket}

ChatInit ==
    /\ scene \in Scenes
    /\ clock = 0
    /\ thread = [c \in Contacts |-> None] /\ bumps = {}
    /\ pair = None
    /\ tx = [s \in Writers |-> NoWrite]
    /\ ticket = "none"
    /\ msgs = {} /\ told = {}
    /\ mark = [side \in Sides |-> [c \in Rooms |-> 0]]
    /\ page = [side \in Sides |-> [asked |-> 0, tag |-> 0, shows |-> {}]]
    /\ receipt = [of |-> [r \in References |-> "sent"], on |-> [side \in Sides |-> TRUE],
                  openly |-> {}]
    /\ booking = [r \in References \cap Bookings |-> "none"]
    /\ slot \in [capacity : Capacities, left : Capacities] /\ slot.left = slot.capacity

Other(side) == IF side = "desk" THEN "customer" ELSE "desk"
Known(r) == {m \in msgs : m.ref = r}
Rows == {c \in Contacts : thread[c] # None}
\* businessThreadMembers: the rows of the pair that share the thread of c.
Members(c) == {d \in Rows : thread[d] = thread[c]}
RoomOf(m) == IF m.to = Ticket THEN {Ticket} ELSE Members(m.to)
Newest(ms) == CHOOSE m \in ms : \A n \in ms : n.at =< m.at

-----------------------------------------------------------------------------
(* The business thread *)

\* assign_provider_conversation_thread: a new row joins the thread of the pair.
RootFor(c) ==
    IF thread[c] # None THEN thread[c]
    ELSE IF Rows = {} THEN c ELSE thread[CHOOSE d \in Rows : TRUE]

Message(t) == [ref |-> t.ref, to |-> t.to, at |-> t.at, by |-> By[t.ref]]
\* insertConversationMessage: the reference is free, or stands for this message.
Fresh(t) == Known(t.ref) = {}
Accepted(t) == \A m \in Known(t.ref) : m.to = t.to
Store(t) == msgs' = IF Fresh(t) THEN msgs \cup {Message(t)} ELSE msgs
\* bump_provider_chat_revision: the row of a message is written by a retry too.
Bump(t) == bumps' = bumps \cup {[to |-> t.to, at |-> t.at]}
\* Only a new message is announced.
Tell(t) == told' = IF Fresh(t) THEN told \cup {t.ref} ELSE told

\* startConversation: the upsert of the row takes the lock of the pair, which is
\* held to the end; root is the thread the row joins.
BeginContact(s, c, r) ==
    /\ scene.channel = "business" /\ "contact" \in scene.does
    /\ tx[s] = NoWrite /\ clock < MaxClock /\ By[r] = "customer" /\ r \notin Bookings
    /\ pair = None
    /\ pair' = s
    /\ clock' = clock + 1
    /\ tx' = [tx EXCEPT ![s] = Open("contact", r, c, RootFor(c))]
    /\ UNCHANGED <<scene, thread, bumps, ticket, msgs, told, mark, page, receipt,
                   booking, slot>>

\* The provider's event commits with the message; the row's own watermark is set.
CommitContact(s) ==
    LET t == tx[s] IN
    /\ t.op = "contact" /\ Accepted(t)
    /\ Store(t) /\ Bump(t) /\ Tell(t)
    /\ thread' = [thread EXCEPT ![t.to] = t.root]
    /\ mark' = [mark EXCEPT !["customer"][t.to] = t.at]
    /\ tx' = [tx EXCEPT ![s] = NoWrite]
    /\ pair' = IF pair = s THEN None ELSE pair
    /\ UNCHANGED <<scene, clock, ticket, page, receipt, booking, slot>>

\* sendConversationMessage writes to the conversation of the newest message of the
\* thread, read before its transaction begins.
BeginSend(s, r) ==
    /\ scene.channel = "business" /\ "send" \in scene.does
    /\ tx[s] = NoWrite /\ clock < MaxClock /\ r \notin Bookings /\ Rows # {}
    /\ clock' = clock + 1
    /\ tx' = [tx EXCEPT ![s] = Open("send", r, Newest(msgs).to, None)]
    /\ UNCHANGED <<scene, thread, bumps, pair, ticket, msgs, told, mark, page,
                   receipt, booking, slot>>

\* What the provider sends is announced to the buyer after the commit.
CommitSend(s) ==
    LET t == tx[s] IN
    /\ t.op = "send" /\ Accepted(t)
    /\ Store(t) /\ Bump(t)
    /\ mark' = [mark EXCEPT ![By[t.ref]][t.to] = t.at]
    /\ IF By[t.ref] = "customer" THEN Tell(t) ELSE told' = told
    /\ tx' = [tx EXCEPT ![s] = IF By[t.ref] = "desk" /\ Fresh(t)
                               THEN [t EXCEPT !.op = "announce"] ELSE NoWrite]
    /\ UNCHANGED <<scene, clock, thread, pair, ticket, page, receipt, booking, slot>>

\* Best effort within two seconds; a retry of the message does not repeat it.
Announce(s) ==
    /\ tx[s].op = "announce"
    /\ told' = told \cup {tx[s].ref}
    /\ tx' = [tx EXCEPT ![s] = NoWrite]
    /\ UNCHANGED <<scene, clock, thread, bumps, pair, ticket, msgs, mark, page,
                   receipt, booking, slot>>

\* A crash, a timeout, or the answer 409: what is open is rolled back, what was
\* still to be announced is not.
Abandon(s) ==
    /\ tx[s] # NoWrite
    /\ tx' = [tx EXCEPT ![s] = NoWrite]
    /\ pair' = IF pair = s THEN None ELSE pair
    /\ UNCHANGED <<scene, clock, thread, bumps, ticket, msgs, told, mark, page,
                   receipt, booking, slot>>

-----------------------------------------------------------------------------
(* Bookings and enquiries *)

BeginBooking(s, c, r) ==
    /\ scene.channel = "business" /\ "book" \in scene.does
    /\ tx[s] = NoWrite /\ clock < MaxClock /\ r \in DOMAIN booking /\ booking[r] = "none"
    /\ clock' = clock + 1
    /\ tx' = [tx EXCEPT ![s] = Open("book", r, c, None)]
    /\ UNCHANGED <<scene, thread, bumps, pair, ticket, msgs, told, mark, page,
                   receipt, booking, slot>>

\* CreateRequest with linkRequestConversation.  The key is unique: the second of
\* two requests with one key rolls back and answers with the first.
CommitBooking(s) ==
    LET t == tx[s] IN
    /\ t.op = "book" /\ pair = None /\ slot.left > 0 /\ booking[t.ref] = "none"
    /\ slot' = [slot EXCEPT !.left = @ - 1]
    /\ Store(t) /\ Bump(t)
    /\ thread' = [thread EXCEPT ![t.to] = RootFor(t.to)]
    /\ booking' = [booking EXCEPT ![t.ref] = "pending"]
    /\ tx' = [tx EXCEPT ![s] = [t EXCEPT !.op = "announce"]]
    /\ UNCHANGED <<scene, clock, pair, ticket, told, mark, page, receipt>>

UpdateRequest(r, status) ==
    /\ \/ booking[r] = "pending" /\ status \in {"accepted", "rejected"}
       \/ booking[r] = "accepted" /\ status = "completed"
    /\ booking' = [booking EXCEPT ![r] = status]
    /\ UNCHANGED <<scene, clock, thread, bumps, pair, tx, ticket, msgs, told, mark,
                   page, receipt, slot>>

\* Slip: remaining is not kept from going below zero (ChatTypeOK).
UpsertAvailabilityBelowZero(capacity) ==
    /\ "book" \in scene.does
    /\ slot' = [capacity |-> capacity, left |-> capacity - (slot.capacity - slot.left)]
    /\ slot' # slot
    /\ UNCHANGED <<scene, clock, thread, bumps, pair, tx, ticket, msgs, told, mark,
                   page, receipt, booking>>

\* The seats taken so far are what capacity and remaining say, not what was booked.
UpsertAvailability(capacity) ==
    /\ "book" \in scene.does
    /\ slot' = [capacity |-> capacity, left |-> Max({0, capacity - (slot.capacity - slot.left)})]
    /\ slot' # slot
    /\ UNCHANGED <<scene, clock, thread, bumps, pair, tx, ticket, msgs, told, mark,
                   page, receipt, booking>>

-----------------------------------------------------------------------------
(* The support desk *)

CreateTicket(r) ==
    /\ scene.channel = "support" /\ ticket = "none" /\ By[r] = "customer"
    /\ clock < MaxClock /\ r \notin Bookings
    /\ clock' = clock + 1
    /\ ticket' = "open"
    /\ msgs' = {Message(Open("reply", r, Ticket, None))}
    /\ UNCHANGED <<scene, thread, bumps, pair, tx, told, mark, page, receipt,
                   booking, slot>>

\* A reply carries no reference: every request is a message of its own.
BeginReply(s, r) ==
    /\ ticket # "none" /\ tx[s] = NoWrite /\ clock < MaxClock /\ r \notin Bookings
    /\ Known(r) = {} /\ \A z \in Writers : tx[z].ref # r
    /\ clock' = clock + 1
    /\ tx' = [tx EXCEPT ![s] = Open("reply", r, Ticket, None)]
    /\ UNCHANGED <<scene, thread, bumps, pair, ticket, msgs, told, mark, page,
                   receipt, booking, slot>>

\* Slip: the status is not read again under the lock of the ticket (ClosedForGood).
CommitReplyUnlocked(s) ==
    LET t == tx[s] IN
    /\ t.op = "reply"
    /\ Store(t)
    /\ ticket' = IF By[t.ref] = "desk" THEN "responded" ELSE "open"
    /\ told' = IF By[t.ref] = "desk" THEN told \cup {t.ref} ELSE told
    /\ tx' = [tx EXCEPT ![s] = NoWrite]
    /\ UNCHANGED <<scene, clock, thread, bumps, pair, mark, page, receipt, booking,
                   slot>>

\* UserReply, AdminReply: lock, check, insert, status and notification commit as one.
CommitReply(s) ==
    LET t == tx[s] IN
    /\ t.op = "reply" /\ ticket # "closed"
    /\ Store(t)
    /\ ticket' = IF By[t.ref] = "desk" THEN "responded" ELSE "open"
    /\ told' = IF By[t.ref] = "desk" THEN told \cup {t.ref} ELSE told
    /\ tx' = [tx EXCEPT ![s] = NoWrite]
    /\ UNCHANGED <<scene, clock, thread, bumps, pair, mark, page, receipt, booking,
                   slot>>

AdminCloseTicket ==
    /\ ticket \in {"open", "responded"}
    /\ ticket' = "closed"
    /\ UNCHANGED <<scene, clock, thread, bumps, pair, tx, msgs, told, mark, page,
                   receipt, booking, slot>>

-----------------------------------------------------------------------------
(* Reading *)

\* Slip: the tag counts the conversation asked for, not its thread (PageIsFresh).
RevisionOfRoot == Cardinality({b \in bumps : thread[b.to] = b.to})

\* conversationMessages: the revisions of all conversations of the thread added
\* up; a history_revision is the number of bumps of its conversation.
Revision == Cardinality({b \in bumps : b.to \in Rows})

\* The tag is read before the messages; an unchanged tag is answered 304.
AskPage(side) ==
    /\ scene.channel = "business" /\ "page" \in scene.does /\ Rows # {}
    /\ Revision # page[side].tag /\ Revision # page[side].asked
    /\ page' = [page EXCEPT ![side].asked = Revision]
    /\ UNCHANGED <<scene, clock, thread, bumps, pair, tx, ticket, msgs, told, mark,
                   receipt, booking, slot>>

\* messagePage: what is committed when the messages are read.
Displayed == {m.ref : m \in msgs}

\* conversationMessages, and messagePage of a ticket, which has no tag.
ShowPage(side) ==
    /\ page[side].asked # page[side].tag \/ scene.channel = "support"
    /\ page' = [page EXCEPT ![side] =
                  [asked |-> @.asked, tag |-> @.asked, shows |-> Displayed]]
    /\ page' # page
    /\ UNCHANGED <<scene, clock, thread, bumps, pair, tx, ticket, msgs, told, mark,
                   receipt, booking, slot>>

\* markConversationRead, markTicketRead, and the mark_read of a page: up to a
\* message that is displayed, never backwards.
MarkRead(side, m) ==
    /\ "read" \in scene.does /\ m.ref \in page[side].shows
    /\ \E c \in RoomOf(m) : mark[side][c] < m.at
    /\ mark' = [mark EXCEPT ![side] =
                  [c \in Rooms |-> IF c \in RoomOf(m) THEN Max({@[c], m.at}) ELSE @[c]]]
    /\ UNCHANGED <<scene, clock, thread, bumps, pair, tx, ticket, msgs, told, page,
                   receipt, booking, slot>>

\* BatchDelivered never overwrites a row.
BatchDelivered(r) ==
    /\ "receipt" \in scene.does /\ Known(r) # {} /\ receipt.of[r] = "sent"
    /\ receipt' = [receipt EXCEPT !.of[r] = "delivered"]
    /\ UNCHANGED <<scene, clock, thread, bumps, pair, tx, ticket, msgs, told, mark,
                   page, booking, slot>>

\* Acknowledge with read: noted only while the reader has receipts on.  openly is
\* history, the messages read then.
Acknowledge(r) ==
    /\ "receipt" \in scene.does /\ Known(r) # {} /\ receipt.of[r] # "read"
    /\ receipt' = IF receipt.on[Other(By[r])]
                  THEN [receipt EXCEPT !.of[r] = "read", !.openly = @ \cup {r}]
                  ELSE [receipt EXCEPT !.of[r] = "delivered"]
    /\ UNCHANGED <<scene, clock, thread, bumps, pair, tx, ticket, msgs, told, mark,
                   page, booking, slot>>

SavePreferences(side) ==
    /\ "receipt" \in scene.does
    /\ receipt' = [receipt EXCEPT !.on[side] = ~@]
    /\ UNCHANGED <<scene, clock, thread, bumps, pair, tx, ticket, msgs, told, mark,
                   page, booking, slot>>

\* Status, as the sender of r sees it.
Status(r) ==
    IF receipt.of[r] = "read" /\ ~(\A side \in Sides : receipt.on[side])
    THEN "delivered" ELSE receipt.of[r]

-----------------------------------------------------------------------------
Write(s) ==
    \/ CommitContact(s) \/ CommitSend(s) \/ Announce(s) \/ Abandon(s)
    \/ CommitBooking(s) \/ CommitReply(s)
    \/ \E r \in References :
         \/ BeginSend(s, r) \/ BeginReply(s, r)
         \/ \E c \in Contacts : BeginContact(s, c, r) \/ BeginBooking(s, c, r)

ChatNext ==
    \/ \E s \in Writers : Write(s)
    \/ \E r \in DOMAIN booking, st \in {"accepted", "rejected", "completed"} : UpdateRequest(r, st)
    \/ \E n \in Capacities : UpsertAvailability(n)
    \/ AdminCloseTicket
    \/ \E r \in References : CreateTicket(r) \/ BatchDelivered(r) \/ Acknowledge(r)
    \/ \E side \in Sides : AskPage(side) \/ ShowPage(side) \/ SavePreferences(side)
    \/ \E side \in Sides, m \in msgs : MarkRead(side, m)

ChatSpec == ChatInit /\ [][ChatNext]_chatVars

-----------------------------------------------------------------------------
(* Properties *)

ChatTypeOK ==
    /\ scene \in Scenes /\ clock \in 0 .. MaxClock
    /\ thread \in [Contacts -> Contacts \cup {None}]
    /\ bumps \subseteq [to : Contacts, at : 1 .. MaxClock]
    /\ pair \in Writers \cup {None}
    /\ tx \in [Writers -> [op : {"idle", "contact", "send", "announce", "book", "reply"},
                            ref : References \cup {None}, to : Rooms \cup {None},
                            at : 0 .. MaxClock, root : Contacts \cup {None}]]
    /\ ticket \in {"none", "open", "responded", "closed"}
    /\ msgs \subseteq [ref : References, to : Rooms, at : 1 .. MaxClock, by : Sides]
    /\ told \subseteq References
    /\ mark \in [Sides -> [Rooms -> 0 .. MaxClock]]
    /\ page \in [Sides -> [asked : Nat, tag : Nat, shows : SUBSET References]]
    /\ receipt \in [of : [References -> {"sent", "delivered", "read"}],
                     on : [Sides -> BOOLEAN], openly : SUBSET References]
    /\ booking \in [References \cap Bookings ->
                     {"none", "pending", "accepted", "rejected", "completed"}]
    /\ slot \in [capacity : Capacities, left : Nat] /\ slot.left =< slot.capacity

\* However many first contacts run at once, about one product or several, a
\* customer and a business have one thread, rooted in one of its rows.
OneThread ==
    \A c, d \in Rows : thread[c] = thread[d] /\ thread[c] \in Rows

\* A page whose tag is still the current one, so that the next poll is answered
\* 304, shows every committed message of the thread, whatever order they
\* committed in and in whichever conversation they were written.
PageIsFresh ==
    scene.channel = "business" =>
        \A side \in Sides :
            page[side].tag = Revision => Displayed = page[side].shows

\* What a customer writes, and what support answers, is announced to the other
\* side from the moment it can be read, whenever a writer dies.
AnnouncedWithTheMessage ==
    \A m \in msgs :
        (m.by = "customer" /\ m.to # Ticket /\ m.ref \notin Bookings)
            \/ (m.by = "desk" /\ m.to = Ticket) => m.ref \in told

\* A message is reported read only if it was read while its reader had receipts
\* on: turning them on later does not reveal what was read before.
PrivateReads == \A r \in References : Status(r) = "read" => r \in receipt.openly

\* No reply that was under way when the ticket closed reopens it or is added.
ClosedForGood ==
    [][ticket = "closed" => ticket' = "closed" /\ msgs' = msgs]_chatVars

\* A retry of what was already done, also one that overlaps it, adds no message
\* and takes no seat: seats go only with a new message.
RetriesAreHarmless ==
    [][Displayed' = Displayed /\ slot'.capacity = slot.capacity
         => msgs' = msgs /\ slot'.left = slot.left]_chatVars

\* What the two sides are shown: one thread, nothing missing from a page that says
\* it is current, nothing unannounced, nothing read that was read in private.
ThreadsInOrder == OneThread /\ PageIsFresh /\ AnnouncedWithTheMessage /\ PrivateReads

\* What is over stays over: closed tickets and messages already sent.
DoneIsDone == ClosedForGood /\ RetriesAreHarmless

=============================================================================
