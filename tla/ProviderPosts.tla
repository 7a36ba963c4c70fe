---------------------------- MODULE ProviderPosts ----------------------------
(* The posts of one provider: service listings and merchant products, which   *)
(* share the allowance of the provider's plan.                                *)
(*                                                                            *)
(* A post is made as a draft, submitted, moderated by an administrator,       *)
(* edited and archived.  Database triggers on both tables count the posts,    *)
(* give each one the lowest free slot and, for listings, keep the revision    *)
(* of the content and withdraw an approved listing whose content changes.     *)
(* The public pages show an approved post whose slot fits the visibility      *)
(* limit of the provider.  The plan itself comes from outside                 *)
(* (ProviderSubscriptions, PlayBilling): it rises, falls and runs out.        *)
(*                                                                            *)
(* Sources: provider_marketplace_controller.go, merchant_product_controller.go*)
(* catalog_controller.go, migrations 075, 097 and 107.                        *)
(*                                                                            *)
(* A definition introduced by "Slip:" is an operation with one plausible      *)
(* mistake; no behaviour of PostsSpec uses it.                                *)
EXTENDS Integers, FiniteSets, FiniteSetsExt

CONSTANTS
    Listings,   \* service listings that may be made
    Products,   \* merchant products that may be made
    Makers,     \* requests of the provider's staff that read before they write
    Reviewers,  \* administrators with a post on the screen
    MaxPlan,    \* the largest plan: how many posts it allows
    MaxEdits,   \* bound: how many times content changes in all
    NoPost      \* no post

ASSUME PostsAssumption ==
    /\ Listings \cap Products = {}
    /\ NoPost \notin Listings \cup Products
    /\ MaxPlan \in Nat \ {0} /\ MaxEdits \in Nat

Posts == Listings \cup Products

VARIABLES
    post,       \* the row of a post
    plan,       \* posts the paid plan allows; 0: no paid period now
    document,   \* some verification document of the business is approved
    verified,   \* verification_status of the organisation is approved
    maker,      \* what a request of the staff has read
    screen,     \* what an administrator has on the screen
    edits       \* changes of content so far

postVars == <<post, plan, document, verified, maker, screen, edits>>

Statuses == {"absent", "draft", "pending", "approved", "rejected", "suspended", "archived"}
Slots == 1..MaxPlan

NewRow == [status |-> "absent", slot |-> 0, rev |-> 0, published |-> FALSE,
           active |-> FALSE, judged |-> 0]
NoErrand == [doing |-> "idle", post |-> NoPost]
Blank == [post |-> NoPost, rev |-> 0]

PostsInit ==
    /\ post = [p \in Posts |-> NewRow]
    /\ plan \in 0..MaxPlan
    /\ document = FALSE /\ verified = FALSE
    /\ maker = [m \in Makers |-> NoErrand]
    /\ screen = [r \in Reviewers |-> Blank]
    /\ edits = 0

------------------------------------------------------------------------------
(* The views and triggers of the database.                                    *)

Paid == plan > 0
Live == {p \in Posts : post[p].status \notin {"absent", "archived"}}

\* provider_current_benefits: what a new post must fit
PostLimit == IF Paid THEN plan ELSE 1

\* provider_public_identity.listing_limit: paid posts already published stay
ListingLimit ==
    IF Paid
    THEN Max({plan} \cup {post[p].slot : p \in
                {q \in Posts : post[q].status = "approved" /\ post[q].published}})
    ELSE 1

\* Slip: the trigger trusts the count the request made (QuotaAtEntry).
RoomAsCounted == TRUE

\* enforce_provider_listing_capacity: an INSERT must find room
RoomForOneMore == Cardinality(Live) < PostLimit

\* enforce_provider_listing_capacity: the first publication must fit the plan
MayEnter(p, status) ==
    (/\ ~post[p].published
     /\ status \in {"pending", "approved"}
     /\ status # post[p].status) => Cardinality(Live \ {p}) + 1 <= PostLimit

\* assign_provider_post_slot: the lowest slot no live post of the provider has
FreeSlot == Min((Slots \cup {MaxPlan + 1}) \ {post[p].slot : p \in Live})

\* maintain_listing_review_baseline: an approved listing is withdrawn when its
\* content changes, and only then
ListingStatus(p, status, changed) ==
    IF post[p].status # "approved" THEN status
    ELSE IF changed THEN "pending"
    ELSE IF status = "pending" THEN "approved"
    ELSE status

------------------------------------------------------------------------------
(* The plan and the verification of the business.                             *)

\* A paid period begins, is upgraded, is downgraded or ends
ChangePlan(n) ==
    /\ n # plan
    /\ plan' = n
    /\ UNCHANGED <<post, document, verified, maker, screen, edits>>

\* Documents are added as pending and each may be approved or rejected at any
\* time: what counts later is whether one of them is approved
AdminReviewVerificationDocument(approved) ==
    /\ document' = approved
    /\ UNCHANGED <<post, plan, verified, maker, screen, edits>>

\* approved needs an approved document; rejected and suspended need nothing.
\* A document rejected afterwards does not take the approval back
AdminVerifyProvider(approved) ==
    /\ approved => document
    /\ verified' = approved
    /\ UNCHANGED <<post, plan, document, maker, screen, edits>>

------------------------------------------------------------------------------
(* The provider's own requests.                                               *)

\* CreateListing, CreateMerchantProduct: the count before the INSERT
BeginCreate(m) ==
    /\ maker[m] = NoErrand
    /\ Cardinality(Live) < PostLimit
    /\ maker' = [maker EXCEPT ![m] = [doing |-> "creating", post |-> NoPost]]
    /\ UNCHANGED <<post, plan, document, verified, screen, edits>>

\* The INSERT of a new row, with the triggers that hold the organisation's row
Insert(m, p) ==
    /\ maker[m].doing = "creating" /\ post[p].status = "absent"
    /\ RoomForOneMore
    /\ FreeSlot <= PostLimit
    /\ post' = [post EXCEPT ![p] = [NewRow EXCEPT !.status = "draft", !.slot = FreeSlot]]
    /\ maker' = [maker EXCEPT ![m] = NoErrand]
    /\ UNCHANGED <<plan, document, verified, screen, edits>>

CreateListing(m, p) == p \in Listings /\ Insert(m, p)

CreateMerchantProduct(m, p) == p \in Products /\ Insert(m, p)

\* requirePublishingEligibility first; a refused form changes nothing
BeginSubmit(m, p) ==
    /\ maker[m] = NoErrand /\ post[p].status \in {"draft", "rejected"}
    /\ verified
    /\ maker' = [maker EXCEPT ![m] = [doing |-> "submitting", post |-> p]]
    /\ UNCHANGED <<post, plan, document, verified, screen, edits>>

\* Slip: the count of the request is taken for the plan of today (QuotaAtEntry).
EnqueueAsCounted(m, table, row) ==
    LET p == maker[m].post IN
    /\ maker[m].doing = "submitting" /\ p \in table
    /\ post[p].status \in {"draft", "rejected"}
    /\ post' = [post EXCEPT ![p] = row]
    /\ maker' = [maker EXCEPT ![m] = NoErrand]
    /\ UNCHANGED <<plan, document, verified, screen, edits>>

\* The UPDATE that puts a post of one table in the queue
Enqueue(m, table, row) ==
    LET p == maker[m].post IN
    /\ maker[m].doing = "submitting" /\ p \in table
    /\ post[p].status \in {"draft", "rejected"}
    /\ MayEnter(p, "pending")
    /\ post' = [post EXCEPT ![p] = row]
    /\ maker' = [maker EXCEPT ![m] = NoErrand]
    /\ UNCHANGED <<plan, document, verified, screen, edits>>

SubmitListing(m) ==
    \E p \in Listings : Enqueue(m, {p}, [post[p] EXCEPT !.status = "pending"])

\* A product waits off the shelf
SubmitMerchantProduct(m) ==
    \E p \in Products :
        Enqueue(m, {p}, [post[p] EXCEPT !.status = "pending", !.active = FALSE])

\* A write that a guard or a trigger refuses: 402, 403, 404 or 409
Refused(m) ==
    LET p == maker[m].post IN
    /\ \/ /\ maker[m].doing = "creating"
          /\ ~(RoomForOneMore /\ FreeSlot <= PostLimit)
       \/ /\ maker[m].doing = "submitting"
          /\ ~(post[p].status \in {"draft", "rejected"} /\ MayEnter(p, "pending"))
    /\ maker' = [maker EXCEPT ![m] = NoErrand]
    /\ UNCHANGED <<post, plan, document, verified, screen, edits>>

\* What an edit asks for: a post waiting or on show goes back to the queue
Resubmitted(p) ==
    IF post[p].status \in {"pending", "approved"} THEN "pending" ELSE post[p].status

\* Slip: the handler raises the revision and the trigger does too (PostsTypeOK).
UpdateListingCountedTwice(p, changed) ==
    LET status == ListingStatus(p, Resubmitted(p), changed) IN
    /\ p \in Live
    /\ changed => edits < MaxEdits
    /\ MayEnter(p, status)
    /\ post' = [post EXCEPT ![p].status = status,
                            ![p].rev = IF changed THEN @ + 2 ELSE @]
    /\ edits' = IF changed THEN edits + 1 ELSE edits
    /\ UNCHANGED <<plan, document, verified, maker, screen>>

\* UpdateListing: the whole form is saved, changed or not
UpdateListing(p, changed) ==
    LET status == ListingStatus(p, Resubmitted(p), changed) IN
    /\ p \in Live
    /\ changed => edits < MaxEdits
    /\ MayEnter(p, status)
    /\ post' = [post EXCEPT ![p].status = status,
                            ![p].rev = IF changed THEN @ + 1 ELSE @]
    /\ edits' = IF changed THEN edits + 1 ELSE edits
    /\ UNCHANGED <<plan, document, verified, maker, screen>>

\* UpdateMerchantProduct: always back to the queue and off the shelf
UpdateMerchantProduct(p) ==
    /\ p \in Live
    /\ edits < MaxEdits
    /\ MayEnter(p, Resubmitted(p))
    /\ post' = [post EXCEPT ![p].status = Resubmitted(p), ![p].active = FALSE,
                            ![p].rev = @ + 1]
    /\ edits' = edits + 1
    /\ UNCHANGED <<plan, document, verified, maker, screen>>

\* An archived listing gives its slot back
ArchiveListing(p) ==
    /\ p \in Live
    /\ post' = [post EXCEPT ![p].status = "archived"]
    /\ UNCHANGED <<plan, document, verified, maker, screen, edits>>

\* So does a product, which leaves the shelf as well
ArchiveMerchantProduct(p) ==
    /\ p \in Live
    /\ post' = [post EXCEPT ![p].status = "archived", ![p].active = FALSE]
    /\ UNCHANGED <<plan, document, verified, maker, screen, edits>>

------------------------------------------------------------------------------
(* The administrator.                                                         *)

\* AdminListListings: the content and its revision, together
AdminListListings(r, p) ==
    /\ p \in Live
    /\ screen' = [screen EXCEPT ![r] = [post |-> p, rev |-> post[p].rev]]
    /\ UNCHANGED <<post, plan, document, verified, maker, edits>>

\* AdminListMerchantProducts: the page carries no version of a product
AdminListMerchantProducts(r, p) ==
    /\ p \in Live
    /\ screen' = [screen EXCEPT ![r] = [post |-> p, rev |-> 0]]
    /\ UNCHANGED <<post, plan, document, verified, maker, edits>>

\* The row after a decision about revision judged of its content.  A listing has no
\* shelf: its stock is FALSE
Moderated(p, status, stock, judged) ==
    [post[p] EXCEPT !.status = status,
                    !.published = @ \/ status = "approved",
                    !.active = status = "approved" /\ stock,
                    !.judged = IF status = "approved" THEN judged ELSE 0]

\* What a decision is about: the revision it names, or whatever the row holds by now
Judges(r, named) == IF named THEN screen[r].rev ELSE post[screen[r].post].rev

\* Slip: a revision that is named is not compared (ReviewedContentOnly).
AdminModerateListingBlindly(r, status, named) ==
    LET p == screen[r].post IN
    /\ p \in Live /\ p \in Listings
    /\ status = "approved" => verified
    /\ MayEnter(p, status)
    /\ post' = [post EXCEPT ![p] = Moderated(p, status, FALSE, Judges(r, named))]
    /\ screen' = [screen EXCEPT ![r] = Blank]
    /\ UNCHANGED <<plan, document, verified, maker, edits>>

\* AdminModerateListing: expected_content_revision is optional, and only a decision
\* that names one is refused when the row has another
AdminModerateListing(r, status, named) ==
    LET p == screen[r].post IN
    /\ p \in Live /\ p \in Listings
    /\ status = "approved" => verified
    /\ named => post[p].rev = screen[r].rev
    /\ MayEnter(p, status)
    /\ post' = [post EXCEPT ![p] = Moderated(p, status, FALSE, Judges(r, named))]
    /\ screen' = [screen EXCEPT ![r] = Blank]
    /\ UNCHANGED <<plan, document, verified, maker, edits>>

\* AdminModerateMerchantProduct: the decision names the product only, so it
\* covers whatever the row holds by now
AdminModerateMerchantProduct(r, status, stock) ==
    LET p == screen[r].post IN
    /\ p \in Live /\ p \in Products
    /\ status = "approved" => verified
    /\ MayEnter(p, status)
    /\ post' = [post EXCEPT ![p] = Moderated(p, status, stock, post[p].rev)]
    /\ screen' = [screen EXCEPT ![r] = Blank]
    /\ UNCHANGED <<plan, document, verified, maker, edits>>

------------------------------------------------------------------------------
(* What the public sees.                                                      *)
OnShow(p) == post[p].status = "approved" /\ verified

\* The slot is one the visibility limit of the provider still covers
Visible(p) == post[p].slot <= ListingLimit

\* ListProducts, ListFlashSales, ListRecommendations
ShownProducts == {p \in Products : OnShow(p) /\ post[p].active /\ Visible(p)}

\* GetProduct: the page of one product asks what the lists ask
ProductPage(p) == p \in Products /\ OnShow(p) /\ post[p].active /\ Visible(p)

\* ListPublicListings, ListNearbyListings
ShownListings == {p \in Listings : OnShow(p) /\ Visible(p)}

\* GetPublicListing: the page of one listing does not ask for its slot
ListingPage(p) == p \in Listings /\ OnShow(p)

Shown == ShownProducts \cup ShownListings

PostsNext ==
    \/ \E n \in 0..MaxPlan : ChangePlan(n)
    \/ \E approved \in BOOLEAN : \/ AdminReviewVerificationDocument(approved)
                                \/ AdminVerifyProvider(approved)
    \/ \E m \in Makers :
         \/ BeginCreate(m) \/ SubmitListing(m) \/ SubmitMerchantProduct(m) \/ Refused(m)
         \/ \E p \in Posts : CreateListing(m, p) \/ CreateMerchantProduct(m, p)
                             \/ BeginSubmit(m, p)
    \/ \E p \in Listings, changed \in BOOLEAN : UpdateListing(p, changed)
    \/ \E p \in Listings : ArchiveListing(p)
    \/ \E p \in Products : UpdateMerchantProduct(p) \/ ArchiveMerchantProduct(p)
    \/ \E r \in Reviewers :
         \/ \E p \in Listings : AdminListListings(r, p)
         \/ \E p \in Products : AdminListMerchantProducts(r, p)
         \/ \E s \in {"approved", "rejected", "suspended"} :
              \/ \E named \in BOOLEAN : AdminModerateListing(r, s, named)
              \/ \E stock \in BOOLEAN : AdminModerateMerchantProduct(r, s, stock)

PostsSpec == PostsInit /\ [][PostsNext]_postVars

------------------------------------------------------------------------------
\* Rows, requests of the staff and screens stay in their domains
PostsTypeOK ==
    /\ post \in [Posts -> [status : Statuses, slot : 0..MaxPlan, rev : 0..MaxEdits,
                           published : BOOLEAN, active : BOOLEAN, judged : 0..MaxEdits]]
    /\ plan \in 0..MaxPlan
    /\ document \in BOOLEAN /\ verified \in BOOLEAN
    /\ maker \in [Makers -> [doing : {"idle", "creating", "submitting"},
                             post : Posts \cup {NoPost}]]
    /\ screen \in [Reviewers -> [post : Posts \cup {NoPost}, rev : 0..MaxEdits]]
    /\ edits \in 0..MaxEdits

\* No two live posts share a slot, so the public never sees more posts of a
\* provider than its allowance, however requests, archives and changes of the
\* plan interleave; and a plan that shrinks hides nothing it once published
SlotsHold ==
    /\ \A p, q \in Live : p # q => post[p].slot # post[q].slot
    /\ Cardinality(Shown) <= ListingLimit
    /\ Paid /\ verified =>
         \A p \in Listings : post[p].status = "approved" => p \in Shown

\* What the public sees of a post is the revision that was approved: an edit made
\* later takes it off every page, also the one reached by a saved link, and a listing
\* approved with the revision on the administrator's screen shows that revision,
\* whatever was edited meanwhile.  A decision that names no revision (every one about
\* a product, and one about a listing may) approves what the row holds by then, so
\* of these nothing is said about what the administrator had on the screen
ReviewedContentOnly ==
    /\ \A p \in Posts : ListingPage(p) => post[p].judged = post[p].rev
    /\ \A p \in Posts : ProductPage(p) => post[p].judged = post[p].rev

\* A post that is made, that enters the queue, or that is approved
EntersAnew(p) ==
    \/ post[p].status = "absent" /\ post'[p].status # "absent"
    \/ ~post[p].published /\ post[p].status # "pending" /\ post'[p].status = "pending"
    \/ ~post[p].published /\ post'[p].published

\* A post is made, enters the queue (each time it does before it was ever published)
\* or is published for the first time only within the plan of that moment, also when
\* several requests counted before any of them wrote and the plan shrank meanwhile
QuotaAtEntry ==
    [][\A p \in Posts : EntersAnew(p) => Cardinality(Live') <= PostLimit]_postVars

\* The public sees the posts that have a slot, as they were reviewed.
PublicPosts == SlotsHold /\ ReviewedContentOnly

==============================================================================
