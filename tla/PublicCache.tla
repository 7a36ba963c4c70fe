----------------------------- MODULE PublicCache -----------------------------
(* The public pages of the catalogue: read through one Redis cache by several *)
(* replicas of the API, none of which invalidates anything.                   *)
(*                                                                            *)
(* A fetch takes a slot of its replica, reads the revision of the catalogue   *)
(* and the minute, and looks for a page kept under both.  Of the fetches of   *)
(* one replica that miss the same page one fills it; the others wait for it   *)
(* and look again.  Every write of the catalogue raises the revision in its   *)
(* own transaction, and so nobody looks under an old revision again.          *)
(*                                                                            *)
(* Abstractions.  A page stands for the URL, encoding and country of a key,   *)
(* the text of one for what was read to make it.  Pages show the ten tables   *)
(* that raise the revision; what they show of other tables (a rating, a name) *)
(* follows by the next minute.  Processes and database share one clock.  A    *)
(* fetch that finds no slot or a draining replica is turned away with nothing *)
(* changed, one that asks not to be cached while the revision is known takes  *)
(* the same way as any other.                                                 *)
(*                                                                            *)
(* Sources: middleware/public_cache.go, catalog_freshness.go, admission.go,   *)
(* scale.go, cmd/api/main.go (their order), migrations/057.                   *)
(*                                                                            *)
(* A definition introduced by "Slip:" is an operation with one plausible      *)
(* mistake; no behaviour of CacheSpec uses it.                                *)
EXTENDS Naturals, FiniteSets

CONSTANTS
    Fetches,      \* GET requests, one of them open at a time under each name
    Replicas,     \* processes of the API
    Pages,        \* what can be asked for
    Sites,        \* the cases: the replicas there are, the fetches they get, which of
                  \* them have an Authorization header, and HTTPMaxInFlight of a replica
    MaxChanges,   \* bound: writes of the catalogue and minutes together
    Nobody, NoReplica, NoPage

ASSUME CacheAssumption ==
    /\ MaxChanges \in Nat
    /\ IsFiniteSet(Fetches)
    /\ Sites \subseteq [replicas : SUBSET Replicas, fetches : SUBSET Fetches,
                        signed : SUBSET Fetches, slots : Nat]
    /\ Nobody \notin Fetches /\ NoReplica \notin Replicas /\ NoPage \notin Pages

VARIABLES
    site,      \* one of Sites, for good
    revision,  \* catalog_revision, and with it the state of the catalogue
    minute,    \* the clock
    stored,    \* Redis: a page and who stored it
    flights,   \* per replica, the key being filled and the fetch that fills it
    slots,     \* per replica, slots taken
    fetch      \* a request on its way through the middleware

cacheVars == <<site, revision, minute, stored, flights, slots, fetch>>

Versions == [rev : 0 .. MaxChanges, min : 0 .. MaxChanges]
Keys == Pages \X Versions
Now == [rev |-> revision, min |-> minute]
AtLeast(v, w) == v.rev >= w.rev /\ v.min >= w.min

\* What was read for a page, and whose page it is when it shows private data
Bodies == [page : Pages, at : Versions, whose : Fetches \cup {Nobody}]
NoBody == [page |-> NoPage, at |-> [rev |-> 0, min |-> 0], whose |-> Nobody]
Absent == [body |-> NoBody, by |-> {}]

NoFetch == [step |-> "idle", at |-> NoReplica, page |-> NoPage, signed |-> FALSE,
            since |-> NoBody.at, token |-> NoBody.at, missed |-> FALSE, body |-> NoBody]

CacheInit ==
    /\ site \in Sites
    /\ revision = 0 /\ minute = 0
    /\ stored = [k \in Keys |-> Absent]
    /\ flights = [p \in Replicas |-> {}]
    /\ slots = [p \in Replicas |-> 0]
    /\ fetch = [q \in Fetches |-> NoFetch]

At(q, step) == fetch[q].step = step
Key(q) == <<fetch[q].page, fetch[q].token>>
Flight(q) == <<Key(q), q>>
Fills(q) == Flight(q) \in flights[fetch[q].at]
Open(p) == {q \in Fetches : fetch[q].at = p}

Goto(q, step) == fetch' = [fetch EXCEPT ![q].step = step]
Serve(q, body) == fetch' = [fetch EXCEPT ![q].step = "answer", ![q].body = body]

\* Admission.Handler: a slot or a refusal, nobody queues
Admit(q, p, page, signed) ==
    /\ At(q, "idle") /\ slots[p] < site.slots
    /\ q \in site.fetches /\ p \in site.replicas
    /\ signed => q \in site.signed
    /\ slots' = [slots EXCEPT ![p] = @ + 1]
    /\ fetch' = [fetch EXCEPT ![q] = [NoFetch EXCEPT !.step = "revision", !.at = p, !.page = page,
                                                     !.signed = signed, !.since = Now]]
    /\ UNCHANGED <<site, revision, minute, stored, flights>>

\* CatalogFreshness reads the revision; without it the cache is left alone, as it
\* is for a signed request
ReadRevision(q) ==
    /\ At(q, "revision")
    /\ \/ fetch' = [fetch EXCEPT ![q].step = IF fetch[q].signed THEN "handler" ELSE "token",
                                 ![q].token.rev = revision]
       \/ Goto(q, "handler")
    /\ UNCHANGED <<site, revision, minute, stored, flights, slots>>

\* CatalogChangeToken takes the minute afterwards
TakeToken(q) ==
    /\ At(q, "token")
    /\ fetch' = [fetch EXCEPT ![q].step = "lookup", ![q].token.min = minute]
    /\ UNCHANGED <<site, revision, minute, stored, flights, slots>>

\* readPublicCache: a page, none, or no Redis, which sends the fetch to the handler
Lookup(q) ==
    /\ At(q, "lookup")
    /\ \/ stored[Key(q)] # Absent /\ Serve(q, stored[Key(q)].body)
       \/ stored[Key(q)] = Absent /\ Goto(q, "register")
       \/ Goto(q, "handler")
    /\ UNCHANGED <<site, revision, minute, stored, flights, slots>>

\* Under the mutex: one fetch of a replica owns the flight of a key
Register(q) ==
    LET p == fetch[q].at IN
    /\ At(q, "register")
    /\ IF \E r \in Fetches : <<Key(q), r>> \in flights[p]
       THEN Goto(q, "waiting") /\ UNCHANGED flights
       ELSE /\ flights' = [flights EXCEPT ![p] = @ \cup {Flight(q)}]
            /\ Goto(q, "recheck")
    /\ UNCHANGED <<site, revision, minute, stored, slots>>

\* Two seconds of waiting are over: 503
GiveUp(q) ==
    /\ At(q, "waiting")
    /\ Serve(q, NoBody)
    /\ UNCHANGED <<site, revision, minute, stored, flights, slots>>

\* A fill may have ended between the lookup and the registration
Recheck(q) ==
    /\ At(q, "recheck")
    /\ \/ stored[Key(q)] # Absent /\ Serve(q, stored[Key(q)].body)
       \/ \E missed \in BOOLEAN :
            /\ missed => stored[Key(q)] = Absent
            /\ fetch' = [fetch EXCEPT ![q].step = "handler", ![q].missed = missed]
    /\ UNCHANGED <<site, revision, minute, stored, flights, slots>>

\* Slip: the page is read from a replica of the database, which may lag behind
LoadLagging(q) ==
    /\ At(q, "handler")
    /\ \E v \in Versions :
         /\ AtLeast(Now, v)
         /\ fetch' = [fetch EXCEPT ![q].step = IF Fills(q) THEN "store" ELSE "answer",
                        ![q].body = [page |-> fetch[q].page, at |-> v,
                                     whose |-> IF fetch[q].signed THEN q ELSE Nobody]]
    /\ UNCHANGED <<site, revision, minute, stored, flights, slots>>

\* The handler reads the primary, or fails and nothing is kept
Load(q) ==
    /\ At(q, "handler")
    /\ \/ fetch' = [fetch EXCEPT ![q].step = IF Fills(q) THEN "store" ELSE "answer",
                      ![q].body = [page |-> fetch[q].page, at |-> Now,
                                   whose |-> IF fetch[q].signed THEN q ELSE Nobody]]
       \/ Serve(q, NoBody)
    /\ UNCHANGED <<site, revision, minute, stored, flights, slots>>

\* fillPublicCache: Redis may refuse, the answer is sent all the same
Store(q) ==
    /\ At(q, "store")
    /\ \/ stored' = [stored EXCEPT ![Key(q)] = [body |-> fetch[q].body, by |-> @.by \cup {fetch[q].at}]]
       \/ UNCHANGED stored
    /\ Goto(q, "answer")
    /\ UNCHANGED <<site, revision, minute, flights, slots>>

\* The deferred calls, also after a panic: the flight is closed, which wakes all
\* who wait for it, and the slot is free again
Answer(q) ==
    LET p == fetch[q].at
        woken == {r \in Open(p) : At(r, "waiting") /\ Key(r) = Key(q) /\ Fills(q)} IN
    /\ At(q, "answer")
    /\ flights' = [flights EXCEPT ![p] = @ \ {Flight(q)}]
    /\ slots' = [slots EXCEPT ![p] = @ - 1]
    /\ fetch' = [r \in Fetches |-> IF r = q THEN NoFetch
                                   ELSE IF r \in woken THEN [fetch[r] EXCEPT !.step = "lookup"]
                                   ELSE fetch[r]]
    /\ UNCHANGED <<site, revision, minute, stored>>

\* Five seconds at most
Evict(k) ==
    /\ stored[k] # Absent
    /\ stored' = [stored EXCEPT ![k] = Absent]
    /\ UNCHANGED <<site, revision, minute, flights, slots, fetch>>

\* bump_catalog_revision, in the transaction of the write
WriteCatalog ==
    /\ revision + minute < MaxChanges
    /\ revision' = revision + 1
    /\ UNCHANGED <<site, minute, stored, flights, slots, fetch>>

NextMinute ==
    /\ revision + minute < MaxChanges
    /\ minute' = minute + 1
    /\ UNCHANGED <<site, revision, stored, flights, slots, fetch>>

\* A process ends, drained or not, and another takes its place
Restart(p) ==
    /\ Open(p) # {}
    /\ flights' = [flights EXCEPT ![p] = {}]
    /\ slots' = [slots EXCEPT ![p] = 0]
    /\ fetch' = [q \in Fetches |-> IF fetch[q].at = p THEN NoFetch ELSE fetch[q]]
    /\ UNCHANGED <<site, revision, minute, stored>>

Visit(q) ==
    \/ \E p \in Replicas, page \in Pages, signed \in BOOLEAN : Admit(q, p, page, signed)
    \/ ReadRevision(q) \/ TakeToken(q) \/ Lookup(q) \/ Register(q) \/ GiveUp(q)
    \/ Recheck(q) \/ Load(q) \/ Store(q) \/ Answer(q)

CacheNext ==
    \/ \E q \in Fetches : Visit(q)
    \/ \E k \in Keys : Evict(k)
    \/ \E p \in Replicas : Restart(p)
    \/ WriteCatalog \/ NextMinute

CacheSpec == CacheInit /\ [][CacheNext]_cacheVars
-----------------------------------------------------------------------------
Steps == {"idle", "revision", "token", "lookup", "register", "waiting", "recheck", "handler",
          "store", "answer"}

CacheTypeOK ==
    /\ site \in Sites
    /\ revision \in Nat /\ minute \in Nat /\ revision + minute <= MaxChanges
    /\ stored \in [Keys -> [body : Bodies \cup {NoBody}, by : SUBSET Replicas]]
    /\ flights \in [Replicas -> SUBSET (Keys \X Fetches)]
    /\ slots \in [Replicas -> Nat]
    /\ fetch \in [Fetches ->
         [step : Steps, at : Replicas \cup {NoReplica}, page : Pages \cup {NoPage},
          signed : BOOLEAN, since : Versions, token : Versions, missed : BOOLEAN,
          body : Bodies \cup {NoBody}]]
    /\ \A q \in Fetches : At(q, "idle") <=> fetch[q].at = NoReplica

\* A page that is answered, from Redis or not, is the one that was asked for, was
\* read no earlier than the question was put, and shows nobody else's private data
\* (the key of SharedPublicCache, its check of Authorization, the primary database)
FreshPages ==
    \A q \in Fetches : (At(q, "answer") /\ fetch[q].body # NoBody) =>
        /\ fetch[q].body.page = fetch[q].page
        /\ AtLeast(fetch[q].body.at, fetch[q].since)
        /\ fetch[q].body.whose \in {Nobody, q}

\* Whoever waits has somebody to wait for, who is under way in the same replica
\* with the same key, alone; and a slot is taken for every fetch that is under way
\* (the deferred close and release, also after a failure)
FlightsAreFlown ==
    \A p \in Replicas :
        /\ \A q \in Open(p) : At(q, "waiting") => \E r \in Fetches : <<Key(q), r>> \in flights[p]
        /\ \A f \in flights[p] :
             /\ fetch[f[2]].at = p /\ Key(f[2]) = f[1]
             /\ fetch[f[2]].step \in {"recheck", "handler", "store", "answer"}
        /\ \A f, g \in flights[p] : f[1] = g[1] => f = g
        /\ slots[p] = Cardinality(Open(p)) /\ slots[p] <= site.slots

\* A replica that has stored a page does not fill it again while it is there,
\* unless Redis failed to say so (the second look of a new flight)
FilledOnce ==
    \A q \in Fetches :
        (fetch[q].step \in {"handler", "store"} /\ fetch[q].missed) =>
            fetch[q].at \notin stored[Key(q)].by

PagesAreFresh == FreshPages /\ FlightsAreFlown /\ FilledOnce
=============================================================================
