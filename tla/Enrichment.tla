----------------------------- MODULE Enrichment -----------------------------
(***************************************************************************)
(* EnrichBusinessProfile reading business websites: RobotsGate with its    *)
(* cached rules, HttpxWebFetcher, and FallbackWebFetcher's second try with *)
(* PlaywrightWebFetcher, for several enrichments at once.  Every await     *)
(* ends a step; meanwhile hosts change their rules, the shared cache       *)
(* evicts, and time passes.                                                *)
(*                                                                         *)
(* A host's rules are reduced to whether they permit the one page that is  *)
(* asked for.  Extraction says what becomes of a page.                     *)
(***************************************************************************)
EXTENDS Integers, Extraction

CONSTANTS
    Callers,   \* enrichments being executed at once
    Hosts,     \* origins of business websites
    Browser,   \* whether settings.use_playwright_fallback is on
    Ttl,       \* robots_cache_ttl_s
    Latency,   \* BOUND: the longest a robots.txt download takes, storing included
    Wait,      \* BOUND: the longest wait for the rate limiter (and a browser)
    MaxTime    \* BOUND: end of time

ASSUME SettingsAssumption == Browser \in BOOLEAN /\ Ttl \in Nat /\ Latency \in Nat /\ Wait \in Nat
ASSUME BoundAssumption == MaxTime \in Nat

Rules == [allows : BOOLEAN, expires : Nat]
Outcomes == {"not_listed", "fetched", "robots_denied", "unavailable", "empty"}

ASSUME ValueAssumption ==
    /\ NONE \notin Rules \cup Hosts \cup Outcomes \cup {"raised"} \cup Profile
    /\ NONE \notin [value : BOOLEAN, expires : Nat]

VARIABLES
    now,       \* the clock
    permits,   \* what each host's robots.txt says at the moment
    changed,   \* when it last changed
    cache,     \* robots:<netloc> in the response cache, or NONE
    pc,        \* where each enrichment is
    site,      \* the host of its candidate's website
    fetcher,   \* which fetcher is at work
    heard,     \* what the rules it is going by say
    since,     \* when it began to wait for what it is waiting for
    page,      \* the last page a fetcher of it returned, or NONE
    outcome,   \* what its last execute returned, "raised", or NONE
    profile    \* and the profile it returned, or NONE

callerVars == <<pc, site, fetcher, heard, since, page, outcome, profile>>
vars == <<now, permits, changed, cache, callerVars>>

-----------------------------------------------------------------------------
Init ==
    /\ now = 0
    /\ permits \in [Hosts -> BOOLEAN]
    /\ changed = [h \in Hosts |-> 0]
    /\ cache = [h \in Hosts |-> NONE]
    /\ pc = [c \in Callers |-> "idle"]
    /\ site = [c \in Callers |-> NONE]
    /\ fetcher = [c \in Callers |-> "httpx"]
    /\ heard = [c \in Callers |-> FALSE]
    /\ since = [c \in Callers |-> 0]
    /\ page = [c \in Callers |-> NONE]
    /\ outcome = [c \in Callers |-> NONE]
    /\ profile = [c \in Callers |-> NONE]

Live(h) == cache[h] # NONE /\ now < cache[h].expires

\* On to the next await.
Goto(c, label, t) ==
    /\ pc' = [pc EXCEPT ![c] = label]
    /\ since' = [since EXCEPT ![c] = t]

\* execute returns or raises; its locals are gone.
Leave(c, result, made) ==
    /\ pc' = [pc EXCEPT ![c] = "idle"]
    /\ outcome' = [outcome EXCEPT ![c] = result]
    /\ profile' = [profile EXCEPT ![c] = made]
    /\ site' = [site EXCEPT ![c] = NONE]
    /\ fetcher' = [fetcher EXCEPT ![c] = "httpx"]
    /\ heard' = [heard EXCEPT ![c] = FALSE]
    /\ since' = [since EXCEPT ![c] = 0]

\* Mutant: a denial is passed on without a value of WebsiteOutcome.
FinishUnnamed(c, result) ==
    Leave(c, IF result = "robots_denied" THEN "denied" ELSE result, Unenriched)

\* Nothing came of the website; the profile is made of the candidate alone.
Finish(c, result) == Leave(c, result, Unenriched)

\* A page is there: what the extractor finds in it goes into the profile.
FinishWith(c, p) ==
    CASE p \in BrokenPages -> Leave(c, "raised", NONE)
      [] p \in EmptyPages  -> Finish(c, "empty")
      [] OTHER             -> Leave(c, "fetched", ProfileOf[p])

Begin(c) ==
    /\ pc[c] = "idle"
    /\ \E h \in Hosts : site' = [site EXCEPT ![c] = h]
    /\ Goto(c, "lookup", 0)
    /\ page' = [page EXCEPT ![c] = NONE]
    /\ outcome' = [outcome EXCEPT ![c] = NONE]
    /\ profile' = [profile EXCEPT ![c] = NONE]
    /\ UNCHANGED <<now, permits, changed, cache, fetcher, heard>>

\* Nothing is requested: no website, one that is no http(s) URL, or one that
\* urlsplit refuses with a ValueError.
NothingToFetch(c) ==
    /\ pc[c] = "idle"
    /\ \/ \E result \in {"not_listed", "robots_denied"} : Finish(c, result)
       \/ Leave(c, "raised", NONE)
    /\ page' = [page EXCEPT ![c] = NONE]
    /\ UNCHANGED <<now, permits, changed, cache>>

-----------------------------------------------------------------------------
(* RobotsGate.is_allowed, which both fetchers call *)

\* A fetcher goes on to the rate limiter, or raises PolicyViolationError, which
\* FallbackWebFetcher does not catch and execute turns into an outcome.  Rules
\* with a path that RobotFileParser cannot take for one raise a ValueError.
Follow(c, allowed) ==
    /\ \/ /\ allowed
          /\ Goto(c, "pageWait", now)
          /\ heard' = [heard EXCEPT ![c] = FALSE]
          /\ UNCHANGED <<site, fetcher, outcome, profile>>
       \/ ~allowed /\ Finish(c, "robots_denied")
       \/ Leave(c, "raised", NONE)
    /\ UNCHANGED page

LookupHit(c) ==
    /\ pc[c] = "lookup"
    /\ Live(site[c])
    /\ Follow(c, cache[site[c]].allows)
    /\ UNCHANGED <<now, permits, changed, cache>>

\* Rules that have expired are deleted by the lookup that finds them.
LookupMiss(c) ==
    /\ pc[c] = "lookup"
    /\ ~Live(site[c])
    /\ cache' = [cache EXCEPT ![site[c]] = NONE]
    /\ Goto(c, "robotsWait", 0)
    /\ UNCHANGED <<now, permits, changed, site, fetcher, heard, page, outcome, profile>>

RobotsSend(c) ==
    /\ pc[c] = "robotsWait"
    /\ Goto(c, "robotsAsk", now)
    /\ UNCHANGED <<now, permits, changed, cache, site, fetcher, heard, page, outcome, profile>>

\* 200 with the rules, or 404 from a host that has none: everything permitted.
RobotsAnswer(c) ==
    /\ pc[c] = "robotsAsk"
    /\ heard' = [heard EXCEPT ![c] = permits[site[c]]]
    /\ Goto(c, "robotsStore", since[c])
    /\ UNCHANGED <<now, permits, changed, cache, site, fetcher, page, outcome, profile>>

\* Mutant: rules that could not be read permit everything.
RobotsFailsOpen(c) ==
    /\ pc[c] = "robotsAsk"
    /\ heard' = [heard EXCEPT ![c] = TRUE]
    /\ Goto(c, "robotsStore", since[c])
    /\ UNCHANGED <<now, permits, changed, cache, site, fetcher, page, outcome, profile>>

\* A transport error, any other status from 400 on, too large a body: DENY_ALL.
\* (What is no httpx.HTTPError is not caught: RequestRaises.)
RobotsFails(c) ==
    /\ pc[c] = "robotsAsk"
    /\ heard' = [heard EXCEPT ![c] = FALSE]
    /\ Goto(c, "robotsStore", since[c])
    /\ UNCHANGED <<now, permits, changed, cache, site, fetcher, page, outcome, profile>>

\* The body is cached whatever it says, and then followed.
RobotsStore(c) ==
    /\ pc[c] = "robotsStore"
    /\ cache' = IF Ttl = 0 THEN cache
                ELSE [cache EXCEPT ![site[c]] = [allows |-> heard[c], expires |-> now + Ttl]]
    /\ Follow(c, heard[c])
    /\ UNCHANGED <<now, permits, changed>>

-----------------------------------------------------------------------------
(* The page, first over plain HTTP *)

\* The limiter lets the request go; the rules are not looked at again.
PageSend(c) ==
    /\ pc[c] = "pageWait"
    /\ Goto(c, "pageAsk", 0)
    /\ UNCHANGED <<now, permits, changed, cache, site, fetcher, heard, page, outcome, profile>>

\* Mutant: a browser that finds nothing leaves nothing.
PageNoneForgets(c) ==
    /\ pc[c] = "pageAsk"
    /\ Finish(c, "unavailable")
    /\ UNCHANGED <<now, permits, changed, cache, page>>

\* A dead site, another status than 200, no HTML, too large; a browser that
\* finds nothing leaves the page that plain HTTP found.
PageNone(c) ==
    /\ pc[c] = "pageAsk"
    /\ IF page[c] = NONE THEN Finish(c, "unavailable") ELSE FinishWith(c, page[c])
    /\ UNCHANGED <<now, permits, changed, cache, page>>

\* Mutant: a rendered page that is still thin is rendered once more.
PageAnswerAgain(c) ==
    /\ pc[c] = "pageAsk"
    /\ \E p \in Pages :
         /\ page' = [page EXCEPT ![c] = p]
         /\ IF Browser /\ p.thin
            THEN /\ fetcher' = [fetcher EXCEPT ![c] = "browser"]
                 /\ Goto(c, "lookup", 0)
                 /\ UNCHANGED <<site, heard, outcome, profile>>
            ELSE FinishWith(c, p)
    /\ UNCHANGED <<now, permits, changed, cache>>

\* A page that looks like a JavaScript shell is rendered, starting with the
\* browser's own look at the rules; any other page is extracted.
PageAnswer(c) ==
    /\ pc[c] = "pageAsk"
    /\ \E p \in Pages :
         /\ page' = [page EXCEPT ![c] = p]
         /\ IF Browser /\ fetcher[c] = "httpx" /\ p.thin
            THEN /\ fetcher' = [fetcher EXCEPT ![c] = "browser"]
                 /\ Goto(c, "lookup", 0)
                 /\ UNCHANGED <<site, heard, outcome, profile>>
            ELSE FinishWith(c, p)
    /\ UNCHANGED <<now, permits, changed, cache>>

\* What the fetchers do not catch: httpx raises InvalidURL for an address it
\* cannot request, the browser cannot be launched, or fails to navigate otherwise
\* than by its timeout.
RequestRaises(c) ==
    /\ pc[c] \in {"robotsAsk", "pageAsk"}
    /\ Leave(c, "raised", NONE)
    /\ UNCHANGED <<now, permits, changed, cache, page>>

-----------------------------------------------------------------------------
(* Around the enrichments *)

\* A host's owner publishes other rules.
Republish(h) ==
    /\ permits' = [permits EXCEPT ![h] = ~@]
    /\ changed' = [changed EXCEPT ![h] = now]
    /\ UNCHANGED <<now, cache, callerVars>>

\* Other entries of the shared cache push the rules out.
Evict(h) ==
    /\ cache[h] # NONE
    /\ cache' = [cache EXCEPT ![h] = NONE]
    /\ UNCHANGED <<now, permits, changed, callerVars>>

InTime(c) ==
    /\ pc[c] \in {"robotsAsk", "robotsStore"} => now < since[c] + Latency
    /\ pc[c] = "pageWait" => now < since[c] + Wait
Tick ==
    /\ now < MaxTime
    /\ \A c \in Callers : InTime(c)
    /\ now' = now + 1
    /\ UNCHANGED <<permits, changed, cache, callerVars>>

-----------------------------------------------------------------------------
Continue(c) ==
    \/ LookupHit(c) \/ LookupMiss(c)
    \/ RobotsSend(c) \/ RobotsAnswer(c) \/ RobotsFails(c) \/ RobotsStore(c)
    \/ PageSend(c) \/ PageNone(c) \/ PageAnswer(c) \/ RequestRaises(c)
Start(c) == Begin(c) \/ NothingToFetch(c)
Next ==
    \/ \E c \in Callers : Start(c) \/ Continue(c)
    \/ \E h \in Hosts : Republish(h) \/ Evict(h)
    \/ Tick

Spec == Init /\ [][Next]_vars

\* The event loop runs every task that is ready; the limiter, httpx and the
\* browser all return in bounded time.
FairSpec == Spec /\ \A c \in Callers : WF_vars(Continue(c))

-----------------------------------------------------------------------------
Asking == {"robotsAsk", "robotsStore"}
Labels == {"idle", "lookup", "robotsWait", "pageWait", "pageAsk"} \cup Asking

\* Every variable has the shape of what it stands for.
TypeOK ==
    /\ now \in Nat
    /\ permits \in [Hosts -> BOOLEAN]
    /\ changed \in [Hosts -> Nat]
    /\ cache \in [Hosts -> Rules \cup {NONE}]
    /\ pc \in [Callers -> Labels]
    /\ site \in [Callers -> Hosts \cup {NONE}]
    /\ fetcher \in [Callers -> {"httpx", "browser"}]
    /\ heard \in [Callers -> BOOLEAN]
    /\ since \in [Callers -> Nat]
    /\ page \in [Callers -> Pages \cup {NONE}]
    /\ outcome \in [Callers -> Outcomes \cup {"raised", NONE}]
    /\ profile \in [Callers -> Profile \cup {NONE}]

\* BansAreHonoured: no page is about to be requested from a host that has
\* forbidden it for longer than cached rules live, a download of them takes and
\* the limiter holds a request back: not when downloads overtake each other,
\* not when they fail, and not in the browser's second try.
BansAreHonoured ==
    \A c \in Callers :
        pc[c] = "pageWait" /\ ~permits[site[c]] =>
            now <= changed[site[c]] + Ttl + Latency + Wait

\* OutcomeFollowsLastPage: an enrichment reports what the last page says that any
\* of its fetchers returned.  A second fetch that finds nothing leaves the shell
\* that plain HTTP found, and never makes a website unavailable; a rendered page
\* replaces the shell, even one with nothing in it; and nothing of a page is kept
\* unless it was fetched (FallbackWebFetcher.fetch, _read_website).
OutcomeFollowsLastPage ==
    \A c \in Callers : pc[c] = "idle" =>
        /\ outcome[c] = "fetched" =>
             page[c] \in Pages \ (BrokenPages \cup EmptyPages) /\ profile[c] = ProfileOf[page[c]]
        /\ outcome[c] = "empty" => page[c] \in EmptyPages
        /\ outcome[c] \in {"unavailable", "not_listed"} => page[c] = NONE
        /\ outcome[c] \in Outcomes \ {"fetched"} => profile[c] = Unenriched

\* NoContactSurvives: no e-mail address, link or telephone number is left in the
\* text a profile carries on to the model and to the page, not behind the invisible
\* characters that _CONTROL lists and not where removing one thing brings others
\* together.
NoContactSurvives ==
    \A c \in Callers : profile[c] # NONE =>
        /\ \A d \in profile[c].descriptors : Contactless(d)
        /\ profile[c].phone # NONE => Contactless(profile[c].phone)

\* ProfileFits: what is assembled is a profile the contract admits and a reader
\* would write: descriptors and photos within their limits, and no descriptor
\* blank, or said twice once capitals and contact details are gone.
ProfileFits == \A c \in Callers : profile[c] # NONE => Fits(profile[c])

\* EnrichmentEnds: every enrichment returns or raises, although a thin page
\* sends it back to the rules and a second fetch.
EnrichmentEnds == \A c \in Callers : pc[c] # "idle" ~> pc[c] = "idle"

\* RulesPromise: what enrichments do to the shared cache is within what CacheEntry
\* says of one key.
KeptRules(h) == IF cache[h] = NONE THEN NONE
                ELSE [value |-> cache[h].allows, expires |-> cache[h].expires]
R(h) == INSTANCE CacheEntry WITH kept <- KeptRules(h), Values <- BOOLEAN
RulesPromise(h) == R(h)!Spec

\* The awaits an enrichment still has before it: six for each fetcher.
Place == [idle |-> 0, pageAsk |-> 1, pageWait |-> 2, robotsStore |-> 3, robotsAsk |-> 4,
          robotsWait |-> 5, lookup |-> 6]
AwaitsLeft(c) == IF pc[c] # "idle" /\ fetcher[c] = "httpx" THEN Place[pc[c]] + 6 ELSE Place[pc[c]]

\* ReturnComesNearer: once it has begun, nothing lengthens an enrichment: each of
\* its steps leaves it fewer awaits, and the others, the hosts, the cache and time
\* leave it as many: at most twelve, the second fetch included.
ReturnComesNearer ==
    [][\A c \in Callers : pc[c] # "idle" =>
         \/ AwaitsLeft(c)' < AwaitsLeft(c)
         \/ UNCHANGED <<pc[c], fetcher[c], page[c]>>]_vars

\* AwaitsAreBounded: no more than twelve awaits lie before an enrichment, and none
\* only when it has returned.
AwaitsAreBounded ==
    \A c \in Callers : AwaitsLeft(c) \in 0 .. 12 /\ (AwaitsLeft(c) = 0 <=> pc[c] = "idle")

\* What makes BansAreHonoured inductive: rules that permit a page its host has
\* since forbidden were asked for before the ban, wherever they are on the way.
Clocks ==
    /\ \A h \in Hosts : changed[h] <= now /\ (cache[h] # NONE => cache[h].expires <= now + Ttl)
    /\ \A c \in Callers :
         /\ since[c] <= now
         /\ pc[c] # "idle" => site[c] # NONE
         /\ pc[c] \in Asking => now <= since[c] + Latency
         /\ pc[c] = "pageWait" => now <= since[c] + Wait
Outdated ==
    /\ \A h \in Hosts :
         cache[h] # NONE /\ cache[h].allows /\ ~permits[h] =>
             cache[h].expires <= changed[h] + Ttl + Latency
    /\ \A c \in Callers :
         /\ pc[c] = "robotsStore" /\ heard[c] /\ ~permits[site[c]] => since[c] <= changed[site[c]]
         /\ pc[c] = "pageWait" /\ ~permits[site[c]] => since[c] <= changed[site[c]] + Ttl + Latency
IInv == TypeOK /\ BansAreHonoured /\ Clocks /\ Outdated
=============================================================================
