---------------------------- MODULE ResponseCache ----------------------------
(***************************************************************************)
(* CachedHttpClient._fetch_json over InMemoryTTLCache: coroutines of one   *)
(* process look a request up, wait for the rate limiter on a miss, ask the *)
(* provider, and store what came back before they decode it.  The cache is *)
(* a Python dict kept in order of last use: its first entry is evicted.    *)
(*                                                                         *)
(* The limiter is only a wait here: RateLimiter models it.                 *)
(***************************************************************************)
EXTENDS Integers, Sequences

CONSTANTS
    Callers,      \* coroutines that call _fetch_json, again and again
    Keys,         \* cache keys: method, url and payload
    Ttl,          \* how long each key's entries live; 0 keeps them out
    MaxEntries,   \* the cache's bound
    Bodies,       \* texts a provider may answer; decoding them, after they are
                  \* stored, may raise but changes nothing
    Latency,      \* httpx's timeout: the longest a request takes
    MaxTime,      \* BOUND: the last instant of the clock
    NONE          \* no key or answer yet

ASSUME KeyAssumption == Ttl \in [Keys -> Nat]
ASSUME SizeAssumption == MaxEntries \in Nat \ {0}
ASSUME ClockAssumption == Latency \in Nat /\ MaxTime \in Nat

VARIABLES
    now,      \* time.monotonic()
    entries,  \* _entries, least recently used first
    ideal,    \* history: the same cache if it never evicted
    pc,       \* where each caller is
    want,     \* the key it asks for, or NONE
    asked,    \* when its request left
    answer,   \* what the provider answered and when, or NONE
    again     \* history: who has asked for a key while it was in the cache

callerVars == <<pc, want, asked, answer>>
vars == <<now, entries, ideal, callerVars, again>>

Entry  == [key : Keys, body : Bodies, fetched : Nat, expires : Nat]
Answer == [body : Bodies, fetched : Nat]

ASSUME ValueAssumption == NONE \notin Answer \cup Keys

Has(s, k) == \E i \in 1 .. Len(s) : s[i].key = k
At(s, k)  == CHOOSE i \in 1 .. Len(s) : s[i].key = k
Live(s, k) == Has(s, k) /\ now < s[At(s, k)].expires

\* dict.pop(key, None)
Without(s, k) ==
    IF Has(s, k)
    THEN LET at == At(s, k) IN
         [i \in 1 .. Len(s) - 1 |-> IF i < at THEN s[i] ELSE s[i + 1]]
    ELSE s

\* del and re-insert: the entry becomes the most recently used one.
Touch(s, k) == Append(Without(s, k), s[At(s, k)])

Init ==
    /\ now = 0
    /\ entries = <<>>
    /\ ideal = <<>>
    /\ pc = [c \in Callers |-> "idle"]
    /\ want = [c \in Callers |-> NONE]
    /\ asked = [c \in Callers |-> 0]
    /\ answer = [c \in Callers |-> NONE]
    /\ again = [k \in Keys |-> {}]

\* _fetch_json returns or raises: its locals are gone.
Return(c) ==
    /\ pc' = [pc EXCEPT ![c] = "idle"]
    /\ want' = [want EXCEPT ![c] = NONE]
    /\ asked' = [asked EXCEPT ![c] = 0]
    /\ answer' = [answer EXCEPT ![c] = NONE]

-----------------------------------------------------------------------------
(* get *)

\* Mutant: a hit extends the entry's life.
HitSlides(c, k) ==
    /\ pc[c] = "idle"
    /\ Live(entries, k)
    /\ LET e == [entries[At(entries, k)] EXCEPT !.expires = now + Ttl[k]] IN
         /\ entries' = Append(Without(entries, k), e)
         /\ ideal' = Append(Without(ideal, k), e)
    /\ UNCHANGED <<now, callerVars>>

\* Mutant: a hit does not count as a use.
HitStays(c, k) ==
    /\ pc[c] = "idle"
    /\ Live(entries, k)
    /\ ideal' = Touch(ideal, k)
    /\ UNCHANGED <<now, entries, callerVars>>

\* The stored body is decoded and returned, or is no JSON and raises.
Hit(c, k) ==
    /\ pc[c] = "idle"
    /\ Live(entries, k)
    /\ entries' = Touch(entries, k)
    /\ ideal' = Touch(ideal, k)
    /\ UNCHANGED <<now, callerVars>>

\* An entry that has expired is deleted by the lookup that finds it.
Miss(c, k) ==
    /\ pc[c] = "idle"
    /\ ~Live(entries, k)
    /\ entries' = Without(entries, k)
    /\ ideal' = IF Has(entries, k) THEN Without(ideal, k) ELSE ideal
    /\ pc' = [pc EXCEPT ![c] = "waiting"]
    /\ want' = [want EXCEPT ![c] = k]
    /\ UNCHANGED <<now, asked, answer>>

-----------------------------------------------------------------------------
(* The request *)

\* acquire has returned; the cache is not looked at again.
Send(c) ==
    /\ pc[c] = "waiting"
    /\ pc' = [pc EXCEPT ![c] = "asking"]
    /\ asked' = [asked EXCEPT ![c] = now]
    /\ UNCHANGED <<now, entries, ideal, want, answer>>

\* Mutant: an error response is kept like any other body.
AnsweredOrRefused(c) ==
    /\ pc[c] = "asking"
    /\ \E body \in Bodies \cup {"error"} :
         answer' = [answer EXCEPT ![c] = [body |-> body, fetched |-> now]]
    /\ pc' = [pc EXCEPT ![c] = "storing"]
    /\ UNCHANGED <<now, entries, ideal, want, asked>>

\* The provider produces a body; it is still under way.
Answered(c) ==
    /\ pc[c] = "asking"
    /\ \E body \in Bodies :
         answer' = [answer EXCEPT ![c] = [body |-> body, fetched |-> now]]
    /\ pc' = [pc EXCEPT ![c] = "storing"]
    /\ UNCHANGED <<now, entries, ideal, want, asked>>

\* Mutant: a request that failed is sent once more, without another lookup.
FailsAndRetries(c) ==
    /\ pc[c] \in {"asking", "storing"}
    /\ pc' = [pc EXCEPT ![c] = "waiting"]
    /\ asked' = [asked EXCEPT ![c] = 0]
    /\ answer' = [answer EXCEPT ![c] = NONE]
    /\ UNCHANGED <<now, entries, ideal, want>>

\* A status of 400 or more, or no answer in time: nothing is stored.
Fails(c) ==
    /\ pc[c] \in {"asking", "storing"}
    /\ Return(c)
    /\ UNCHANGED <<now, entries, ideal>>

\* Mutant: evicts only once the bound has been exceeded by one.
EvictLate(s) == IF Len(s) > MaxEntries + 1 THEN Tail(s) ELSE s

Evict(s) == IF Len(s) > MaxEntries THEN SubSeq(s, Len(s) - MaxEntries + 1, Len(s)) ELSE s

\* set, then decode: a body that is no JSON raises, but is in the cache.
Store(c) ==
    /\ pc[c] = "storing"
    /\ LET k == want[c]
           e == [key |-> k, body |-> answer[c].body, fetched |-> answer[c].fetched,
                 expires |-> now + Ttl[k]]
       IN  IF Ttl[k] = 0
           THEN UNCHANGED <<entries, ideal>>
           ELSE /\ entries' = Evict(Append(Without(entries, k), e))
                /\ ideal' = Append(Without(ideal, k), e)
    /\ Return(c)
    /\ UNCHANGED now

Tick ==
    /\ now < MaxTime
    /\ \A c \in Callers : pc[c] \in {"asking", "storing"} => now < asked[c] + Latency
    /\ now' = now + 1
    /\ UNCHANGED <<entries, ideal, callerVars>>

-----------------------------------------------------------------------------
Step(c) == (\E k \in Keys : Hit(c, k) \/ Miss(c, k)) \/ Send(c) \/ Answered(c) \/ Fails(c) \/ Store(c)

\* Forgotten once the key is no longer there.
Remember ==
    again' = [k \in Keys |->
                IF Live(entries, k)'
                THEN {c \in Callers : \/ c \in again[k]
                                      \/ pc[c] = "waiting" /\ pc'[c] = "asking" /\ want[c] = k}
                ELSE {}]

Next == (Tick \/ \E c \in Callers : Step(c)) /\ Remember

Spec == Init /\ [][Next]_vars

-----------------------------------------------------------------------------
\* Every variable has the shape of what it stands for.
TypeOK ==
    /\ now \in Nat
    /\ entries \in Seq(Entry)
    /\ ideal \in Seq(Entry)
    /\ pc \in [Callers -> {"idle", "waiting", "asking", "storing"}]
    /\ want \in [Callers -> Keys \cup {NONE}]
    /\ asked \in [Callers -> Nat]
    /\ answer \in [Callers -> Answer \cup {NONE}]
    /\ again \in [Keys -> SUBSET Callers]

\* BoundedNoDuplicates: however lookups and late answers for the same key
\* overlap, the cache holds at most MaxEntries entries, one per key.
Distinct(s) == \A i, j \in 1 .. Len(s) : s[i].key = s[j].key => i = j
BoundedNoDuplicates == Len(entries) <= MaxEntries /\ Distinct(entries)

\* EvictsLeastRecentlyUsed: the cache is always the most recently used end of
\* what a cache without a bound would hold, entries and order alike.
EndOf(s, t) == Len(s) <= Len(t) /\ \A i \in 1 .. Len(s) : s[i] = t[Len(t) - Len(s) + i]
EvictsLeastRecentlyUsed == EndOf(entries, ideal)

\* HitIsFresh: what a hit returns left the provider less than its lifetime plus
\* one request ago, although concurrent misses may store answers out of order.
HitIsFresh ==
    [][\A c \in Callers, k \in Keys :
         Hit(c, k) => now - entries[At(entries, k)].fetched < Ttl[k] + Latency]_vars

\* RefetchesAreFew: a lookup that missed is acted on later, when the answer may
\* long be in the cache.  But while an answer stays in the cache no coroutine
\* asks for it twice: what is fetched in vain is bounded by who was already
\* waiting when it came.
RefetchesAreFew == \A c \in Callers : pc[c] = "waiting" => c \notin again[want[c]]

\* EntryPromise: whatever the other keys and the callers do, each key's entry
\* is a CacheEntry: a hit, a late answer for another key or an eviction never
\* prolongs or alters it.
KeptIn(s, k) == IF Has(s, k)
                THEN [value |-> s[At(s, k)].body, expires |-> s[At(s, k)].expires]
                ELSE NONE
E(k) == INSTANCE CacheEntry WITH kept <- KeptIn(entries, k), Ttl <- Ttl[k], Values <- Bodies
EntryPromise(k) == E(k)!Spec

\* What makes the above inductive: an entry expires soon enough after it was
\* fetched, and so will the answers that are still under way.
Fresh ==
    /\ \A i \in 1 .. Len(entries) :
         entries[i].expires <= entries[i].fetched + Latency + Ttl[entries[i].key]
    /\ \A c \in Callers :
         /\ pc[c] \in {"asking", "storing"} => asked[c] <= now /\ now <= asked[c] + Latency
         /\ pc[c] # "idle" => want[c] # NONE
         /\ pc[c] = "storing" => answer[c] # NONE /\ answer[c].fetched >= asked[c]
IInv == TypeOK /\ BoundedNoDuplicates /\ Distinct(ideal) /\ EvictsLeastRecentlyUsed /\ Fresh

=============================================================================
