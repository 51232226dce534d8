----------------------------- MODULE RateLimiter ----------------------------
(***************************************************************************)
(* PerKeyRateLimiter.acquire for one key: coroutines of one process queue  *)
(* on the key's asyncio.Lock, and its holder sleeps until the key's next   *)
(* allowed instant.  Keys share nothing.  The event loop resumes a sleeper *)
(* whose time is up, and a waiter that was handed the lock, late by at     *)
(* most MaxJitter, and a sleeper never early.                              *)
(***************************************************************************)
EXTENDS Integers, Sequences, FiniteSets

CONSTANTS
    Callers,     \* coroutines that call acquire(key), again and again
    Interval,    \* the key's minimum gap, in ticks of the monotonic clock
    MaxJitter,   \* how late the event loop may resume who is ready
    MaxTime      \* BOUND: the last instant of the clock

ASSUME IntervalAssumption == Interval \in Nat /\ Interval > 0
ASSUME JitterAssumption == MaxJitter \in Nat
ASSUME TimeAssumption == MaxTime \in Nat

VARIABLES
    now,          \* time.monotonic()
    nextAllowed,  \* _next_allowed[key]; 0 stands for a missing entry
    lock,         \* the asyncio.Lock: its holder first, then its waiters
    pc,           \* where each caller is in acquire
    grants,       \* how often acquire has returned
    last,         \* when it last did
    handed,       \* when the lock's holder was given it
    due           \* history: the latest instant a waiting caller may be served at

vars == <<now, nextAllowed, lock, pc, grants, last, handed, due>>

\* What one place in the queue may cost: lateness that stays under half an
\* interval costs nothing.
Slot == IF 2 * MaxJitter > Interval THEN 2 * MaxJitter ELSE Interval

Init ==
    /\ now = 0
    /\ nextAllowed = 0
    /\ lock = <<>>
    /\ pc = [c \in Callers |-> "idle"]
    /\ grants = 0
    /\ last = 0
    /\ handed = 0
    /\ due = [c \in Callers |-> 0]

-----------------------------------------------------------------------------
\* "async with self._lock_for(key)": the lock is handed over in arrival order.
Enter(c) ==
    /\ pc[c] = "idle"
    /\ lock' = Append(lock, c)
    /\ pc' = [pc EXCEPT ![c] = "entered"]
    /\ handed' = IF lock = <<>> THEN now ELSE handed
    /\ due' = [due EXCEPT ![c] = now + (Len(lock) + 1) * Slot + MaxJitter]
    /\ UNCHANGED <<now, nextAllowed, grants, last>>

Holds(c) == lock # <<>> /\ Head(lock) = c

\* acquire returns: the lock is released and the caller sends its request.
Return(c) ==
    /\ lock' = Tail(lock)
    /\ pc' = [pc EXCEPT ![c] = "idle"]
    /\ grants' = grants + 1
    /\ last' = now
    /\ handed' = now
    /\ due' = [due EXCEPT ![c] = 0]
    /\ UNCHANGED now

\* Mutant: Gives the lock up while it sleeps.
SleepUnlocked(c) ==
    /\ pc[c] = "entered"
    /\ Holds(c)
    /\ nextAllowed > now
    /\ pc' = [pc EXCEPT ![c] = "asleep"]
    /\ lock' = Tail(lock)
    /\ UNCHANGED <<now, nextAllowed, grants, last, handed, due>>

\* "earliest > now": hold the lock and sleep until then.
Sleep(c) ==
    /\ pc[c] = "entered"
    /\ Holds(c)
    /\ nextAllowed > now
    /\ pc' = [pc EXCEPT ![c] = "asleep"]
    /\ UNCHANGED <<now, nextAllowed, lock, grants, last, handed, due>>

\* Mutant: Lets a request through at the instant before the floor.
PassEarly(c) ==
    /\ pc[c] = "entered"
    /\ Holds(c)
    /\ nextAllowed <= now + 1
    /\ nextAllowed' = now + Interval
    /\ Return(c)

\* Mutant: Subtracts the interval instead of adding it.
PassBackwards(c) ==
    /\ pc[c] = "entered"
    /\ Holds(c)
    /\ nextAllowed <= now
    /\ nextAllowed' = now - Interval
    /\ Return(c)

\* The key has been quiet: no wait, and no credit for the quiet time.
Pass(c) ==
    /\ pc[c] = "entered"
    /\ Holds(c)
    /\ nextAllowed <= now
    /\ nextAllowed' = now + Interval
    /\ Return(c)

\* Mutant: Schedules the next slot from the instant the previous one was requested.
WakeNoAdvance(c) ==
    /\ pc[c] = "asleep"
    /\ now >= nextAllowed
    /\ nextAllowed' = nextAllowed
    /\ Return(c)

\* Mutant: measures after the sleep.
WakeFromNow(c) ==
    /\ pc[c] = "asleep"
    /\ now >= nextAllowed
    /\ nextAllowed' = now + Interval
    /\ Return(c)

\* The sleep is over: advance from the scheduled instant, not from now.
Wake(c) ==
    /\ pc[c] = "asleep"
    /\ now >= nextAllowed
    /\ nextAllowed' = nextAllowed + Interval
    /\ Return(c)

Tick ==
    /\ now < MaxTime
    /\ \A c \in Callers :
         /\ pc[c] = "asleep" => now < nextAllowed + MaxJitter
         /\ pc[c] = "entered" /\ Holds(c) => now < handed + MaxJitter
    /\ now' = now + 1
    /\ UNCHANGED <<nextAllowed, lock, pc, grants, last, handed, due>>

Proceed(c) == Sleep(c) \/ Pass(c) \/ Wake(c)
Next == Tick \/ \E c \in Callers : Enter(c) \/ Proceed(c)

Spec == Init /\ [][Next]_vars

-----------------------------------------------------------------------------
\* Instants and counts are naturals, and no request lies in the future.
TypeOK ==
    /\ now \in Nat
    /\ nextAllowed \in Nat
    /\ lock \in Seq(Callers)
    /\ pc \in [Callers -> {"idle", "entered", "asleep"}]
    /\ grants \in Nat
    /\ last \in Nat
    /\ last <= now

\* OneSleeper: at most one caller sleeps on a key, and it is the lock's holder,
\* so no two callers ever wait for the same slot.
OneSleeper ==
    /\ \A c \in Callers : pc[c] = "asleep" => Holds(c)
    /\ \A i, j \in 1 .. Len(lock) : lock[i] = lock[j] => i = j

Granted(c) == pc[c] # "idle" /\ pc'[c] = "idle"

\* GapFloor: however calls interleave and however late sleepers wake, two
\* consecutive requests for a key are at least Interval - MaxJitter apart.
GapFloor ==
    [][\A c \in Callers :
         Granted(c) /\ grants > 0 => now - last >= Interval - MaxJitter]_vars

\* RateCap: lateness never adds up to an extra request: by the time of the n-th
\* return, n - 1 whole intervals have passed.
RateCap == grants > 0 => now >= (grants - 1) * Interval

\* WaitIsBounded: lateness does not accumulate along the queue: a caller that
\* finds n others there returns within n + 1 intervals and one lateness, as long
\* as the event loop is late by no more than half an interval, however its
\* predecessors queued, slept or were woken late.
WaitIsBounded == \A c \in Callers : pc[c] # "idle" => now <= due[c]

\* ShortPromises: of finitely many callers, whoever joins is promised its turn
\* within a slot for each of them and one lateness, whatever the queue and the
\* schedule look like at that moment: nobody is in the queue twice.
ShortPromises ==
    [][\A c \in Callers :
         due'[c] # due[c] => due'[c] <= now + Cardinality(Callers) * Slot + MaxJitter]_vars

\* What makes GapFloor and RateCap inductive: the next slot is at most MaxJitter
\* short of a full interval after the last request, never more than one interval
\* away, slots are Interval apart, and a caller is in the lock's queue exactly
\* while it is inside acquire.
Slots ==
    /\ grants > 0 => nextAllowed >= last + Interval - MaxJitter
    /\ nextAllowed >= grants * Interval
    /\ nextAllowed <= now + Interval
    /\ \A c \in Callers : pc[c] = "asleep" => now <= nextAllowed + MaxJitter
Queue == \A c \in Callers : pc[c] = "idle" <=> \A i \in 1 .. Len(lock) : lock[i] # c

\* What makes WaitIsBounded inductive: the holder returns no later than Soonest
\* and one lateness, and everybody behind it has a Slot to spare for every place.
Soonest == IF nextAllowed > handed + MaxJitter THEN nextAllowed ELSE handed + MaxJitter
Deadlines ==
    /\ handed \in Nat
    /\ due \in [Callers -> Nat]
    /\ handed <= now
    /\ \A c \in Callers :
         pc[c] = "entered" /\ Holds(c) => now <= handed + MaxJitter
    /\ \A i \in 1 .. Len(lock) :
         due[lock[i]] >= Soonest + (i - 1) * Slot + MaxJitter
IInv == TypeOK /\ OneSleeper /\ RateCap /\ Slots /\ Queue /\ Deadlines
=============================================================================
