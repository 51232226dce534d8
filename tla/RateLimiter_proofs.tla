------------------------- MODULE RateLimiter_proofs -------------------------
(***************************************************************************)
(* Theorems about RateLimiter for any set of callers, any interval, any    *)
(* bound on lateness and any length of run.                                *)
(***************************************************************************)
EXTENDS RateLimiter, FiniteSetTheorems, TLAPS

USE IntervalAssumption, JitterAssumption, TimeAssumption

\* One more slot is one more interval.
LEMMA OneMore ==
    ASSUME NEW n \in Nat, NEW t \in Int, t >= n * Interval
    PROVE  t + Interval >= (n + 1) * Interval
BY SMT

\* A place in the queue costs a natural number of ticks, enough for an interval
\* and for the two latenesses of a hand-over.
LEMMA SlotFacts == Slot \in Nat /\ Slot >= Interval /\ Slot >= 2 * MaxJitter
BY DEF Slot

\* Places in the queue add up.
LEMMA OneMorePlace ==
    ASSUME NEW n \in Nat
    PROVE  n * Slot \in Nat /\ (n + 1) * Slot = n * Slot + Slot
<1>1. Slot \in Nat
  BY SlotFacts
<1>2. \A m \in Nat, k \in Nat : m * k \in Nat /\ (m + 1) * k = m * k + k
  BY SMT
<1> QED BY <1>1, <1>2

\* One place further on, a slot later.
LEMMA PlaceShift ==
    ASSUME NEW s \in Nat, NEW t \in Nat, NEW p \in Nat, NEW q \in Nat, NEW w \in Nat,
           NEW late \in Nat, q = p + w, t <= s + w
    PROVE  s + q + late >= t + p + late
OBVIOUS

LEMMA SoonestFacts ==
    ASSUME nextAllowed \in Nat, handed \in Nat
    PROVE  /\ Soonest \in Nat /\ Soonest >= nextAllowed /\ Soonest >= handed + MaxJitter
           /\ Soonest \in {nextAllowed, handed + MaxJitter}
BY DEF Soonest

LEMMA InvInit == Init => IInv
BY DEF Init, IInv, TypeOK, OneSleeper, RateCap, Slots, Queue, Deadlines, Holds

\* The queue after a caller has joined its end.
LEMMA AppendFacts ==
    ASSUME NEW s \in Seq(Callers), NEW c \in Callers
    PROVE  /\ Append(s, c) \in Seq(Callers)
           /\ Len(Append(s, c)) = Len(s) + 1
           /\ \A i \in 1 .. Len(s) : Append(s, c)[i] = s[i]
           /\ Append(s, c)[Len(s) + 1] = c
           /\ s # <<>> => Head(Append(s, c)) = Head(s)
           /\ Append(s, c) # <<>>
BY SMT

\* The queue after its holder has left.
LEMMA TailFacts ==
    ASSUME NEW s \in Seq(Callers), s # <<>>
    PROVE  /\ Tail(s) \in Seq(Callers)
           /\ Len(Tail(s)) = Len(s) - 1
           /\ Len(s) \in Nat /\ Len(s) >= 1
           /\ \A i \in 1 .. Len(s) - 1 : Tail(s)[i] = s[i + 1]
           /\ Head(s) = s[1]
BY SMT

\* A caller joins the queue.
LEMMA InvEnter == ASSUME IInv, NEW c \in Callers, Enter(c) PROVE IInv'
<1> USE DEF IInv, Enter
<1>1. /\ lock \in Seq(Callers) /\ lock' = Append(lock, c) /\ pc[c] = "idle"
      /\ pc' = [pc EXCEPT ![c] = "entered"] /\ pc \in [Callers -> {"idle", "entered", "asleep"}]
      /\ Len(lock) \in Nat
  BY DEF TypeOK
<1>2. /\ lock' \in Seq(Callers) /\ Len(lock') = Len(lock) + 1
      /\ \A i \in 1 .. Len(lock) : lock'[i] = lock[i]
      /\ lock'[Len(lock) + 1] = c /\ lock' # <<>>
      /\ lock # <<>> => Head(lock') = Head(lock)
  BY <1>1, AppendFacts
<1>3. \A i \in 1 .. Len(lock) : lock[i] # c
  BY <1>1 DEF Queue
<1>4. \A d \in Callers : pc'[d] = IF d = c THEN "entered" ELSE pc[d]
  BY <1>1
<1>5. TypeOK'
  BY <1>1, <1>2 DEF TypeOK
<1>6. OneSleeper'
  <2>1. \A d \in Callers : pc'[d] = "asleep" => Holds(d)'
    BY <1>1, <1>2, <1>4 DEF OneSleeper, Holds
  <2>2. \A i, j \in 1 .. Len(lock') : lock'[i] = lock'[j] => i = j
    BY <1>1, <1>2, <1>3 DEF OneSleeper
  <2> QED BY <2>1, <2>2 DEF OneSleeper
<1>7. RateCap' /\ Slots'
  BY <1>1, <1>4 DEF RateCap, Slots
<1>8. Queue'
  BY <1>1, <1>2, <1>3, <1>4 DEF Queue
<1>9. Deadlines'
  <2>1. /\ now \in Nat /\ nextAllowed \in Nat /\ nextAllowed <= now + Interval
        /\ handed \in Nat /\ handed <= now /\ due \in [Callers -> Nat]
        /\ Slot \in Nat /\ Slot >= Interval /\ Slot >= 2 * MaxJitter
    BY SlotFacts DEF Deadlines, Slots, TypeOK
  <2>2. /\ handed' = (IF lock = <<>> THEN now ELSE handed) /\ now' = now
        /\ nextAllowed' = nextAllowed /\ handed' \in Nat /\ handed' <= now
    BY <2>1
  <2>3. /\ Len(lock) * Slot \in Nat
        /\ (Len(lock) + 1) * Slot = Len(lock) * Slot + Slot
    BY <1>1, OneMorePlace
  <2>4. /\ \A d \in Callers : due'[d] =
             IF d = c THEN now + (Len(lock) + 1) * Slot + MaxJitter ELSE due[d]
        /\ due' \in [Callers -> Nat]
    <3> DEFINE Due == now + (Len(lock) + 1) * Slot + MaxJitter
    <3>1. Due \in Nat
      <4>1. Len(lock) * Slot + Slot \in Nat
        BY ONLY <2>1, <2>3
      <4>2. (Len(lock) + 1) * Slot \in Nat
        BY ONLY <4>1, <2>3, Zenon
      <4> QED BY ONLY <2>1, <4>2, JitterAssumption
    <3>2. due' = [due EXCEPT ![c] = Due]
      OBVIOUS
    <3> HIDE DEF Due, Enter, IInv
    <3>3. (\A d \in Callers : due'[d] = IF d = c THEN Due ELSE due[d]) /\ due' \in [Callers -> Nat]
      BY <2>1, <3>1, <3>2
    <3> QED BY <3>3 DEF Due
  <2>5. \A d \in Callers : pc'[d] = "entered" /\ Holds(d)' => now' <= handed' + MaxJitter
    <3> SUFFICES ASSUME NEW d \in Callers, pc'[d] = "entered", Holds(d)'
                 PROVE  now <= handed' + MaxJitter
      BY <2>2
    <3>1. CASE lock = <<>>
      BY <3>1, <2>1, <2>2
    <3>2. CASE lock # <<>>
      <4>1. Head(lock) = d /\ d # c
        BY <1>1, <1>2, <1>3, <3>2 DEF Holds
      <4>2. pc[d] = "entered" /\ Holds(d)
        BY <4>1, <3>2, <1>4 DEF Holds
      <4> QED BY <4>2, <3>2, <2>2 DEF Deadlines
    <3> QED BY <3>1, <3>2
  <2>6. Soonest' \in Nat /\ Soonest' <= now + Slot
    <3>1. Soonest' = IF nextAllowed > handed' + MaxJitter THEN nextAllowed ELSE handed' + MaxJitter
      BY <2>2 DEF Soonest
    <3> QED BY <3>1, <2>1, <2>2
  <2>7. \A i \in 1 .. Len(lock') : due'[lock'[i]] >= Soonest' + (i - 1) * Slot + MaxJitter
    <3> SUFFICES ASSUME NEW i \in 1 .. Len(lock')
                 PROVE  due'[lock'[i]] >= Soonest' + (i - 1) * Slot + MaxJitter
      OBVIOUS
    <3>1. CASE i = Len(lock) + 1
      <4>1. i - 1 = Len(lock) /\ lock'[i] = c
        BY <3>1, <1>1, <1>2
      <4>2. due'[c] = now + (Len(lock) + 1) * Slot + MaxJitter
        BY <2>4
      <4>3. now + (Len(lock) + 1) * Slot >= Soonest' + Len(lock) * Slot
        BY <2>1, <2>3, <2>6
      <4>4. due'[c] >= Soonest' + Len(lock) * Slot + MaxJitter
        <5> HIDE DEF Enter, IInv
        <5> QED BY <4>2, <4>3, <2>1, <2>3, <2>6
      <4> QED BY <4>1, <4>4
    <3>2. CASE i # Len(lock) + 1
      <4>1. i \in 1 .. Len(lock) /\ lock # <<>> /\ lock'[i] = lock[i] /\ lock[i] \in Callers
            /\ lock[i] # c
        BY <3>2, <1>1, <1>2, <1>3
      <4>2. Soonest' = Soonest
        BY <4>1, <2>2 DEF Soonest
      <4>3. due'[lock'[i]] = due[lock[i]]
        BY <4>1, <2>4
      <4>4. due[lock[i]] >= Soonest + (i - 1) * Slot + MaxJitter
        BY <4>1 DEF Deadlines
      <4> QED BY <4>2, <4>3, <4>4
    <3> QED BY <3>1, <3>2
  <2> HIDE DEF Enter, IInv
  <2> QED BY <2>2, <2>4, <2>5, <2>7 DEF Deadlines
<1> QED BY <1>5, <1>6, <1>7, <1>8, <1>9

\* The holder leaves; all that is left to show is that the slots are apart.
LEMMA InvReturn ==
    ASSUME IInv, NEW c \in Callers, Return(c), Holds(c), pc[c] # "idle",
           nextAllowed <= now,
           nextAllowed' \in Nat, nextAllowed' >= nextAllowed + Interval,
           nextAllowed' >= now + Interval - MaxJitter, nextAllowed' <= now + Interval,
           nextAllowed' <= Soonest + Interval, now <= Soonest + MaxJitter
    PROVE  IInv'
<1> USE DEF IInv, Return, Holds
<1>1. /\ lock \in Seq(Callers) /\ lock' = Tail(lock) /\ lock # <<>> /\ lock[1] = c
      /\ pc' = [pc EXCEPT ![c] = "idle"] /\ pc \in [Callers -> {"idle", "entered", "asleep"}]
      /\ Len(lock) \in Nat /\ Len(lock) >= 1
      /\ grants' = grants + 1 /\ grants \in Nat /\ now' = now /\ last' = now
      /\ now \in Nat /\ nextAllowed \in Nat
  BY TailFacts DEF TypeOK
<1>2. /\ lock' \in Seq(Callers) /\ Len(lock') = Len(lock) - 1
      /\ \A i \in 1 .. Len(lock) - 1 : lock'[i] = lock[i + 1]
  BY <1>1, TailFacts
<1>3. \A i, j \in 1 .. Len(lock) : lock[i] = lock[j] => i = j
  BY DEF OneSleeper
<1>4. \A i \in 1 .. Len(lock') : lock'[i] # c
  BY <1>1, <1>2, <1>3
<1>5. \A d \in Callers : pc'[d] = IF d = c THEN "idle" ELSE pc[d]
  BY <1>1
<1>6. \A d \in Callers : pc'[d] # "asleep"
  BY <1>1, <1>5 DEF OneSleeper
<1>7. TypeOK'
  BY <1>1, <1>2 DEF TypeOK
<1>8. OneSleeper'
  BY <1>1, <1>2, <1>3, <1>6 DEF OneSleeper
<1>9. nextAllowed >= grants * Interval
  BY DEF Slots
<1>10. RateCap'
  <2>1. grants' - 1 = grants
    BY <1>1
  <2>2. now >= grants * Interval
    BY <1>1, <1>9, SMT
  <2> QED BY <1>1, <2>1, <2>2 DEF RateCap
<1>11. Slots'
  <2>1. nextAllowed + Interval >= (grants + 1) * Interval
    BY <1>1, <1>9, OneMore
  <2>2. nextAllowed' >= (grants + 1) * Interval
    BY <1>1, <2>1, SMT
  <2> QED BY <1>1, <1>6, <2>2 DEF Slots
<1>12. Queue'
  <2>1. \A d \in Callers : d # c /\ pc[d] # "idle" => \E i \in 1 .. Len(lock') : lock'[i] = d
    <3> SUFFICES ASSUME NEW d \in Callers, d # c, pc[d] # "idle"
                 PROVE  \E i \in 1 .. Len(lock') : lock'[i] = d
      OBVIOUS
    <3>1. PICK j \in 1 .. Len(lock) : lock[j] = d
      BY DEF Queue
    <3>2. j - 1 \in 1 .. Len(lock') /\ lock'[j - 1] = d
      BY <1>1, <1>2, <3>1
    <3> QED BY <3>2
  <2>2. \A d \in Callers : pc[d] = "idle" => \A i \in 1 .. Len(lock') : lock'[i] # d
    BY <1>1, <1>2 DEF Queue
  <2> QED BY <1>4, <1>5, <2>1, <2>2 DEF Queue
<1>13. Deadlines'
  <2>1. /\ handed \in Nat /\ due \in [Callers -> Nat] /\ Soonest \in Nat
        /\ Slot \in Nat /\ Slot >= Interval /\ Slot >= 2 * MaxJitter
    BY <1>1, SlotFacts, SoonestFacts DEF Deadlines
  <2>2. /\ handed' = now
        /\ \A d \in Callers : due'[d] = IF d = c THEN 0 ELSE due[d]
        /\ due' \in [Callers -> Nat]
    BY <2>1
  <2>3. Soonest' \in Nat /\ Soonest' <= Soonest + Slot
    <3>1. Soonest' = IF nextAllowed' > now + MaxJitter THEN nextAllowed' ELSE now + MaxJitter
      BY <2>2 DEF Soonest
    <3> QED BY <3>1, <2>1, <1>1
  <2>4. \A d \in Callers : pc'[d] = "entered" => now' <= handed' + MaxJitter
    BY <1>1, <2>2
  <2>5. \A i \in 1 .. Len(lock') : due'[lock'[i]] >= Soonest' + (i - 1) * Slot + MaxJitter
    <3> SUFFICES ASSUME NEW i \in 1 .. Len(lock')
                 PROVE  due'[lock'[i]] >= Soonest' + (i - 1) * Slot + MaxJitter
      OBVIOUS
    <3>1. /\ i \in Nat /\ i >= 1 /\ i + 1 \in 1 .. Len(lock) /\ lock'[i] = lock[i + 1]
          /\ lock'[i] # c /\ lock[i + 1] \in Callers
      BY <1>1, <1>2, <1>4
    <3>2. due'[lock'[i]] = due[lock[i + 1]] /\ due[lock[i + 1]] \in Nat
      BY <3>1, <2>1, <2>2
    <3>3. due[lock[i + 1]] >= Soonest + i * Slot + MaxJitter
      <4>1. \A k \in 1 .. Len(lock) : due[lock[k]] >= Soonest + (k - 1) * Slot + MaxJitter
        BY DEF Deadlines
      <4>2. (i + 1) - 1 = i
        BY <3>1
      <4> QED BY <4>1, <4>2, <3>1
    <3>4. i - 1 \in Nat /\ (i - 1) + 1 = i
      BY <3>1
    <3>5. (i - 1) * Slot \in Nat /\ i * Slot = (i - 1) * Slot + Slot
      BY <3>4, OneMorePlace
    <3> HIDE DEF IInv, Return, Holds
    <3>6. i * Slot \in Nat
      BY <3>5, <2>1
    <3>7. Soonest + i * Slot + MaxJitter >= Soonest' + (i - 1) * Slot + MaxJitter
      BY ONLY <3>5, <3>6, <2>1, <2>3, JitterAssumption, PlaceShift, ZenonT(30)
    <3>8. \A a, b, d \in Int : a >= b /\ b >= d => a >= d
      OBVIOUS
    <3>9. /\ due'[lock'[i]] \in Int /\ Soonest + i * Slot + MaxJitter \in Int
          /\ Soonest' + (i - 1) * Slot + MaxJitter \in Int
      BY <3>2, <3>5, <3>6, <2>1, <2>3
    <3> QED BY ONLY <3>2, <3>3, <3>7, <3>8, <3>9, Zenon
  <2>6. handed' \in Nat /\ handed' <= now'
    BY <1>1, <2>2
  <2> QED BY ONLY <2>2, <2>4, <2>5, <2>6, Zenon DEF Deadlines
<1> QED BY <1>7, <1>8, <1>10, <1>11, <1>12, <1>13

LEMMA InvNext == IInv /\ [Next]_vars => IInv'
<1> SUFFICES ASSUME IInv, [Next]_vars PROVE IInv'
  OBVIOUS
<1>0. /\ now \in Nat /\ nextAllowed \in Nat /\ pc \in [Callers -> {"idle", "entered", "asleep"}]
      /\ \A d \in Callers : pc[d] = "asleep" => Holds(d) /\ now <= nextAllowed + MaxJitter
      /\ nextAllowed <= now + Interval /\ handed \in Nat /\ handed <= now
      /\ \A d \in Callers : pc[d] = "entered" /\ Holds(d) => now <= handed + MaxJitter
      /\ Soonest \in Nat /\ Soonest >= nextAllowed /\ Soonest >= handed + MaxJitter
  BY SoonestFacts DEF IInv, TypeOK, OneSleeper, Slots, Deadlines
<1>1. CASE Tick
  <2>1. \A c \in Callers : pc'[c] = "asleep" => now' <= nextAllowed' + MaxJitter
    BY <1>0, <1>1 DEF Tick
  <2>2. RateCap'
    <3>1. grants \in Nat /\ (grants - 1) * Interval \in Int
      BY DEF IInv, TypeOK
    <3>2. grants > 0 => now + 1 >= (grants - 1) * Interval
      BY <1>0, <3>1 DEF IInv, RateCap
    <3> QED BY <1>1, <3>2 DEF Tick, RateCap
  <2>3. TypeOK' /\ OneSleeper' /\ Queue'
    BY <1>1 DEF Tick, IInv, TypeOK, OneSleeper, Queue, Holds
  <2>4. Slots'
    BY <1>0, <1>1, <2>1 DEF Tick, IInv, Slots
  <2>5. Deadlines'
    <3>1. /\ now' = now + 1 /\ nextAllowed' = nextAllowed /\ lock' = lock /\ pc' = pc
          /\ handed' = handed /\ due' = due
      BY <1>1 DEF Tick
    <3>2. \A c \in Callers : pc[c] = "entered" /\ Holds(c) => now + 1 <= handed + MaxJitter
      BY <1>0, <1>1 DEF Tick
    <3>3. Deadlines
      BY DEF IInv
    <3>4. Soonest' = Soonest
      BY <3>1 DEF Soonest
    <3> QED BY <1>0, <3>1, <3>2, <3>3, <3>4 DEF Deadlines, Holds
  <2> QED BY <2>2, <2>3, <2>4, <2>5 DEF IInv
<1>2. ASSUME NEW c \in Callers, Enter(c) PROVE IInv'
  BY <1>2, InvEnter
<1>3. ASSUME NEW c \in Callers, Sleep(c) PROVE IInv'
  <2>1. \A d \in Callers : pc'[d] = IF d = c THEN "asleep" ELSE pc[d]
    BY <1>0, <1>3 DEF Sleep
  <2>2. TypeOK' /\ RateCap'
    BY <1>3 DEF Sleep, IInv, TypeOK, RateCap
  <2>3. OneSleeper' /\ Queue'
    BY <1>3, <2>1 DEF Sleep, IInv, OneSleeper, Queue, Holds
  <2>4. Slots'
    BY <1>0, <1>3, <2>1 DEF Sleep, IInv, Slots
  <2>5. Deadlines'
    BY <1>3, <2>1 DEF Sleep, IInv, Deadlines, Soonest, Holds
  <2> QED BY <2>2, <2>3, <2>4, <2>5 DEF IInv
<1>4. ASSUME NEW c \in Callers, Pass(c) PROVE IInv'
  <2>1. /\ Return(c) /\ Holds(c) /\ pc[c] # "idle" /\ nextAllowed <= now
        /\ nextAllowed' = now + Interval /\ now <= handed + MaxJitter
    BY <1>0, <1>4 DEF Pass
  <2> QED BY <1>0, <2>1, InvReturn
<1>5. ASSUME NEW c \in Callers, Wake(c) PROVE IInv'
  <2>1. /\ Return(c) /\ Holds(c) /\ pc[c] # "idle" /\ nextAllowed <= now
        /\ nextAllowed' = nextAllowed + Interval /\ now <= nextAllowed + MaxJitter
    BY <1>0, <1>5 DEF Wake
  <2> QED BY <1>0, <2>1, InvReturn
<1>6. CASE UNCHANGED vars
  BY <1>6 DEF vars, IInv, TypeOK, OneSleeper, RateCap, Slots, Queue, Deadlines, Soonest, Holds
<1> QED BY <1>1, <1>2, <1>3, <1>4, <1>5, <1>6 DEF Next, Proceed

-----------------------------------------------------------------------------
\* The inductive invariant holds in every reachable state.
THEOREM Invariance == Spec => []IInv
<1>1. Init => IInv
  BY InvInit
<1>2. IInv /\ [Next]_vars => IInv'
  BY InvNext
<1> QED BY <1>1, <1>2, PTL DEF Spec

\* Instants and counts stay naturals, and no request is dated in the future.
THEOREM TypeCorrect == Spec => []TypeOK
<1>1. IInv => TypeOK
  BY DEF IInv
<1> QED BY <1>1, Invariance, PTL

\* At most one coroutine ever sleeps on a key, and it is the lock's holder.
THEOREM OneSleeperEver == Spec => []OneSleeper
<1>1. IInv => OneSleeper
  BY DEF IInv
<1> QED BY <1>1, Invariance, PTL

\* By the n-th return of acquire, n - 1 whole intervals have passed: the
\* limiter's long-run rate is never exceeded, however late sleepers wake.
THEOREM RateNeverExceeded == Spec => []RateCap
<1>1. IInv => RateCap
  BY DEF IInv
<1> QED BY <1>1, Invariance, PTL

\* Whoever is inside acquire is served, or still waits, no later than its
\* deadline: as many slots as it has places in the queue, and one lateness.
LEMMA BoundFromInv == IInv => WaitIsBounded
<1> SUFFICES ASSUME IInv, NEW c \in Callers, pc[c] # "idle" PROVE now <= due[c]
  BY DEF WaitIsBounded
<1>1. /\ now \in Nat /\ nextAllowed \in Nat /\ handed \in Nat /\ due[c] \in Nat
      /\ lock \in Seq(Callers) /\ pc \in [Callers -> {"idle", "entered", "asleep"}]
      /\ Slot \in Nat
  BY SlotFacts DEF IInv, TypeOK, Deadlines
<1>2. Soonest \in Nat /\ Soonest >= nextAllowed /\ Soonest >= handed + MaxJitter
  BY <1>1, SoonestFacts
<1>3. PICK i \in 1 .. Len(lock) : lock[i] = c
  BY DEF IInv, Queue
<1>4. lock # <<>> /\ Head(lock) = lock[1] /\ lock[1] \in Callers /\ 1 \in 1 .. Len(lock)
  BY <1>1, <1>3
<1>5. pc[lock[1]] \in {"entered", "asleep"}
  BY <1>1, <1>4 DEF IInv, Queue
<1>6. now <= Soonest + MaxJitter
  <2>1. CASE pc[lock[1]] = "entered"
    <3>1. now <= handed + MaxJitter
      BY <1>4, <2>1 DEF IInv, Deadlines, Holds
    <3> QED BY <1>1, <1>2, <3>1
  <2>2. CASE pc[lock[1]] = "asleep"
    <3>1. now <= nextAllowed + MaxJitter
      BY <1>4, <2>2 DEF IInv, Slots
    <3> QED BY <1>1, <1>2, <3>1
  <2> QED BY <1>5, <2>1, <2>2
<1>7. due[c] >= Soonest + (i - 1) * Slot + MaxJitter
  BY <1>3 DEF IInv, Deadlines
<1>8. i - 1 \in Nat
  BY <1>3
<1>9. (i - 1) * Slot \in Nat
  BY <1>8, OneMorePlace
<1> QED BY <1>1, <1>2, <1>6, <1>7, <1>9

\* Lateness does not accumulate along the queue: nobody waits longer than a slot
\* for every place in it and one lateness, for any number of callers.
THEOREM WaitsStayBounded == Spec => []WaitIsBounded
BY BoundFromInv, Invariance, PTL

\* Two consecutive returns are at least Interval - MaxJitter apart.
THEOREM GapAlwaysFloored == Spec => GapFloor
<1>1. IInv /\ [Next]_vars =>
        [\A c \in Callers : Granted(c) /\ grants > 0 => now - last >= Interval - MaxJitter]_vars
  <2> SUFFICES ASSUME IInv, Next, NEW c \in Callers, Granted(c), grants > 0
               PROVE  now - last >= Interval - MaxJitter
    OBVIOUS
  <2>1. /\ now \in Nat /\ last \in Nat /\ nextAllowed \in Nat
        /\ nextAllowed >= last + Interval - MaxJitter
        /\ pc \in [Callers -> {"idle", "entered", "asleep"}]
    BY DEF IInv, TypeOK, Slots
  <2>2. now >= nextAllowed
    BY <2>1 DEF Next, Proceed, Granted, Tick, Enter, Sleep, Pass, Wake
  <2> QED BY <2>1, <2>2
<1> QED BY <1>1, Invariance, PTL DEF Spec, GapFloor

-----------------------------------------------------------------------------
\* Who is not in the queue finds a place in it: by the pigeonhole principle it
\* has at most as many members as there are other callers.
LEMMA QueueFits ==
    ASSUME IsFiniteSet(Callers), NEW c \in Callers, NEW s \in Seq(Callers),
           \A i, j \in 1 .. Len(s) : s[i] = s[j] => i = j,
           \A i \in 1 .. Len(s) : s[i] # c
    PROVE  Cardinality(Callers) \in Nat /\ Len(s) + 1 <= Cardinality(Callers)
<1> DEFINE T == Callers \ {c}
           S == 1 .. Len(s)
           f == [i \in S |-> s[i]]
<1>1. /\ IsFiniteSet(T) /\ Cardinality(T) = Cardinality(Callers) - 1
      /\ Cardinality(Callers) \in Nat
  BY FS_RemoveElement, FS_CardinalityType, Zenon
<1>2. Len(s) \in Nat /\ 1 \in Int /\ Len(s) \in Int
  OBVIOUS
<1>3. IsFiniteSet(S) /\ Cardinality(S) = Len(s)
  <2>1. IsFiniteSet(S) /\ Cardinality(S) = IF 1 > Len(s) THEN 0 ELSE Len(s) - 1 + 1
    BY <1>2, FS_Interval, Zenon
  <2> HIDE DEF S
  <2> QED BY <1>2, <2>1, SMT
<1>4. f \in [S -> T] /\ \A i, j \in S : f[i] = f[j] => i = j
  OBVIOUS
<1> HIDE DEF f, S, T
<1>5. ~ (Cardinality(T) < Cardinality(S))
  <2>1. ASSUME Cardinality(T) < Cardinality(S)
        PROVE  \E i, j \in S : i # j /\ f[i] = f[j]
    BY ONLY <2>1, <1>1, <1>3, <1>4, FS_PigeonHole
  <2> QED BY <2>1, <1>4, Zenon
<1> QED BY <1>1, <1>2, <1>3, <1>5, SMT

\* Fewer places cost no more.
LEMMA PlacesMonotonic ==
    ASSUME NEW m \in Nat, NEW n \in Nat, m <= n
    PROVE  m * Slot <= n * Slot
<1>1. Slot \in Nat
  BY SlotFacts
<1>2. \A k \in Nat : m * k <= n * k
  BY SMT
<1> QED BY <1>1, <1>2

\* However long the queue and however far the schedule has run ahead, whoever
\* joins is promised its turn within a slot for each caller and one lateness.
THEOREM PromisesStayShort ==
    ASSUME IsFiniteSet(Callers)
    PROVE  Spec => ShortPromises
<1> DEFINE Short == \A c \in Callers :
             due'[c] # due[c] => due'[c] <= now + Cardinality(Callers) * Slot + MaxJitter
<1>1. IInv /\ [Next]_vars => [Short]_vars
  <2> SUFFICES ASSUME IInv, Next, NEW c \in Callers, due'[c] # due[c]
               PROVE  due'[c] <= now + Cardinality(Callers) * Slot + MaxJitter
    OBVIOUS
  <2>1. /\ now \in Nat /\ lock \in Seq(Callers) /\ due \in [Callers -> Nat] /\ Len(lock) \in Nat
        /\ \A i, j \in 1 .. Len(lock) : lock[i] = lock[j] => i = j
        /\ Slot \in Nat
    <3>1. IInv
      OBVIOUS
    <3> QED BY ONLY <3>1, SlotFacts DEF IInv, TypeOK, OneSleeper, Deadlines
  <2>2. Cardinality(Callers) \in Nat /\ Cardinality(Callers) * Slot \in Nat
    BY FS_CardinalityType, OneMorePlace
  <2>3. ASSUME NEW d \in Callers, Enter(d)
        PROVE  due'[c] <= now + Cardinality(Callers) * Slot + MaxJitter
    <3>1. d = c /\ due'[c] = now + (Len(lock) + 1) * Slot + MaxJitter
      BY <2>1, <2>3 DEF Enter
    <3>2. \A i \in 1 .. Len(lock) : lock[i] # c
      BY <2>3, <3>1 DEF Enter, IInv, Queue
    <3>3. Len(lock) + 1 <= Cardinality(Callers)
      BY <2>1, <3>2, QueueFits
    <3>4. (Len(lock) + 1) * Slot <= Cardinality(Callers) * Slot /\ (Len(lock) + 1) * Slot \in Nat
      BY <2>1, <2>2, <3>3, PlacesMonotonic, OneMorePlace
    <3> QED BY ONLY <2>1, <2>2, <3>1, <3>4, JitterAssumption
  <2>4. ASSUME NEW d \in Callers, Return(d)
        PROVE  due'[c] <= now + Cardinality(Callers) * Slot + MaxJitter
    <3>1. due'[c] = 0
      BY <2>1, <2>4 DEF Return
    <3> QED BY ONLY <2>1, <2>2, <3>1, JitterAssumption
  <2> QED BY <2>3, <2>4 DEF Next, Proceed, Tick, Sleep, Pass, Wake
<1> QED BY <1>1, Invariance, PTL DEF Spec, ShortPromises
=============================================================================
