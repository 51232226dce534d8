------------------------ MODULE ResponseCache_proofs ------------------------
(***************************************************************************)
(* Theorems about ResponseCache for any callers, keys, lifetimes and size. *)
(***************************************************************************)
EXTENDS ResponseCache, SequenceTheorems, TLAPS

USE KeyAssumption, SizeAssumption, ClockAssumption, ValueAssumption

\* At points at an entry with the key, and at the only one.
LEMMA AtFacts ==
    ASSUME NEW s \in Seq(Entry), NEW k \in Keys, Has(s, k)
    PROVE  /\ At(s, k) \in 1 .. Len(s)
           /\ s[At(s, k)] \in Entry
           /\ s[At(s, k)].key = k
           /\ \A i \in 1 .. Len(s) : Distinct(s) /\ s[i].key = k => i = At(s, k)
<1>1. At(s, k) \in 1 .. Len(s) /\ s[At(s, k)].key = k
  BY DEF At, Has
<1>2. s[At(s, k)] \in Entry
  BY <1>1
<1> QED BY <1>1, <1>2 DEF Distinct

\* dict.pop: the key is gone, the others keep their order.
LEMMA WithoutFacts ==
    ASSUME NEW s \in Seq(Entry), NEW k \in Keys, Distinct(s)
    PROVE  /\ Without(s, k) \in Seq(Entry)
           /\ Len(Without(s, k)) = IF Has(s, k) THEN Len(s) - 1 ELSE Len(s)
           /\ \A i \in 1 .. Len(Without(s, k)) :
                Without(s, k)[i] = IF Has(s, k) /\ i >= At(s, k) THEN s[i + 1] ELSE s[i]
           /\ Distinct(Without(s, k))
           /\ \A i \in 1 .. Len(Without(s, k)) : Without(s, k)[i].key # k
<1>1. CASE Has(s, k)
  <2> DEFINE at == At(s, k)
             w == [i \in 1 .. Len(s) - 1 |-> IF i < at THEN s[i] ELSE s[i + 1]]
  <2>1. Without(s, k) = w
    BY <1>1 DEF Without
  <2>2. at \in 1 .. Len(s) /\ Len(s) \in Nat /\ s[at].key = k
        /\ \A i \in 1 .. Len(s) : s[i].key = k => i = at
    BY <1>1, AtFacts
  <2>3. \A i \in 1 .. Len(s) - 1 : w[i] \in Entry
    BY <2>2
  <2>4. w \in Seq(Entry) /\ Len(w) = Len(s) - 1
    BY <2>2, <2>3
  <2>5. \A i \in 1 .. Len(w) : w[i] = IF i >= at THEN s[i + 1] ELSE s[i]
    BY <2>2, <2>4
  <2> HIDE DEF w, at
  <2>6. ASSUME NEW i \in 1 .. Len(w), NEW j \in 1 .. Len(w), w[i].key = w[j].key PROVE i = j
    <3>1. /\ i \in 1 .. Len(s) /\ i + 1 \in 1 .. Len(s)
          /\ j \in 1 .. Len(s) /\ j + 1 \in 1 .. Len(s)
      BY <2>2, <2>4
    <3>2. \A x, y \in 1 .. Len(s) : s[x].key = s[y].key => x = y
      BY DEF Distinct
    <3>3. CASE i >= at /\ j >= at
      <4>1. i + 1 = j + 1
        BY <2>5, <2>6, <3>1, <3>2, <3>3
      <4> QED BY <4>1, <3>1
    <3>4. CASE i >= at /\ ~(j >= at)
      <4>1. i + 1 = j
        BY <2>5, <2>6, <3>1, <3>2, <3>4
      <4> QED BY <2>2, <3>1, <3>4, <4>1
    <3>5. CASE ~(i >= at) /\ j >= at
      <4>1. i = j + 1
        BY <2>5, <2>6, <3>1, <3>2, <3>5
      <4> QED BY <2>2, <3>1, <3>5, <4>1
    <3>6. CASE ~(i >= at) /\ ~(j >= at)
      BY <2>5, <2>6, <3>1, <3>2, <3>6
    <3> QED BY <3>3, <3>4, <3>5, <3>6
  <2>7. \A i \in 1 .. Len(w) : w[i].key # k
    BY <2>2, <2>4, <2>5
  <2>8. Distinct(w)
    BY <2>6 DEF Distinct
  <2> QED BY <1>1, <2>1, <2>4, <2>5, <2>7, <2>8 DEF at
<1>2. CASE ~Has(s, k)
  BY <1>2 DEF Without, Has
<1> QED BY <1>1, <1>2

\* Adding an entry for a key that is not there.
LEMMA AppendFacts ==
    ASSUME NEW s \in Seq(Entry), NEW e \in Entry, Distinct(s),
           \A i \in 1 .. Len(s) : s[i].key # e.key
    PROVE  /\ Append(s, e) \in Seq(Entry)
           /\ Len(Append(s, e)) = Len(s) + 1
           /\ \A i \in 1 .. Len(s) : Append(s, e)[i] = s[i]
           /\ Append(s, e)[Len(s) + 1] = e
           /\ Distinct(Append(s, e))
<1>1. /\ Append(s, e) \in Seq(Entry)
      /\ Len(Append(s, e)) = Len(s) + 1 /\ Len(s) \in Nat
      /\ \A i \in 1 .. Len(s) : Append(s, e)[i] = s[i]
      /\ Append(s, e)[Len(s) + 1] = e
  BY SMT
<1> HIDE DEF Entry
<1>2. \A i \in 1 .. Len(s) + 1 : i \in 1 .. Len(s) \/ i = Len(s) + 1
  BY <1>1
<1>3. Distinct(Append(s, e))
  BY <1>1, <1>2 DEF Distinct
<1> QED BY <1>1, <1>3

\* Eviction keeps the end.
LEMMA EvictFacts ==
    ASSUME NEW s \in Seq(Entry), Distinct(s)
    PROVE  /\ Evict(s) \in Seq(Entry)
           /\ Len(Evict(s)) <= MaxEntries
           /\ EndOf(Evict(s), s)
           /\ Distinct(Evict(s))
<1>0. Len(s) \in Nat
  OBVIOUS
<1>1. CASE Len(s) > MaxEntries
  <2> DEFINE m == Len(s) - MaxEntries + 1
             t == SubSeq(s, m, Len(s))
  <2>1. m \in 1 .. Len(s) /\ Len(s) - m + 1 = MaxEntries
    BY <1>0, <1>1
  <2>2. t \in Seq(Entry) /\ Len(t) = MaxEntries /\ \A i \in 1 .. MaxEntries : t[i] = s[m + i - 1]
    <3>1. m \in Int /\ Len(s) \in Int /\ m <= Len(s) /\ \A i \in m .. Len(s) : s[i] \in Entry
      <4>1. \A i \in m .. Len(s) : i \in 1 .. Len(s)
        BY <1>0, <2>1
      <4>2. \A i \in 1 .. Len(s) : s[i] \in Entry
        OBVIOUS
      <4> QED BY <1>0, <2>1, <4>1, <4>2
    <3>2. t \in Seq(Entry) /\ Len(t) = Len(s) - m + 1
          /\ \A i \in 1 .. Len(s) - m + 1 : t[i] = s[m + i - 1]
      BY <3>1, SubSeqProperties
    <3> QED BY <2>1, <3>2
  <2>3. Evict(s) = t
    BY <1>1 DEF Evict
  <2> HIDE DEF t
  <2>4. \A i \in 1 .. MaxEntries : t[i] = s[Len(s) - MaxEntries + i]
    BY <1>0, <2>1, <2>2
  <2>5. Distinct(t)
    <3> SUFFICES ASSUME NEW i \in 1 .. MaxEntries, NEW j \in 1 .. MaxEntries, t[i].key = t[j].key
                 PROVE  i = j
      BY <2>2 DEF Distinct
    <3>1. Len(s) - MaxEntries + i \in 1 .. Len(s) /\ Len(s) - MaxEntries + j \in 1 .. Len(s)
      BY <1>0, <1>1
    <3>2. s[Len(s) - MaxEntries + i].key = s[Len(s) - MaxEntries + j].key
      BY <2>4
    <3>3. Len(s) - MaxEntries + i = Len(s) - MaxEntries + j
      BY <3>1, <3>2 DEF Distinct
    <3> QED BY <1>0, <3>3
  <2>6. \A i \in 1 .. Len(t) : t[i] = s[Len(s) - Len(t) + i]
    BY <2>2, <2>4
  <2>7. EndOf(t, s)
    BY <1>0, <1>1, <2>2, <2>6 DEF EndOf
  <2> QED BY <2>2, <2>3, <2>5, <2>7
<1>2. CASE ~(Len(s) > MaxEntries)
  <2>1. Evict(s) = s
    BY <1>2 DEF Evict
  <2> QED BY <1>0, <1>2, <2>1 DEF EndOf
<1> QED BY <1>1, <1>2

-----------------------------------------------------------------------------
\* The end of a sequence stays its end when a key leaves both.
LEMMA EndWithout ==
    ASSUME NEW s \in Seq(Entry), NEW t \in Seq(Entry), NEW k \in Keys,
           Distinct(s), Distinct(t), EndOf(s, t)
    PROVE  /\ EndOf(Without(s, k), Without(t, k))
           /\ Has(s, k) => Has(t, k) /\ t[At(t, k)] = s[At(s, k)]
           /\ ~Has(s, k) => EndOf(s, t) /\ Without(s, k) = s
<1> DEFINE d == Len(t) - Len(s)
<1>0. Len(s) \in Nat /\ Len(t) \in Nat /\ d \in Nat /\ \A i \in 1 .. Len(s) : s[i] = t[d + i]
  BY DEF EndOf
<1>1. CASE Has(s, k)
  <2>1. At(s, k) \in 1 .. Len(s) /\ s[At(s, k)].key = k
    BY <1>1, AtFacts
  <2>2. d + At(s, k) \in 1 .. Len(t) /\ t[d + At(s, k)].key = k
    BY <1>0, <2>1
  <2>3. Has(t, k)
    BY <2>2 DEF Has
  <2>4. At(t, k) = d + At(s, k)
    BY <2>2, <2>3, AtFacts
  <2>5. /\ Len(Without(s, k)) = Len(s) - 1 /\ Len(Without(t, k)) = Len(t) - 1
        /\ \A i \in 1 .. Len(s) - 1 : Without(s, k)[i] = IF i >= At(s, k) THEN s[i + 1] ELSE s[i]
        /\ \A i \in 1 .. Len(t) - 1 : Without(t, k)[i] = IF i >= At(t, k) THEN t[i + 1] ELSE t[i]
    BY <1>1, <2>3, WithoutFacts
  <2>6. ASSUME NEW i \in 1 .. Len(s) - 1
        PROVE  Without(s, k)[i] = Without(t, k)[d + i]
    <3>1. d + i \in 1 .. Len(t) - 1 /\ i \in 1 .. Len(s) /\ i + 1 \in 1 .. Len(s)
      BY <1>0
    <3>2. s[i] = t[d + i] /\ s[i + 1] = t[d + i + 1]
      <4>1. s[i + 1] = t[d + (i + 1)]
        BY <1>0, <3>1
      <4>2. d + (i + 1) = d + i + 1
        BY <1>0
      <4> QED BY <1>0, <3>1, <4>1, <4>2
    <3>3. d + i >= At(t, k) <=> i >= At(s, k)
      BY <1>0, <2>1, <2>4
    <3> QED BY <2>5, <3>1, <3>2, <3>3
  <2>7. EndOf(Without(s, k), Without(t, k))
    BY <1>0, <2>1, <2>5, <2>6 DEF EndOf
  <2> QED BY <1>0, <1>1, <2>1, <2>3, <2>4, <2>7
<1>2. CASE ~Has(s, k)
  <2>1. Without(s, k) = s
    BY <1>2 DEF Without
  <2>2. CASE ~Has(t, k)
    BY <1>2, <2>1, <2>2 DEF Without
  <2>3. CASE Has(t, k)
    <3>1. At(t, k) \in 1 .. Len(t) /\ t[At(t, k)].key = k
      BY <2>3, AtFacts
    <3>2. At(t, k) <= d
      <4> SUFFICES ASSUME At(t, k) > d PROVE FALSE
        BY <1>0, <3>1
      <4>1. At(t, k) - d \in 1 .. Len(s) /\ d + (At(t, k) - d) = At(t, k)
        BY <1>0, <3>1
      <4>2. s[At(t, k) - d].key = k
        BY <1>0, <3>1, <4>1
      <4> QED BY <1>2, <4>1, <4>2 DEF Has
    <3>3. /\ Len(Without(t, k)) = Len(t) - 1
          /\ \A i \in 1 .. Len(t) - 1 : Without(t, k)[i] = IF i >= At(t, k) THEN t[i + 1] ELSE t[i]
      BY <2>3, WithoutFacts
    <3>4. \A i \in 1 .. Len(s) : s[i] = Without(t, k)[(d - 1) + i]
      <4> SUFFICES ASSUME NEW i \in 1 .. Len(s) PROVE s[i] = Without(t, k)[(d - 1) + i]
        OBVIOUS
      <4>1. (d - 1) + i \in 1 .. Len(t) - 1 /\ (d - 1) + i >= At(t, k) /\ (d - 1) + i + 1 = d + i
        BY <1>0, <3>1, <3>2
      <4>2. Without(t, k)[(d - 1) + i] = t[d + i]
        BY <3>3, <4>1
      <4> QED BY <1>0, <4>2
    <3>5. EndOf(s, Without(t, k))
      BY <1>0, <3>1, <3>2, <3>3, <3>4 DEF EndOf
    <3> QED BY <1>2, <2>1, <3>5
  <2> QED BY <2>2, <2>3
<1> QED BY <1>1, <1>2

\* ... and when the same entry joins both.
LEMMA EndAppend ==
    ASSUME NEW s \in Seq(Entry), NEW t \in Seq(Entry), NEW e \in Entry, EndOf(s, t)
    PROVE  EndOf(Append(s, e), Append(t, e))
<1>1. /\ Len(s) \in Nat /\ Len(t) \in Nat /\ Len(s) <= Len(t)
      /\ \A i \in 1 .. Len(s) : s[i] = t[Len(t) - Len(s) + i]
  BY DEF EndOf
<1>2. /\ Len(Append(s, e)) = Len(s) + 1 /\ Len(Append(t, e)) = Len(t) + 1
      /\ \A i \in 1 .. Len(s) : Append(s, e)[i] = s[i]
      /\ \A i \in 1 .. Len(t) : Append(t, e)[i] = t[i]
      /\ Append(s, e)[Len(s) + 1] = e /\ Append(t, e)[Len(t) + 1] = e
  BY SMT
<1> DEFINE a == Append(s, e)
           b == Append(t, e)
<1> HIDE DEF Entry, a, b
<1>3. /\ Len(a) = Len(s) + 1 /\ Len(b) = Len(t) + 1
      /\ \A i \in 1 .. Len(s) : a[i] = s[i]
      /\ \A i \in 1 .. Len(t) : b[i] = t[i]
      /\ a[Len(s) + 1] = e /\ b[Len(t) + 1] = e
  BY <1>2 DEF a, b
<1>4. \A i \in 1 .. Len(s) + 1 : a[i] = b[(Len(t) + 1) - (Len(s) + 1) + i]
  <2> SUFFICES ASSUME NEW i \in 1 .. Len(s) + 1
               PROVE  a[i] = b[(Len(t) + 1) - (Len(s) + 1) + i]
    OBVIOUS
  <2>1. CASE i = Len(s) + 1
    <3>1. (Len(t) + 1) - (Len(s) + 1) + i = Len(t) + 1
      BY <1>1, <2>1
    <3> QED BY <1>3, <2>1, <3>1
  <2>2. CASE i # Len(s) + 1
    <3>1. /\ i \in 1 .. Len(s) /\ (Len(t) + 1) - (Len(s) + 1) + i = Len(t) - Len(s) + i
          /\ Len(t) - Len(s) + i \in 1 .. Len(t)
      BY <1>1, <2>2
    <3> QED BY <1>1, <1>3, <3>1
  <2> QED BY <2>1, <2>2
<1>5. EndOf(a, b)
  BY <1>1, <1>3, <1>4 DEF EndOf
<1> QED BY <1>5 DEF a, b

\* An end of an end is an end.
LEMMA EndTransitive ==
    ASSUME NEW r \in Seq(Entry), NEW s \in Seq(Entry), NEW t \in Seq(Entry),
           EndOf(r, s), EndOf(s, t)
    PROVE  EndOf(r, t)
<1>1. /\ Len(r) \in Nat /\ Len(s) \in Nat /\ Len(t) \in Nat
      /\ Len(r) <= Len(s) /\ Len(s) <= Len(t)
      /\ \A i \in 1 .. Len(r) : r[i] = s[Len(s) - Len(r) + i]
      /\ \A i \in 1 .. Len(s) : s[i] = t[Len(t) - Len(s) + i]
  BY DEF EndOf
<1>2. ASSUME NEW i \in 1 .. Len(r) PROVE r[i] = t[Len(t) - Len(r) + i]
  <2>1. /\ Len(s) - Len(r) + i \in 1 .. Len(s)
        /\ Len(t) - Len(s) + (Len(s) - Len(r) + i) = Len(t) - Len(r) + i
    BY <1>1
  <2> QED BY <1>1, <2>1
<1> QED BY <1>1, <1>2 DEF EndOf

-----------------------------------------------------------------------------
LEMMA InvInit == Init => IInv
BY DEF Init, IInv, TypeOK, BoundedNoDuplicates, Distinct, EvictsLeastRecentlyUsed, EndOf, Fresh

LEMMA RememberType == Remember => again' \in [Keys -> SUBSET Callers]
BY DEF Remember

\* What every action may use.
LEMMA Facts ==
    ASSUME IInv
    PROVE  /\ entries \in Seq(Entry) /\ ideal \in Seq(Entry)
           /\ Len(entries) <= MaxEntries /\ Distinct(entries) /\ Distinct(ideal)
           /\ EndOf(entries, ideal)
           /\ now \in Nat /\ asked \in [Callers -> Nat]
           /\ pc \in [Callers -> {"idle", "waiting", "asking", "storing"}]
           /\ want \in [Callers -> Keys \cup {NONE}] /\ answer \in [Callers -> Answer \cup {NONE}]
           /\ again \in [Keys -> SUBSET Callers]
BY DEF IInv, TypeOK, BoundedNoDuplicates, EvictsLeastRecentlyUsed

\* An entry's life is bounded by when it was fetched.
Aged(e) == e.expires <= e.fetched + Latency + Ttl[e.key]

\* Removing a key and adding an aged entry keeps all entries aged.
LEMMA AgedAfter ==
    ASSUME NEW s \in Seq(Entry), NEW k \in Keys, Distinct(s), NEW e \in Entry, e.key = k, Aged(e),
           \A i \in 1 .. Len(s) : Aged(s[i])
    PROVE  /\ \A i \in 1 .. Len(Without(s, k)) : Aged(Without(s, k)[i])
           /\ \A i \in 1 .. Len(Append(Without(s, k), e)) : Aged(Append(Without(s, k), e)[i])
<1> DEFINE w == Without(s, k)
<1>1. /\ w \in Seq(Entry) /\ Len(w) = (IF Has(s, k) THEN Len(s) - 1 ELSE Len(s)) /\ Len(s) \in Nat
      /\ \A i \in 1 .. Len(w) : w[i] = IF Has(s, k) /\ i >= At(s, k) THEN s[i + 1] ELSE s[i]
      /\ Distinct(w) /\ \A i \in 1 .. Len(w) : w[i].key # k
  BY WithoutFacts
<1> HIDE DEF w
<1>2. \A i \in 1 .. Len(w) : Aged(w[i])
  <2> SUFFICES ASSUME NEW i \in 1 .. Len(w) PROVE Aged(w[i])
    OBVIOUS
  <2>1. CASE Has(s, k) /\ i >= At(s, k)
    <3>1. i + 1 \in 1 .. Len(s) /\ w[i] = s[i + 1]
      BY <1>1, <2>1
    <3> QED BY <3>1
  <2>2. CASE ~(Has(s, k) /\ i >= At(s, k))
    <3>1. i \in 1 .. Len(s) /\ w[i] = s[i]
      BY <1>1, <2>2
    <3> QED BY <3>1
  <2> QED BY <2>1, <2>2
<1>3. /\ Len(Append(w, e)) = Len(w) + 1 /\ Len(w) \in Nat
      /\ \A i \in 1 .. Len(w) : Append(w, e)[i] = w[i]
      /\ Append(w, e)[Len(w) + 1] = e
  BY <1>1, AppendFacts
<1>4. \A i \in 1 .. Len(Append(w, e)) : Aged(Append(w, e)[i])
  <2> SUFFICES ASSUME NEW i \in 1 .. Len(w) + 1 PROVE Aged(Append(w, e)[i])
    BY <1>3
  <2>1. i \in 1 .. Len(w) \/ i = Len(w) + 1
    BY <1>3
  <2> QED BY <1>2, <1>3, <2>1
<1> QED BY <1>2, <1>4 DEF w

\* Fresh, without the records' fields in sight.
Pending(c) ==
    /\ pc[c] \in {"asking", "storing"} => asked[c] <= now /\ now <= asked[c] + Latency
    /\ pc[c] # "idle" => want[c] # NONE
    /\ pc[c] = "storing" => answer[c] # NONE /\ answer[c].fetched >= asked[c]
LEMMA FreshMeans ==
    Fresh <=> (\A i \in 1 .. Len(entries) : Aged(entries[i])) /\ \A c \in Callers : Pending(c)
BY DEF Fresh, Aged, Pending

\* Removing a key and adding an entry for it.
LEMMA Replace ==
    ASSUME NEW s \in Seq(Entry), NEW k \in Keys, NEW e \in Entry, e.key = k, Distinct(s)
    PROVE  /\ Without(s, k) \in Seq(Entry) /\ Distinct(Without(s, k))
           /\ Append(Without(s, k), e) \in Seq(Entry) /\ Distinct(Append(Without(s, k), e))
           /\ Len(Append(Without(s, k), e)) = IF Has(s, k) THEN Len(s) ELSE Len(s) + 1
           /\ Len(Without(s, k)) <= Len(s) /\ Len(s) \in Nat /\ Len(Without(s, k)) \in Nat
<1> DEFINE w == Without(s, k)
<1>1. /\ w \in Seq(Entry) /\ Distinct(w)
      /\ Len(w) = (IF Has(s, k) THEN Len(s) - 1 ELSE Len(s))
      /\ \A i \in 1 .. Len(w) : w[i].key # e.key
  <2> HIDE KeyAssumption, SizeAssumption, ClockAssumption, ValueAssumption
  <2> QED BY WithoutFacts
<1> HIDE DEF w
<1>2. /\ Append(w, e) \in Seq(Entry) /\ Distinct(Append(w, e))
      /\ Len(Append(w, e)) = Len(w) + 1
  BY <1>1, AppendFacts
<1>3. Len(s) \in Nat /\ Len(w) \in Nat
  BY <1>1
<1> QED BY <1>1, <1>2, <1>3 DEF w

LEMMA InvHit == ASSUME IInv, NEW c \in Callers, NEW k \in Keys, Hit(c, k), Remember PROVE IInv'
<1> DEFINE e == entries[At(entries, k)]
<1>1. Has(entries, k) /\ Has(ideal, k) /\ ideal[At(ideal, k)] = e
      /\ EndOf(Without(entries, k), Without(ideal, k))
  BY Facts, EndWithout DEF Hit, Live
<1>2. e \in Entry /\ e.key = k /\ At(entries, k) \in 1 .. Len(entries)
  BY <1>1, Facts, AtFacts
<1>3. Without(entries, k) \in Seq(Entry) /\ Without(ideal, k) \in Seq(Entry)
  <2>1. Without(entries, k) \in Seq(Entry)
    BY <1>2, Facts, Replace
  <2>2. Without(ideal, k) \in Seq(Entry)
    BY <1>2, Facts, Replace
  <2> QED BY <2>1, <2>2
<1>4. entries' = Append(Without(entries, k), e) /\ ideal' = Append(Without(ideal, k), e)
  BY <1>1 DEF Hit, Touch
<1> HIDE DEF e
<1>5. /\ entries' \in Seq(Entry) /\ Len(entries') = Len(entries) /\ Distinct(entries')
      /\ ideal' \in Seq(Entry) /\ Distinct(ideal')
  <2>1. /\ Append(Without(entries, k), e) \in Seq(Entry) /\ Distinct(Append(Without(entries, k), e))
        /\ Len(Append(Without(entries, k), e)) = Len(entries)
    BY <1>1, <1>2, Facts, Replace
  <2>2. Append(Without(ideal, k), e) \in Seq(Entry) /\ Distinct(Append(Without(ideal, k), e))
    BY <1>1, <1>2, Facts, Replace
  <2>3. Distinct(entries')
    BY <1>4, <2>1 DEF Distinct
  <2>4. Distinct(ideal')
    BY <1>4, <2>2 DEF Distinct
  <2> QED BY <1>4, <2>1, <2>2, <2>3, <2>4
<1>6. EndOf(entries', ideal')
  BY <1>1, <1>2, <1>3, <1>4, EndAppend
<1>7. \A i \in 1 .. Len(entries') : Aged(entries'[i])
  <2>1. \A i \in 1 .. Len(entries) : Aged(entries[i])
    BY FreshMeans DEF IInv
  <2>2. Aged(e)
    BY <1>2, <2>1 DEF e
  <2> QED BY <1>2, <1>4, <2>1, <2>2, Facts, AgedAfter
<1>8. TypeOK' /\ BoundedNoDuplicates' /\ Distinct(ideal)' /\ EvictsLeastRecentlyUsed'
  BY <1>5, <1>6, Facts, RememberType DEF Hit, callerVars, TypeOK, BoundedNoDuplicates, EvictsLeastRecentlyUsed, Distinct, EndOf
<1>9. \A d \in Callers : Pending(d)'
  BY FreshMeans DEF IInv, Hit, callerVars, Pending
<1>10. Fresh'
  BY <1>7, <1>9 DEF Fresh, Aged, Pending
<1> QED BY <1>8, <1>10 DEF IInv

LEMMA InvMiss == ASSUME IInv, NEW c \in Callers, NEW k \in Keys, Miss(c, k), Remember PROVE IInv'
<1>1. /\ entries' = Without(entries, k) /\ now' = now /\ asked' = asked /\ answer' = answer
      /\ pc' = [pc EXCEPT ![c] = "waiting"] /\ want' = [want EXCEPT ![c] = k]
      /\ ideal' = IF Has(entries, k) THEN Without(ideal, k) ELSE ideal
  BY DEF Miss
<1>2. /\ entries' \in Seq(Entry) /\ Len(entries') <= Len(entries) /\ Distinct(entries')
      /\ Len(entries) \in Nat /\ Len(entries') \in Nat
  <2>1. entries \in Seq(Entry) /\ Distinct(entries)
    BY Facts
  <2>2. /\ Without(entries, k) \in Seq(Entry) /\ Distinct(Without(entries, k))
        /\ Len(Without(entries, k)) = IF Has(entries, k) THEN Len(entries) - 1 ELSE Len(entries)
    BY <2>1, WithoutFacts
  <2>3. Len(entries) \in Nat /\ Len(Without(entries, k)) \in Nat
    BY <2>1, <2>2
  <2>4. Len(Without(entries, k)) <= Len(entries)
    BY <2>2, <2>3
  <2> QED BY <1>1, <2>2, <2>3, <2>4
<1>3. ideal' \in Seq(Entry) /\ Distinct(ideal')
  BY <1>1, Facts, WithoutFacts
<1>4. EndOf(entries', ideal')
  BY <1>1, Facts, EndWithout
<1>5. \A i \in 1 .. Len(entries') : Aged(entries'[i])
  <2>1. \A i \in 1 .. Len(entries) : Aged(entries[i])
    BY FreshMeans DEF IInv
  <2>2. CASE Has(entries, k)
    <3>1. /\ entries[At(entries, k)] \in Entry /\ entries[At(entries, k)].key = k
          /\ At(entries, k) \in 1 .. Len(entries)
      BY <2>2, Facts, AtFacts
    <3> QED BY <1>1, <2>1, <3>1, Facts, AgedAfter
  <2>3. CASE ~Has(entries, k)
    BY <1>1, <2>1, <2>3 DEF Without
  <2> QED BY <2>2, <2>3
<1>6. TypeOK' /\ BoundedNoDuplicates' /\ Distinct(ideal)' /\ EvictsLeastRecentlyUsed'
  BY <1>1, <1>2, <1>3, <1>4, Facts, RememberType DEF TypeOK, BoundedNoDuplicates, EvictsLeastRecentlyUsed, Distinct, EndOf
<1>7. \A d \in Callers : Pending(d)'
  BY <1>1, Facts, FreshMeans DEF IInv, Pending
<1>8. Fresh'
  BY <1>5, <1>7 DEF Fresh, Aged, Pending
<1> QED BY <1>6, <1>8 DEF IInv

\* A step that leaves both caches alone.
LEMMA InvAside ==
    ASSUME IInv, UNCHANGED <<entries, ideal>>, TypeOK', \A c \in Callers : Pending(c)'
    PROVE  IInv'
<1>1. Fresh'
  BY DEF IInv, Fresh, Pending
<1>2. BoundedNoDuplicates' /\ Distinct(ideal)' /\ EvictsLeastRecentlyUsed'
  BY DEF IInv, BoundedNoDuplicates, EvictsLeastRecentlyUsed, Distinct, EndOf
<1> QED BY <1>1, <1>2 DEF IInv

LEMMA InvStore == ASSUME IInv, NEW c \in Callers, Store(c), Remember PROVE IInv'
<1> DEFINE k == want[c]
           e == [key |-> k, body |-> answer[c].body, fetched |-> answer[c].fetched,
                 expires |-> now + Ttl[k]]
<1>1. /\ pc[c] = "storing" /\ pc' = [pc EXCEPT ![c] = "idle"]
      /\ answer' = [answer EXCEPT ![c] = NONE] /\ want' = [want EXCEPT ![c] = NONE]
      /\ now' = now /\ asked' = [asked EXCEPT ![c] = 0]
  BY DEF Store, Return
<1>2. \A d \in Callers : Pending(d)'
  BY <1>1, Facts, FreshMeans DEF IInv, Pending
<1>3. CASE Ttl[k] = 0
  <2>1. UNCHANGED <<entries, ideal>>
    BY <1>3 DEF Store
  <2>2. TypeOK'
    BY <1>1, <2>1, Facts, RememberType DEF TypeOK
  <2> QED BY <1>2, <2>1, <2>2, InvAside
<1>4. CASE Ttl[k] # 0
  <2>1. /\ entries' = Evict(Append(Without(entries, k), e))
        /\ ideal' = Append(Without(ideal, k), e)
    BY <1>4 DEF Store
  <2>2. k \in Keys /\ Ttl[k] \in Nat /\ answer[c] \in Answer
        /\ answer[c].fetched >= asked[c] /\ now <= asked[c] + Latency
    BY <1>1, Facts DEF IInv, Fresh
  <2>3. e \in Entry /\ e.key = k /\ e.expires = now + Ttl[k] /\ e.fetched = answer[c].fetched
    BY <2>2, Facts DEF Entry, Answer
  <2>4. Aged(e)
    <3>1. answer[c].fetched \in Nat /\ asked[c] \in Nat
      BY <2>2, Facts DEF Answer
    <3>2. e.expires = now + Ttl[k] /\ e.fetched = answer[c].fetched /\ Ttl[e.key] = Ttl[k]
      BY <2>3
    <3> HIDE DEF e, k
    <3> QED BY <2>2, <3>1, <3>2, Facts DEF Aged
  <2> HIDE DEF e, k
  <2>5. /\ Without(entries, k) \in Seq(Entry)
        /\ Append(Without(entries, k), e) \in Seq(Entry) /\ Distinct(Append(Without(entries, k), e))
    BY <2>2, <2>3, Facts, Replace
  <2>6. /\ Append(Without(ideal, k), e) \in Seq(Entry) /\ Distinct(Append(Without(ideal, k), e))
        /\ EndOf(Append(Without(entries, k), e), Append(Without(ideal, k), e))
    <3>1. /\ Without(ideal, k) \in Seq(Entry)
          /\ Append(Without(ideal, k), e) \in Seq(Entry) /\ Distinct(Append(Without(ideal, k), e))
      BY <2>2, <2>3, Facts, Replace
    <3>2. EndOf(Without(entries, k), Without(ideal, k))
      BY <2>2, Facts, EndWithout
    <3> QED BY <2>3, <2>5, <3>1, <3>2, EndAppend
  <2>7. \A i \in 1 .. Len(Append(Without(entries, k), e)) : Aged(Append(Without(entries, k), e)[i])
    <3>1. \A i \in 1 .. Len(entries) : Aged(entries[i])
      BY FreshMeans DEF IInv
    <3> QED BY <2>2, <2>3, <2>4, <3>1, Facts, AgedAfter
  <2> DEFINE full == Append(Without(entries, k), e)
  <2> HIDE DEF full
  <2>8. /\ entries' \in Seq(Entry) /\ Len(entries') <= MaxEntries /\ EndOf(entries', full)
        /\ Distinct(entries') /\ full \in Seq(Entry)
    BY <2>1, <2>5, EvictFacts DEF full
  <2>9. EndOf(entries', ideal') /\ ideal' \in Seq(Entry) /\ Distinct(ideal')
    <3>1. EndOf(full, ideal') /\ ideal' \in Seq(Entry) /\ Distinct(ideal')
      BY <2>1, <2>6 DEF full
    <3> QED BY <2>8, <3>1, EndTransitive
  <2>10. \A i \in 1 .. Len(entries') : Aged(entries'[i])
    <3>1. /\ Len(entries') <= Len(full) /\ Len(full) \in Nat /\ Len(entries') \in Nat
          /\ \A i \in 1 .. Len(entries') : entries'[i] = full[Len(full) - Len(entries') + i]
      BY <2>8 DEF EndOf
    <3>2. \A i \in 1 .. Len(entries') : Len(full) - Len(entries') + i \in 1 .. Len(full)
      BY <3>1
    <3>3. \A i \in 1 .. Len(full) : Aged(full[i])
      BY <2>7 DEF full
    <3> QED BY <3>1, <3>2, <3>3
  <2>11. TypeOK' /\ BoundedNoDuplicates' /\ Distinct(ideal)' /\ EvictsLeastRecentlyUsed'
    BY <1>1, <2>8, <2>9, Facts, RememberType
    DEF TypeOK, BoundedNoDuplicates, EvictsLeastRecentlyUsed, Distinct, EndOf
  <2>12. Fresh'
    BY <1>2, <2>10 DEF Fresh, Aged, Pending
  <2> QED BY <2>11, <2>12 DEF IInv
<1> QED BY <1>3, <1>4

LEMMA InvNext == IInv /\ [Next]_vars => IInv'
<1> SUFFICES ASSUME IInv, [Next]_vars PROVE IInv'
  OBVIOUS
<1>0. \A c \in Callers : Pending(c)
  BY FreshMeans DEF IInv
<1>1. CASE Tick /\ Remember
  <2>1. TypeOK'
    BY <1>1, Facts, RememberType DEF Tick, callerVars, TypeOK
  <2>2. \A c \in Callers : Pending(c)'
    BY <1>0, <1>1, Facts DEF Tick, callerVars, Pending
  <2> QED BY <1>1, <2>1, <2>2, InvAside DEF Tick
<1>2. ASSUME NEW c \in Callers, NEW k \in Keys, Hit(c, k), Remember PROVE IInv'
  BY <1>2, InvHit
<1>3. ASSUME NEW c \in Callers, NEW k \in Keys, Miss(c, k), Remember PROVE IInv'
  BY <1>3, InvMiss
<1>4. ASSUME NEW c \in Callers, Send(c), Remember PROVE IInv'
  <2>1. TypeOK'
    BY <1>4, Facts, RememberType DEF Send, TypeOK
  <2>2. \A d \in Callers : Pending(d)'
    BY <1>0, <1>4, Facts DEF Send, Pending
  <2> QED BY <1>4, <2>1, <2>2, InvAside DEF Send
<1>5. ASSUME NEW c \in Callers, Answered(c), Remember PROVE IInv'
  <2>1. PICK body \in Bodies : answer' = [answer EXCEPT ![c] = [body |-> body, fetched |-> now]]
    BY <1>5 DEF Answered
  <2>2. [body |-> body, fetched |-> now] \in Answer
    BY Facts DEF Answer
  <2>3. TypeOK'
    BY <1>5, <2>1, <2>2, Facts, RememberType DEF Answered, TypeOK
  <2>4. \A d \in Callers : Pending(d)'
    <3>1. answer'[c] = [body |-> body, fetched |-> now] /\ answer'[c] # NONE
      BY <2>1, <2>2, Facts
    <3>2. answer'[c].fetched = now /\ now \in Nat
      BY <3>1, Facts
    <3>3. Pending(c)'
      BY <1>0, <1>5, <3>1, <3>2, Facts DEF Answered, Pending
    <3>4. \A d \in Callers : d # c => Pending(d)'
      BY <1>0, <1>5, <2>1, Facts DEF Answered, Pending
    <3> QED BY <3>3, <3>4
  <2> QED BY <1>5, <2>3, <2>4, InvAside DEF Answered
<1>6. ASSUME NEW c \in Callers, Fails(c), Remember PROVE IInv'
  <2>1. TypeOK'
    BY <1>6, Facts, RememberType DEF Fails, Return, TypeOK
  <2>2. \A d \in Callers : Pending(d)'
    BY <1>0, <1>6, Facts DEF Fails, Return, Pending
  <2> QED BY <1>6, <2>1, <2>2, InvAside DEF Fails
<1>7. ASSUME NEW c \in Callers, Store(c), Remember PROVE IInv'
  BY <1>7, InvStore
<1>8. CASE UNCHANGED vars
  <2>1. TypeOK' /\ \A c \in Callers : Pending(c)'
    BY <1>0, <1>8, Facts DEF vars, callerVars, TypeOK, Pending
  <2> QED BY <1>8, <2>1, InvAside DEF vars
<1> QED BY <1>1, <1>2, <1>3, <1>4, <1>5, <1>6, <1>7, <1>8 DEF Next, Step

-----------------------------------------------------------------------------
\* The inductive invariant holds in every reachable state.
THEOREM Invariance == Spec => []IInv
<1>1. Init => IInv
  BY InvInit
<1>2. IInv /\ [Next]_vars => IInv'
  BY InvNext
<1> QED BY <1>1, <1>2, PTL DEF Spec

\* Every variable keeps the shape of what it stands for.
THEOREM TypeCorrect == Spec => []TypeOK
<1>1. IInv => TypeOK
  BY DEF IInv
<1> QED BY <1>1, Invariance, PTL

\* The cache never exceeds its bound and never holds a key twice.
THEOREM CacheStaysBounded == Spec => []BoundedNoDuplicates
<1>1. IInv => BoundedNoDuplicates
  BY DEF IInv
<1> QED BY <1>1, Invariance, PTL

\* What has been evicted was less recently used than all that is kept.
THEOREM EvictionIsLru == Spec => []EvictsLeastRecentlyUsed
<1>1. IInv => EvictsLeastRecentlyUsed
  BY DEF IInv
<1> QED BY <1>1, Invariance, PTL

\* A hit is never older than its lifetime plus one request.
THEOREM HitsAreFresh == Spec => HitIsFresh
<1>1. IInv /\ [Next]_vars =>
        [\A c \in Callers, k \in Keys :
           Hit(c, k) => now - entries[At(entries, k)].fetched < Ttl[k] + Latency]_vars
  <2> SUFFICES ASSUME IInv, NEW c \in Callers, NEW k \in Keys, Hit(c, k)
               PROVE  now - entries[At(entries, k)].fetched < Ttl[k] + Latency
    OBVIOUS
  <2> DEFINE e == entries[At(entries, k)]
  <2>1. Has(entries, k) /\ now < e.expires
    BY DEF Hit, Live
  <2>2. e \in Entry /\ e.key = k /\ At(entries, k) \in 1 .. Len(entries)
    BY <2>1, Facts, AtFacts
  <2>3. e.expires <= e.fetched + Latency + Ttl[e.key]
    BY <2>2 DEF IInv, Fresh
  <2>4. e.expires \in Nat /\ e.fetched \in Nat /\ now \in Nat /\ Ttl[k] \in Nat
    BY <2>2, Facts DEF Entry
  <2> HIDE DEF e
  <2>5. now - e.fetched < Ttl[k] + Latency
    BY <2>1, <2>2, <2>3, <2>4
  <2> QED BY <2>5 DEF e
<1> QED BY <1>1, Invariance, PTL DEF Spec, HitIsFresh

-----------------------------------------------------------------------------
(* Fetches in vain *)

\* A coroutine begins to wait only for a key that its lookup has removed.
LEMMA NewWaiters ==
    ASSUME IInv, NEW c \in Callers, NEW k \in Keys, Miss(c, k)
    PROVE  ~Live(entries, k)'
<1>1. entries' = Without(entries, k) /\ entries \in Seq(Entry) /\ Distinct(entries)
  BY Facts DEF Miss
<1>2. \A i \in 1 .. Len(Without(entries, k)) : Without(entries, k)[i].key # k
  BY <1>1, WithoutFacts
<1> QED BY <1>1, <1>2 DEF Live, Has

LEMMA FewNext ==
    ASSUME IInv, RefetchesAreFew, Next \/ UNCHANGED vars
    PROVE  RefetchesAreFew'
<1> SUFFICES ASSUME NEW c \in Callers, pc'[c] = "waiting" PROVE c \notin again'[want'[c]]
  BY DEF RefetchesAreFew
<1>0. want \in [Callers -> Keys \cup {NONE}] /\ pc \in [Callers -> {"idle", "waiting", "asking", "storing"}]
      /\ (pc[c] # "idle" => want[c] \in Keys)
  BY Facts DEF IInv, Fresh
<1>1. CASE UNCHANGED vars
  BY <1>1 DEF vars, callerVars, RefetchesAreFew
<1>2. CASE Next
  <2>1. CASE pc[c] = "waiting"
    <3>1. want'[c] = want[c] /\ want[c] \in Keys
      BY <1>0, <1>2, <2>1 DEF Next, Tick, Step, Hit, Miss, Send, Answered, Fails, Store, Return, callerVars
    <3>2. again'[want[c]] \subseteq again[want[c]] \cup {d \in Callers : pc'[d] = "asking"}
      BY <1>2, <3>1 DEF Next, Remember
    <3> QED BY <2>1, <3>1, <3>2 DEF RefetchesAreFew
  <2>2. CASE pc[c] # "waiting"
    <3>1. PICK k \in Keys : Miss(c, k)
      BY <1>0, <1>2, <2>2 DEF Next, Tick, Step, Hit, Miss, Send, Answered, Fails, Store, Return, callerVars
    <3>2. want'[c] = k
      BY <1>0, <3>1 DEF Miss
    <3>3. again'[k] = {}
      BY <1>2, <3>1, NewWaiters DEF Next, Remember
    <3> QED BY <3>2, <3>3
  <2> QED BY <2>1, <2>2
<1> QED BY <1>1, <1>2

\* While an answer is in the cache nobody asks for it twice, for any number of
\* coroutines and keys (CachedHttpClient._fetch_json).
THEOREM RefetchesStayFew == Spec => []RefetchesAreFew
<1>1. Init => RefetchesAreFew
  BY DEF Init, RefetchesAreFew
<1>2. IInv /\ RefetchesAreFew /\ [Next]_vars => RefetchesAreFew'
  BY FewNext
<1> QED BY <1>1, <1>2, Invariance, PTL DEF Spec

-----------------------------------------------------------------------------
(* One key's entry *)

\* What CacheEntry sees of an entry.
Seen(e) == [value |-> e.body, expires |-> e.expires]

\* A key's entry is the one at any position that has the key.
LEMMA KeptIs ==
    ASSUME NEW s \in Seq(Entry), Distinct(s), NEW k \in Keys
    PROVE  /\ \A i \in 1 .. Len(s) : s[i].key = k => KeptIn(s, k) = Seen(s[i])
           /\ (\A i \in 1 .. Len(s) : s[i].key # k) => KeptIn(s, k) = NONE
<1>1. ASSUME NEW i \in 1 .. Len(s), s[i].key = k PROVE KeptIn(s, k) = Seen(s[i])
  <2>1. Has(s, k) /\ i = At(s, k)
    BY <1>1, AtFacts DEF Has
  <2> QED BY <2>1 DEF KeptIn, Seen
<1> QED BY <1>1 DEF KeptIn, Has

\* dict.pop: only the entry that goes is gone.
LEMMA KeptWithout ==
    ASSUME NEW s \in Seq(Entry), Distinct(s), NEW j \in Keys, NEW k \in Keys
    PROVE  KeptIn(Without(s, j), k) = IF k = j THEN NONE ELSE KeptIn(s, k)
<1> DEFINE w == Without(s, j)
<1>1. /\ w \in Seq(Entry) /\ Len(w) = (IF Has(s, j) THEN Len(s) - 1 ELSE Len(s)) /\ Len(s) \in Nat
      /\ \A i \in 1 .. Len(w) : w[i] = IF Has(s, j) /\ i >= At(s, j) THEN s[i + 1] ELSE s[i]
      /\ Distinct(w) /\ \A i \in 1 .. Len(w) : w[i].key # j
  <2> HIDE KeyAssumption, SizeAssumption, ClockAssumption, ValueAssumption
  <2>1. Len(s) \in Nat
    OBVIOUS
  <2> QED BY <2>1, WithoutFacts
<1>2. Has(s, j) => At(s, j) \in 1 .. Len(s) /\ s[At(s, j)].key = j
  BY AtFacts
<1> HIDE DEF w
<1>3. CASE k = j
  BY <1>1, <1>3, KeptIs DEF w
<1>4. CASE k # j
  <2>1. CASE \E i \in 1 .. Len(s) : s[i].key = k
    <3>1. PICK i \in 1 .. Len(s) : s[i].key = k
      BY <2>1
    <3>2. \E x \in 1 .. Len(w) : w[x] = s[i]
      <4>1. CASE Has(s, j) /\ i > At(s, j)
        <5>1. i - 1 \in 1 .. Len(w) /\ i - 1 >= At(s, j) /\ (i - 1) + 1 = i
          BY <1>1, <1>2, <4>1
        <5>2. w[i - 1] = s[(i - 1) + 1]
          BY <1>1, <4>1, <5>1
        <5> QED BY <5>1, <5>2
      <4>2. CASE ~(Has(s, j) /\ i > At(s, j))
        <5>1. i \in 1 .. Len(w) /\ ~(Has(s, j) /\ i >= At(s, j))
          BY <1>1, <1>2, <1>4, <3>1, <4>2
        <5> QED BY <1>1, <5>1
      <4> QED BY <4>1, <4>2
    <3>3. KeptIn(w, k) = Seen(s[i]) /\ KeptIn(s, k) = Seen(s[i])
      BY <1>1, <3>1, <3>2, KeptIs
    <3> QED BY <1>4, <3>3 DEF w
  <2>2. CASE ~\E i \in 1 .. Len(s) : s[i].key = k
    <3>1. \A x \in 1 .. Len(w) : w[x].key # k
      <4> SUFFICES ASSUME NEW x \in 1 .. Len(w) PROVE w[x].key # k
        OBVIOUS
      <4>1. \E i \in 1 .. Len(s) : w[x] = s[i]
        <5>1. CASE Has(s, j) /\ x >= At(s, j)
          <6>1. x + 1 \in 1 .. Len(s) /\ w[x] = s[x + 1]
            BY <1>1, <5>1
          <6> QED BY <6>1
        <5>2. CASE ~(Has(s, j) /\ x >= At(s, j))
          <6>1. x \in 1 .. Len(s) /\ w[x] = s[x]
            BY <1>1, <5>2
          <6> QED BY <6>1
        <5> QED BY <5>1, <5>2
      <4> QED BY <2>2, <4>1
    <3>2. KeptIn(w, k) = NONE /\ KeptIn(s, k) = NONE
      BY <1>1, <2>2, <3>1, KeptIs
    <3> QED BY <1>4, <3>2 DEF w
  <2> QED BY <2>1, <2>2
<1> QED BY <1>3, <1>4

\* A new entry is its key's, and nobody else's.
LEMMA KeptAppend ==
    ASSUME NEW s \in Seq(Entry), Distinct(s), NEW e \in Entry,
           \A i \in 1 .. Len(s) : s[i].key # e.key, NEW k \in Keys
    PROVE  KeptIn(Append(s, e), k) = IF k = e.key THEN Seen(e) ELSE KeptIn(s, k)
<1> DEFINE a == Append(s, e)
<1>1. /\ a \in Seq(Entry) /\ Len(a) = Len(s) + 1 /\ Len(s) \in Nat
      /\ \A i \in 1 .. Len(s) : a[i] = s[i]
      /\ a[Len(s) + 1] = e /\ Distinct(a)
  BY AppendFacts
<1> HIDE DEF a
<1>2. \A i \in 1 .. Len(a) : i \in 1 .. Len(s) \/ i = Len(s) + 1
  BY <1>1
<1>3. Len(s) + 1 \in 1 .. Len(a) /\ \A i \in 1 .. Len(s) : i \in 1 .. Len(a)
  BY <1>1
<1>4. CASE k = e.key
  <2>1. a[Len(s) + 1].key = k
    BY <1>1, <1>4
  <2>2. KeptIn(a, k) = Seen(a[Len(s) + 1])
    BY <1>1, <1>3, <2>1, KeptIs
  <2>3. KeptIn(a, k) = Seen(e)
    BY <1>1, <2>2
  <2> QED BY <1>4, <2>3 DEF a
<1>5. CASE k # e.key
  <2>1. CASE \E i \in 1 .. Len(s) : s[i].key = k
    <3>1. PICK i \in 1 .. Len(s) : s[i].key = k
      BY <2>1
    <3>2. KeptIn(a, k) = Seen(s[i]) /\ KeptIn(s, k) = Seen(s[i])
      BY <1>1, <1>3, <3>1, KeptIs
    <3> QED BY <1>5, <3>2 DEF a
  <2>2. CASE ~\E i \in 1 .. Len(s) : s[i].key = k
    <3>1. KeptIn(a, k) = NONE /\ KeptIn(s, k) = NONE
      BY <1>1, <1>2, <1>5, <2>2, KeptIs
    <3> QED BY <1>5, <3>1 DEF a
  <2> QED BY <2>1, <2>2
<1> QED BY <1>4, <1>5

\* Eviction alters nothing that stays.
LEMMA KeptEvict ==
    ASSUME NEW s \in Seq(Entry), Distinct(s), NEW k \in Keys
    PROVE  KeptIn(Evict(s), k) \in {KeptIn(s, k), NONE}
<1> DEFINE v == Evict(s)
<1>1. v \in Seq(Entry) /\ EndOf(v, s) /\ Distinct(v) /\ Len(v) \in Nat /\ Len(s) \in Nat
  BY EvictFacts
<1> HIDE DEF v
<1>2. CASE \E i \in 1 .. Len(v) : v[i].key = k
  <2>1. PICK i \in 1 .. Len(v) : v[i].key = k
    BY <1>2
  <2>2. Len(s) - Len(v) + i \in 1 .. Len(s) /\ v[i] = s[Len(s) - Len(v) + i]
    BY <1>1, <2>1 DEF EndOf
  <2>3. KeptIn(v, k) = Seen(v[i]) /\ KeptIn(s, k) = Seen(v[i])
    BY <1>1, <2>1, <2>2, KeptIs
  <2> QED BY <2>3 DEF v
<1>3. CASE ~\E i \in 1 .. Len(v) : v[i].key = k
  <2>1. KeptIn(v, k) = NONE
    BY <1>1, <1>3, KeptIs
  <2> QED BY <2>1 DEF v
<1> QED BY <1>2, <1>3

\* Using an entry alters none.
LEMMA KeptTouch ==
    ASSUME NEW s \in Seq(Entry), Distinct(s), NEW j \in Keys, Has(s, j), NEW k \in Keys
    PROVE  KeptIn(Touch(s, j), k) = KeptIn(s, k)
<1> DEFINE w == Without(s, j)
           e == s[At(s, j)]
<1>1. /\ w \in Seq(Entry) /\ Distinct(w) /\ \A i \in 1 .. Len(w) : w[i].key # j
  <2> HIDE KeyAssumption, SizeAssumption, ClockAssumption, ValueAssumption
  <2> QED BY WithoutFacts
<1>2. At(s, j) \in 1 .. Len(s) /\ e \in Entry /\ e.key = j
  BY AtFacts
<1>3. KeptIn(s, j) = Seen(e)
  BY <1>2, KeptIs
<1>4. KeptIn(w, k) = IF k = j THEN NONE ELSE KeptIn(s, k)
  BY KeptWithout
<1>5. Touch(s, j) = Append(w, e)
  BY DEF Touch
<1> HIDE DEF w, e
<1>6. KeptIn(Append(w, e), k) = IF k = j THEN Seen(e) ELSE KeptIn(w, k)
  BY <1>1, <1>2, KeptAppend
<1> QED BY <1>3, <1>4, <1>5, <1>6

\* For every key the cache implements CacheEntry, step by step: a hit, a lookup or
\* a late answer for another key and an eviction neither prolong nor alter it.
THEOREM EveryEntryKeepsPromise ==
    ASSUME NEW k \in Keys
    PROVE  Spec => EntryPromise(k)
<1>1. Init => E(k)!Init
  <2> SUFFICES ASSUME Init PROVE E(k)!Init
    OBVIOUS
  <2>1. entries = <<>> /\ now = 0
    BY DEF Init
  <2>2. ~Has(entries, k)
    BY <2>1 DEF Has
  <2> QED BY <2>1, <2>2 DEF E!Init, KeptIn
<1>2. IInv /\ [Next]_vars => [E(k)!Next]_(E(k)!entryVars)
  <2> SUFFICES ASSUME IInv, [Next]_vars PROVE E(k)!Next \/ UNCHANGED E(k)!entryVars
    OBVIOUS
  <2>1. /\ entries \in Seq(Entry) /\ Distinct(entries)
        /\ want \in [Callers -> Keys \cup {NONE}] /\ answer \in [Callers -> Answer \cup {NONE}]
        /\ \A c \in Callers : pc[c] # "idle" => want[c] # NONE
        /\ \A c \in Callers : pc[c] = "storing" => answer[c] # NONE
        /\ now \in Nat
    BY Facts DEF IInv, Fresh
  <2>2. ASSUME KeptIn(entries', k) = KeptIn(entries, k), now' = now
        PROVE  UNCHANGED E(k)!entryVars
    BY <2>2 DEF E!entryVars
  <2>3. ASSUME KeptIn(entries', k) = NONE, now' = now PROVE E(k)!Next
    BY <2>3 DEF E!Next, E!Drop
  <2>4. ASSUME entries' = entries, now' = now PROVE UNCHANGED E(k)!entryVars
    BY <2>2, <2>4
  <2>5. ASSUME NEW c \in Callers, NEW j \in Keys, Hit(c, j)
        PROVE  UNCHANGED E(k)!entryVars
    <3>1. now' = now /\ entries' = Touch(entries, j) /\ Has(entries, j)
      BY <2>5 DEF Hit, Live
    <3>2. KeptIn(entries', k) = KeptIn(entries, k)
      BY <2>1, <3>1, KeptTouch
    <3> QED BY <2>2, <3>1, <3>2
  <2>6. ASSUME NEW c \in Callers, NEW j \in Keys, Miss(c, j)
        PROVE  E(k)!Next \/ UNCHANGED E(k)!entryVars
    <3>1. now' = now /\ entries' = Without(entries, j)
      BY <2>6 DEF Miss
    <3>2. KeptIn(entries', k) \in {NONE, KeptIn(entries, k)}
      BY <2>1, <3>1, KeptWithout
    <3> QED BY <2>2, <2>3, <3>1, <3>2
  <2>7. ASSUME NEW c \in Callers, Store(c)
        PROVE  E(k)!Next \/ UNCHANGED E(k)!entryVars
    <3> DEFINE j == want[c]
               e == [key |-> j, body |-> answer[c].body, fetched |-> answer[c].fetched,
                     expires |-> now + Ttl[j]]
               w == Without(entries, j)
    <3>1. /\ pc[c] = "storing" /\ now' = now
          /\ IF Ttl[j] = 0 THEN entries' = entries ELSE entries' = Evict(Append(w, e))
      BY <2>7 DEF Store
    <3>2. CASE Ttl[j] = 0
      BY <2>4, <3>1, <3>2
    <3>3. CASE Ttl[j] # 0
      <4>1. j \in Keys /\ answer[c] \in Answer
        BY <2>1, <3>1
      <4>2. e \in Entry /\ e.key = j /\ answer[c].body \in Bodies /\ e.body = answer[c].body
            /\ e.expires = now + Ttl[j]
        BY <2>1, <4>1 DEF Answer, Entry
      <4>3. /\ w \in Seq(Entry) /\ Distinct(w) /\ \A i \in 1 .. Len(w) : w[i].key # j
        <5> HIDE KeyAssumption, SizeAssumption, ClockAssumption, ValueAssumption
        <5> QED BY <2>1, <4>1, WithoutFacts
      <4>4. KeptIn(w, k) = IF k = j THEN NONE ELSE KeptIn(entries, k)
        BY <2>1, <4>1, KeptWithout
      <4> HIDE DEF w, e, j
      <4>5. /\ Append(w, e) \in Seq(Entry) /\ Distinct(Append(w, e))
            /\ KeptIn(Append(w, e), k) = IF k = j THEN Seen(e) ELSE KeptIn(w, k)
        BY <4>2, <4>3, AppendFacts, KeptAppend
      <4>6. KeptIn(entries', k) \in {KeptIn(Append(w, e), k), NONE}
        BY <3>1, <3>3, <4>5, KeptEvict
      <4>7. CASE KeptIn(entries', k) = NONE
        BY <2>3, <3>1, <4>7
      <4>8. CASE k # j /\ KeptIn(entries', k) = KeptIn(Append(w, e), k)
        BY <2>2, <3>1, <4>4, <4>5, <4>8
      <4>9. CASE k = j /\ KeptIn(entries', k) = KeptIn(Append(w, e), k)
        <5>1. KeptIn(entries', k) = [value |-> answer[c].body, expires |-> now + Ttl[k]]
          BY <4>2, <4>5, <4>9 DEF Seen
        <5> QED BY <3>1, <3>3, <4>2, <4>9, <5>1 DEF E!Next, E!Put
      <4> QED BY <4>6, <4>7, <4>8, <4>9
    <3> QED BY <3>2, <3>3
  <2>8. CASE Tick
    BY <2>8 DEF Tick, E!Next, E!Pass
  <2>9. ASSUME NEW c \in Callers, Send(c) \/ Answered(c) \/ Fails(c) PROVE UNCHANGED E(k)!entryVars
    BY <2>4, <2>9 DEF Send, Answered, Fails
  <2>10. CASE UNCHANGED vars
    BY <2>4, <2>10 DEF vars
  <2> QED BY <2>5, <2>6, <2>7, <2>8, <2>9, <2>10 DEF Next, Step
<1> QED BY <1>1, <1>2, Invariance, PTL DEF Spec, EntryPromise, E!Spec
=============================================================================
