------------------------ MODULE MakeoverBatch_proofs ------------------------
(***************************************************************************)
(* Theorems about MakeoverBatch for any number of businesses, any poll     *)
(* interval and deadline, any latency and any behaviour of the service.    *)
(***************************************************************************)
EXTENDS MakeoverBatch, SequenceTheorems, TLAPS

USE BusinessAssumption, PollAssumption

\* An element of a sequence over a set is in the set.
LEMMA ElementFact ==
    ASSUME NEW S, NEW s \in Seq(S), NEW k \in 1 .. Len(s)
    PROVE  s[k] \in S
OBVIOUS

USE DEF Businesses, Ended, Statuses, JobStates, Polling, Stages, Results, Current, timing

LEMMA InvInit == Init => IInv
BY DEF Init, IInv, TypeOK, ResultsMatchJobs, PollingIsBounded, Waiting, Answer

\* The results after one more has been recorded.
LEMMA AppendFacts ==
    ASSUME NEW r \in Results, results \in Seq(Results), results' = Append(results, r)
    PROVE  /\ results' \in Seq(Results)
           /\ Len(results) \in Nat
           /\ Len(results') = Len(results) + 1
           /\ \A i \in 1 .. Len(results) : results'[i] = results[i]
           /\ results'[Len(results) + 1] = r
BY SMT

\* A step that records a result which agrees with the current job.
LEMMA InvRecord ==
    ASSUME IInv, NEW o, NEW e, [outcome |-> o, error |-> e] \in Results, Record(o, e),
           Current <= N,
           jobs' \in [Businesses -> JobStates],
           \A i \in Businesses : i # Current => jobs'[i] = jobs[i],
           Agrees([outcome |-> o, error |-> e], jobs'[Current])
    PROVE  IInv'
<1> DEFINE r == [outcome |-> o, error |-> e]
<1>1. /\ results \in Seq(Results) /\ Len(results) <= N /\ saved \in 0 .. Len(results)
      /\ results' = Append(results, r)
  BY DEF IInv, TypeOK, Record
<1>2. /\ results' \in Seq(Results) /\ Len(results) \in Nat /\ Len(results') = Len(results) + 1
      /\ \A i \in 1 .. Len(results) : results'[i] = results[i]
      /\ results'[Len(results) + 1] = r
  BY <1>1, AppendFacts
<1>3. TypeOK'
  BY <1>1, <1>2 DEF TypeOK, Record, FreshPoll
<1>4. ResultsMatchJobs'
  <2>1. \A i \in 1 .. Len(results') : Agrees(results'[i], jobs'[i])
    BY <1>1, <1>2 DEF IInv, ResultsMatchJobs
  <2>2. \A i \in Businesses : i > Len(results') + 1 => jobs'[i] = "none"
    BY <1>1, <1>2 DEF IInv, ResultsMatchJobs
  <2> QED BY <2>1, <2>2 DEF ResultsMatchJobs, Agrees
<1>5. stage' \in {"save", "brief"} /\ (stage' = "brief" => Len(results) + 1 # N)
  BY DEF Record
<1>6. PollingIsBounded' /\ Waiting'
  BY <1>5 DEF PollingIsBounded, Waiting
<1>7. Answer'
  BY <1>1, <1>2, <1>5 DEF IInv, ResultsMatchJobs, Answer
<1> QED BY <1>3, <1>4, <1>6, <1>7 DEF IInv

LEMMA InvNext == IInv /\ [Next]_vars => IInv'
<1> SUFFICES ASSUME IInv, [Next]_vars PROVE IInv'
  OBVIOUS
<1> USE DEF IInv
<1>0. /\ results \in Seq(Results) /\ Len(results) \in Nat /\ Len(results) <= N
      /\ saved \in 0 .. Len(results) /\ jobs \in [Businesses -> JobStates]
      /\ left \in Int /\ spent \in Nat /\ margin \in Int /\ seen \in Statuses
  BY DEF TypeOK
<1>1. ASSUME Abort PROVE IInv'
  <2>1. TypeOK' /\ ResultsMatchJobs'
    BY <1>0, <1>1 DEF Abort, FreshPoll, TypeOK, ResultsMatchJobs, Agrees
  <2>2. PollingIsBounded' /\ Waiting' /\ Answer'
    BY <1>1 DEF Abort, PollingIsBounded, Waiting, Answer
  <2> QED BY <2>1, <2>2
<1>2. ASSUME Discover PROVE IInv'
  <2>1. CASE Abort
    BY <1>1, <2>1
  <2>2. CASE stage' = (IF N = 0 THEN "save" ELSE "brief") /\ UNCHANGED <<results, saved, jobs, seen, timing>>
    <3>1. TypeOK' /\ ResultsMatchJobs'
      BY <1>0, <2>2 DEF TypeOK, ResultsMatchJobs, Agrees
    <3>2. PollingIsBounded' /\ Waiting'
      BY <2>2 DEF PollingIsBounded, Waiting
    <3>3. Answer'
      BY <1>0, <1>2, <2>2 DEF Answer, Discover
    <3> QED BY <3>1, <3>2, <3>3
  <2> QED BY <1>2, <2>1, <2>2 DEF Discover
<1>3. ASSUME Brief PROVE IInv'
  <2>1. CASE Abort
    BY <1>1, <2>1
  <2>2. CASE Record("brief_failed", "brief") /\ UNCHANGED jobs
    <3>1. Current <= N /\ jobs[Current] = "none"
      BY <1>3 DEF Brief, Answer
    <3>2. Agrees([outcome |-> "brief_failed", error |-> "brief"], jobs'[Current])
      BY <3>1, <2>2 DEF Agrees
    <3> QED BY <1>0, <2>2, <3>1, <3>2, InvRecord
  <2>3. CASE stage' = "submit" /\ UNCHANGED <<results, saved, jobs, seen, timing>>
    <3>1. TypeOK' /\ ResultsMatchJobs'
      BY <1>0, <2>3 DEF TypeOK, ResultsMatchJobs, Agrees
    <3>2. PollingIsBounded' /\ Waiting'
      BY <2>3 DEF PollingIsBounded, Waiting
    <3>3. Answer'
      BY <1>0, <1>3, <2>3 DEF Answer, Brief
    <3> QED BY <3>1, <3>2, <3>3
  <2> QED BY <1>3, <2>1, <2>2, <2>3 DEF Brief
<1>4. ASSUME Unrenderable PROVE IInv'
  <2>1. Current <= N /\ jobs[Current] = "none"
    BY <1>4 DEF Unrenderable, Answer
  <2>2. Agrees([outcome |-> "render_failed", error |-> "unrenderable"], jobs'[Current])
    BY <1>4, <2>1 DEF Agrees, Unrenderable
  <2> QED BY <1>0, <1>4, <2>1, <2>2, InvRecord DEF Unrenderable
<1>5. ASSUME SubmitFails PROVE IInv'
  <2>1. CASE Abort
    BY <1>1, <2>1
  <2>2. CASE Record("render_failed", "upstream")
             /\ (UNCHANGED jobs \/ jobs' = [jobs EXCEPT ![Current] = "queued"])
    <3>1. Current <= N
      BY <1>5 DEF SubmitFails, Answer
    <3>2. Agrees([outcome |-> "render_failed", error |-> "upstream"], jobs'[Current])
      BY DEF Agrees
    <3>3. /\ jobs' \in [Businesses -> JobStates]
          /\ \A i \in Businesses : i # Current => jobs'[i] = jobs[i]
      BY <1>0, <2>2
    <3> QED BY <2>2, <3>1, <3>2, <3>3, InvRecord
  <2> QED BY <1>5, <2>1, <2>2 DEF SubmitFails
<1>6. ASSUME Submit PROVE IInv'
  <2>1. Current <= N
    BY <1>6 DEF Submit, Answer
  <2>2. /\ jobs' \in [Businesses -> JobStates] /\ jobs'[Current] = "queued"
        /\ \A i \in Businesses : i # Current => jobs'[i] = jobs[i]
    BY <1>0, <1>6, <2>1 DEF Submit
  <2>3. TypeOK'
    BY <1>0, <1>6, <2>2 DEF TypeOK, Submit, FreshPoll
  <2>4. ResultsMatchJobs'
    BY <1>0, <1>6, <2>2 DEF ResultsMatchJobs, Agrees, Submit
  <2>5. PollingIsBounded' /\ Waiting'
    BY <1>6 DEF PollingIsBounded, Waiting, Submit, FreshPoll
  <2>6. Answer'
    BY <1>6, <2>1, <2>2 DEF Answer, Submit, FreshPoll
  <2> QED BY <2>3, <2>4, <2>5, <2>6
<1>7. ASSUME Read PROVE IInv'
  <2>1. TypeOK' /\ ResultsMatchJobs'
    BY <1>0, <1>7 DEF TypeOK, ResultsMatchJobs, Agrees, Read
  <2>2. PollingIsBounded' /\ Waiting'
    BY <1>7 DEF PollingIsBounded, Waiting, Read
  <2>3. Answer'
    BY <1>0, <1>7 DEF Answer, Read
  <2> QED BY <2>1, <2>2, <2>3
<1>8. ASSUME PollFails PROVE IInv'
  <2>1. Current <= N
    BY <1>8 DEF PollFails, Answer
  <2>2. Agrees([outcome |-> "render_failed", error |-> "upstream"], jobs'[Current])
    BY DEF Agrees
  <2> QED BY <1>0, <1>8, <2>1, <2>2, InvRecord DEF PollFails
<1>9. ASSUME PollNotFound PROVE IInv'
  BY <1>1, <1>9 DEF PollNotFound
<1>10. ASSUME Finish PROVE IInv'
  <2>1. Current <= N /\ jobs[Current] \in {seen, "lost"} /\ seen \in Ended
    BY <1>10 DEF Finish, Answer
  <2>2. CASE seen = "succeeded"
    <3>1. Agrees([outcome |-> "rendered", error |-> "none"], jobs'[Current])
      BY <1>10, <2>1, <2>2 DEF Agrees, Finish
    <3> QED BY <1>0, <1>10, <2>1, <2>2, <3>1, InvRecord DEF Finish
  <2>3. CASE seen # "succeeded"
    <3>1. Agrees([outcome |-> "render_failed", error |-> "job"], jobs'[Current])
      BY <1>10, <2>1, <2>3 DEF Agrees, Finish
    <3> QED BY <1>0, <1>10, <2>1, <2>3, <3>1, InvRecord DEF Finish
  <2> QED BY <2>2, <2>3
<1>11. ASSUME GiveUp PROVE IInv'
  <2>1. Current <= N /\ jobs[Current] # "none"
    BY <1>11 DEF GiveUp, Answer
  <2>2. Agrees([outcome |-> "render_failed", error |-> "timeout"], jobs'[Current])
    BY DEF Agrees
  <2> QED BY <1>0, <1>11, <2>1, <2>2, InvRecord DEF GiveUp
<1>12. ASSUME SleepOn PROVE IInv'
  <2>1. TypeOK' /\ ResultsMatchJobs'
    BY <1>0, <1>12 DEF TypeOK, ResultsMatchJobs, Agrees, SleepOn
  <2>2. PollingIsBounded' /\ Waiting'
    BY <1>0, <1>12 DEF PollingIsBounded, Waiting, SleepOn
  <2>3. Answer'
    BY <1>0, <1>12 DEF Answer, SleepOn
  <2> QED BY <2>1, <2>2, <2>3
<1>13. ASSUME Wake PROVE IInv'
  <2>1. TypeOK' /\ ResultsMatchJobs'
    BY <1>0, <1>13 DEF TypeOK, ResultsMatchJobs, Agrees, Wake
  <2>2. PollingIsBounded' /\ Waiting'
    BY <1>0, <1>13 DEF PollingIsBounded, Waiting, Wake
  <2>3. Answer'
    BY <1>0, <1>13 DEF Answer, Wake
  <2> QED BY <2>1, <2>2, <2>3
<1>14. ASSUME Save PROVE IInv'
  <2>1. CASE Abort
    BY <1>1, <2>1
  <2>2. CASE saved' = saved + 1 /\ UNCHANGED <<stage, results, jobs, seen, timing>>
    <3>1. TypeOK' /\ ResultsMatchJobs'
      BY <1>0, <1>14, <2>2 DEF TypeOK, ResultsMatchJobs, Agrees, Save
    <3>2. PollingIsBounded' /\ Waiting' /\ Answer'
      BY <2>2 DEF PollingIsBounded, Waiting, Answer
    <3> QED BY <3>1, <3>2
  <2> QED BY <1>14, <2>1, <2>2 DEF Save
<1>15. ASSUME End PROVE IInv'
  <2>1. TypeOK' /\ ResultsMatchJobs'
    BY <1>0, <1>15 DEF TypeOK, ResultsMatchJobs, Agrees, End
  <2>2. PollingIsBounded' /\ Waiting' /\ Answer'
    BY <1>15 DEF PollingIsBounded, Waiting, Answer, End
  <2> QED BY <2>1, <2>2
<1>16. ASSUME Tick PROVE IInv'
  <2>1. TypeOK' /\ ResultsMatchJobs'
    BY <1>0, <1>16 DEF TypeOK, ResultsMatchJobs, Agrees, Tick
  <2>2. Waiting'
    BY <1>0, <1>16 DEF Waiting, Tick
  <2>3. PollingIsBounded'
    BY <1>0, <1>16, <2>1, <2>2 DEF PollingIsBounded, Waiting, Tick, TypeOK
  <2>4. Answer'
    BY <1>0, <1>16 DEF Answer, Tick
  <2> QED BY <2>1, <2>2, <2>3, <2>4
<1>17. ASSUME NEW i \in Businesses, Start(i) \/ Stop(i) \/ Forget(i),
              UNCHANGED <<stage, results, saved, seen, left, spent>>
       PROVE  IInv'
  <2>1. /\ jobs' \in [Businesses -> JobStates]
        /\ \A k \in Businesses : k # i => jobs'[k] = jobs[k]
        /\ margin' \in Int
    BY <1>0, <1>17 DEF Start, Stop, Forget
  <2>2. /\ jobs[i] \in Statuses
        /\ jobs[i] \in Ended => jobs'[i] = "lost"
        /\ jobs'[i] \in {"running", "succeeded", "failed", "cancelled", "lost"}
        /\ jobs'[i] = "running" => jobs[i] = "queued"
    BY <1>0, <1>17 DEF Start, Stop, Forget
  <2>3. TypeOK'
    BY <1>0, <1>17, <2>1 DEF TypeOK
  <2>4. ResultsMatchJobs'
    <3>1. \A k \in 1 .. Len(results) : Agrees(results[k], jobs'[k])
      <4> SUFFICES ASSUME NEW k \in 1 .. Len(results) PROVE Agrees(results[k], jobs'[k])
        OBVIOUS
      <4>1. Agrees(results[k], jobs[k]) /\ k \in Businesses
        BY <1>0 DEF ResultsMatchJobs
      <4>2. results[k] \in Results
        BY <1>0, ElementFact
      <4>3. CASE k # i
        BY <2>1, <4>1, <4>3
      <4>4. CASE k = i
        BY <2>2, <4>1, <4>2, <4>4 DEF Agrees
      <4> QED BY <4>3, <4>4
    <3>2. \A k \in Businesses : k > Current => jobs'[k] = "none"
      BY <1>0, <2>1, <2>2 DEF ResultsMatchJobs
    <3> QED BY <1>17, <3>1, <3>2 DEF ResultsMatchJobs, Agrees
  <2>5. PollingIsBounded' /\ Waiting'
    BY <1>17 DEF PollingIsBounded, Waiting
  <2>6. Answer'
    <3>1. stage \in Polling => jobs'[Current] # "none" /\ jobs'[Current] \in JobStates
      BY <1>0, <2>1, <2>2 DEF Answer
    <3>2. stage \in Polling /\ jobs'[Current] \in {"queued", "running"} => margin' = 0
      BY <1>0, <1>17, <2>1, <2>2 DEF Answer, Start, Stop, Forget
    <3>3. stage = "answered" /\ seen \in Ended => jobs'[Current] \in {seen, "lost"}
      BY <1>0, <2>1, <2>2 DEF Answer
    <3>4. stage = "answered" /\ seen \notin Ended => margin' = 0 \/ margin' <= left + spent
      BY <1>0, <1>17 DEF Answer, Start, Stop, Forget
    <3>5. stage \in {"discover", "brief", "submit"} /\ Current <= N => jobs'[Current] = "none"
      BY <1>0, <2>1, <2>2 DEF Answer
    <3> QED BY <1>17, <3>1, <3>2, <3>3, <3>4, <3>5 DEF Answer
  <2> QED BY <2>3, <2>4, <2>5, <2>6
<1>18. CASE UNCHANGED vars
  BY <1>18 DEF vars, TypeOK, ResultsMatchJobs, Agrees, PollingIsBounded, Waiting, Answer
<1> QED
  BY <1>2, <1>3, <1>4, <1>5, <1>6, <1>7, <1>8, <1>9, <1>10, <1>11, <1>12, <1>13, <1>14,
     <1>15, <1>16, <1>17, <1>18 DEF Next, Proceed, Service

-----------------------------------------------------------------------------
\* The inductive invariant holds in every reachable state.
THEOREM Invariance == Spec => []IInv
<1>1. Init => IInv
  BY InvInit
<1>2. IInv /\ [Next]_vars => IInv'
  BY InvNext
<1> QED BY <1>1, <1>2, PTL DEF Spec

\* Every variable keeps the shape of what it stands for.
THEOREM TypeCorrect == Spec => []TypeOK
<1>1. IInv => TypeOK
  BY DEF IInv
<1> QED BY <1>1, Invariance, PTL

\* Every result tells the truth about its render job, for any batch.
THEOREM ResultsAlwaysMatchJobs == Spec => []ResultsMatchJobs
<1>1. IInv => ResultsMatchJobs
  BY DEF IInv
<1> QED BY <1>1, Invariance, PTL

\* No job is polled past its deadline by more than an interval and a request.
THEOREM PollingAlwaysBounded == Spec => []PollingIsBounded
<1>1. IInv => PollingIsBounded
  BY DEF IInv
<1> QED BY <1>1, Invariance, PTL

\* A job that ended more than one request before the deadline is not timed out.
THEOREM NeverPrematureTimeout == Spec => NoPrematureTimeout
<1>1. IInv /\ [Next]_vars => [TimesOut => margin <= Latency]_vars
  <2> SUFFICES ASSUME IInv, Next, TimesOut PROVE margin <= Latency
    OBVIOUS
  <2>1. /\ results \in Seq(Results) /\ Len(results) \in Nat
        /\ left \in Int /\ spent \in Nat /\ margin \in Int
    BY DEF IInv, TypeOK
  <2>2. ASSUME NEW o, NEW e, Record(o, e) PROVE e = "timeout"
    <3>1. results' = Append(results, [outcome |-> o, error |-> e])
      BY <2>2 DEF Record
    <3> QED BY <2>1, <3>1 DEF TimesOut
  <2>3. ASSUME results' = results PROVE FALSE
    BY <2>1, <2>3 DEF TimesOut
  <2>4. GiveUp
    BY <2>2, <2>3 DEF Next, Proceed, Tick, Service, Discover, Abort, Brief, Unrenderable,
         SubmitFails, Submit, Read, PollFails, PollNotFound, Finish, SleepOn, Wake, Save, End
  <2> QED BY <2>1, <2>4 DEF GiveUp, IInv, Answer, Waiting
<1> QED BY <1>1, Invariance, PTL DEF Spec, NoPrematureTimeout

-----------------------------------------------------------------------------
(* The batch runs out of steps *)

Working == Polling \cup {"brief", "submit"}

\* Businesses to come add up.
LEMMA OneMoreBusiness ==
    ASSUME NEW n \in Nat, NEW w \in Nat
    PROVE  n * w \in Nat /\ (n + 1) * w = n * w + w
BY SMT

LEMMA MaxRankFacts == MaxRank \in Nat /\ MaxRank >= 4 * (PollTimeout + PollInterval + Latency) + 4
BY DEF MaxRank

\* While the batch works on a business, what is left of it is a natural number,
\* although the deadline may have passed.
LEMMA RankFacts ==
    ASSUME IInv, stage \in Working
    PROVE  Rank \in Nat /\ N - Current \in Nat /\ Len(results) \in Nat /\ saved \in 0 .. Len(results)
<1>1. /\ left \in Int /\ spent \in Nat /\ Len(results) \in Nat /\ Current <= N
      /\ saved \in 0 .. Len(results)
      /\ stage \in Polling => left > -(PollInterval + Latency)
  BY DEF IInv, TypeOK, Answer, PollingIsBounded, Working
<1>2. Rank \in Nat
  <2>1. CASE stage = "brief"
    BY <2>1, MaxRankFacts DEF Rank
  <2>2. CASE stage = "submit"
    BY <2>2, MaxRankFacts DEF Rank
  <2>3. CASE stage \in Polling
    <3>1. Over \in Nat
      BY <1>1, <2>3 DEF Over
    <3> QED BY <2>3, <3>1 DEF Rank
  <2> QED BY <2>1, <2>2, <2>3 DEF Working
<1> QED BY <1>1, <1>2

\* A recorded result takes a whole business off what is left.
LEMMA RecordNearer ==
    ASSUME IInv, stage \in Working, NEW o, NEW e, Record(o, e)
    PROVE  StepsLeft' < StepsLeft
<1> DEFINE W == MaxRank + 1
           M == N - Current
<1>1. /\ Rank \in Nat /\ M \in Nat /\ Len(results) \in Nat /\ saved \in 0 .. Len(results)
      /\ MaxRank \in Nat /\ W \in Nat
  BY RankFacts, MaxRankFacts
<1>2. results' = Append(results, [outcome |-> o, error |-> e]) /\ results \in Seq(Results)
  BY DEF Record, IInv, TypeOK
<1>3. Len(results') = Len(results) + 1
  BY <1>2
<1>4. StepsLeft = M * W + Rank + N + 2
  BY DEF StepsLeft, Working
<1>5. CASE Current = N
  <2>1. stage' = "save" /\ saved' = saved
    BY <1>5 DEF Record
  <2>2. StepsLeft' = Len(results') - saved + 1
    BY <2>1 DEF StepsLeft
  <2>3. M = 0 /\ M * W \in Nat
    BY <1>1, <1>5, OneMoreBusiness
  <2> HIDE DEF W, M
  <2> QED BY <1>1, <1>3, <1>4, <1>5, <2>2, <2>3
<1>6. CASE Current # N
  <2>1. stage' = "brief"
    BY <1>6 DEF Record
  <2>2. StepsLeft' = (N - (Len(results') + 1)) * W + Rank' + N + 2 /\ Rank' = MaxRank
    BY <2>1 DEF StepsLeft, Rank
  <2>3. M - 1 \in Nat /\ N - (Len(results') + 1) = M - 1 /\ M = (M - 1) + 1
    BY <1>1, <1>3, <1>6
  <2>4. (M - 1) * W \in Nat /\ M * W = (M - 1) * W + W
    BY ONLY <1>1, <2>3, OneMoreBusiness, Zenon
  <2>5. StepsLeft' = (M - 1) * W + MaxRank + N + 2
    BY <2>2, <2>3
  <2>6. W = MaxRank + 1 /\ N \in Nat
    OBVIOUS
  <2> HIDE DEF W, M
  <2>7. \A x, y, r, t \in Nat :
           y = x + W => x + MaxRank + t + 2 < y + r + t + 2
    BY ONLY <1>1, <2>6
  <2>8. M * W \in Nat
    BY ONLY <1>1, <2>3, <2>4
  <2>9. (M - 1) * W + MaxRank + N + 2 < M * W + Rank + N + 2
    BY ONLY <1>1, <2>4, <2>6, <2>7, <2>8, ZenonT(60)
  <2> QED BY ONLY <1>4, <2>5, <2>9, Zenon
<1> QED BY <1>5, <1>6

\* A step within a business brings it nearer to its result.
LEMMA RankNearer ==
    ASSUME IInv, stage \in Working, stage' \in Working, Len(results') = Len(results),
           Rank' \in Int, Rank' < Rank
    PROVE  StepsLeft' < StepsLeft
<1> DEFINE K == (N - Current) * (MaxRank + 1)
<1>1. Rank \in Nat /\ K \in Nat
  BY RankFacts, MaxRankFacts, OneMoreBusiness
<1>2. StepsLeft = K + Rank + N + 2
  BY DEF StepsLeft, Working
<1>3. StepsLeft' = K + Rank' + N + 2
  BY DEF StepsLeft, Working
<1>4. Rank' \in Int /\ Rank' < Rank /\ N \in Nat
  OBVIOUS
<1> HIDE DEF K
<1>5. \A k, x, m \in Nat, y \in Int : y < x => k + y + m + 2 < k + x + m + 2
  OBVIOUS
<1>6. K + Rank' + N + 2 < K + Rank + N + 2
  BY ONLY <1>1, <1>4, <1>5, Zenon
<1> QED BY ONLY <1>2, <1>3, <1>6, Zenon

\* Until the batch is over there is something left to do.
LEMMA StepsLeftFacts ==
    ASSUME IInv
    PROVE  /\ StepsLeft \in Nat
           /\ stage \notin {"done", "aborted"} => StepsLeft > 0
<1>1. stage \in Stages /\ Len(results) \in Nat /\ saved \in 0 .. Len(results)
  BY DEF IInv, TypeOK
<1>2. CASE stage = "discover"
  <2>1. N * (MaxRank + 1) \in Nat
    BY MaxRankFacts, OneMoreBusiness
  <2> QED BY <1>2, <2>1 DEF StepsLeft, MostSteps
<1>3. CASE stage \in Working
  <2>1. StepsLeft = (N - Current) * (MaxRank + 1) + Rank + N + 2
    BY <1>3 DEF StepsLeft, Working
  <2>2. (N - Current) * (MaxRank + 1) \in Nat /\ Rank \in Nat
    BY <1>3, RankFacts, MaxRankFacts, OneMoreBusiness
  <2> QED BY <2>1, <2>2
<1>4. CASE stage \in {"save", "done", "aborted"}
  BY <1>1, <1>4 DEF StepsLeft
<1> QED BY <1>1, <1>2, <1>3, <1>4 DEF Working

LEMMA StepsLeftType == IInv => StepsLeft \in Nat
BY StepsLeftFacts

\* Every step but the service's brings the end nearer.
LEMMA ProceedNearer == ASSUME IInv, Proceed PROVE StepsLeft' < StepsLeft
<1>0. /\ Len(results) \in Nat /\ saved \in 0 .. Len(results) /\ StepsLeft \in Nat
      /\ stage \notin {"done", "aborted"} => StepsLeft > 0
      /\ left \in Int /\ spent \in Nat
  BY StepsLeftFacts DEF IInv, TypeOK
<1>1. ASSUME Abort, stage \notin {"done", "aborted"} PROVE StepsLeft' < StepsLeft
  <2>1. StepsLeft' = 0
    BY <1>1 DEF Abort, StepsLeft
  <2> QED BY <1>0, <1>1, <2>1
<1>2. CASE Discover
  <2>1. CASE Abort
    BY <1>1, <1>2, <2>1 DEF Discover
  <2>2. CASE stage' = (IF N = 0 THEN "save" ELSE "brief") /\ UNCHANGED <<results, saved, jobs, seen, timing>>
    <3>1. results = <<>> /\ Len(results) = 0 /\ saved = 0 /\ Current = 1
      BY <1>0, <1>2 DEF Discover, IInv, Answer
    <3>2. StepsLeft = N * (MaxRank + 1) + N + 3
      BY <1>2 DEF Discover, StepsLeft, MostSteps
    <3>3. N * (MaxRank + 1) \in Nat
      BY MaxRankFacts, OneMoreBusiness
    <3>4. CASE N = 0
      <4>1. StepsLeft' = 1
        BY <2>2, <3>1, <3>4 DEF StepsLeft
      <4> QED BY <3>2, <3>3, <4>1
    <3>5. CASE N # 0
      <4>1. StepsLeft' = (N - 1) * (MaxRank + 1) + MaxRank + N + 2
        BY <2>2, <3>1, <3>5 DEF StepsLeft, Rank
      <4>2. N - 1 \in Nat /\ N = (N - 1) + 1 /\ MaxRank \in Nat /\ MaxRank + 1 \in Nat
        BY <3>5, MaxRankFacts
      <4>3. /\ (N - 1) * (MaxRank + 1) \in Nat
            /\ N * (MaxRank + 1) = (N - 1) * (MaxRank + 1) + (MaxRank + 1)
        BY ONLY <4>2, OneMoreBusiness, Zenon
      <4> QED BY ONLY <3>2, <3>3, <4>1, <4>2, <4>3, BusinessAssumption
    <3> QED BY <3>4, <3>5
  <2> QED BY <1>2, <2>1, <2>2 DEF Discover
<1>3. CASE Brief
  <2>1. CASE Abort
    BY <1>1, <1>3, <2>1 DEF Brief
  <2>2. CASE Record("brief_failed", "brief")
    BY <1>3, <2>2, RecordNearer DEF Brief, Working
  <2>3. CASE stage' = "submit" /\ UNCHANGED <<results, saved, jobs, seen, timing>>
    <3>1. Rank = MaxRank /\ Rank' = MaxRank - 1
      BY <1>3, <2>3 DEF Brief, Rank
    <3> QED BY <1>3, <2>3, <3>1, MaxRankFacts, RankNearer DEF Brief, Working
  <2> QED BY <1>3, <2>1, <2>2, <2>3 DEF Brief
<1>4. CASE Unrenderable \/ PollFails \/ Finish \/ GiveUp
  <2>1. stage \in Working /\ \E o, e : Record(o, e)
    BY <1>4 DEF Unrenderable, PollFails, Finish, GiveUp, Working
  <2> QED BY <2>1, RecordNearer
<1>5. CASE SubmitFails
  BY <1>1, <1>5, RecordNearer DEF SubmitFails, Working
<1>6. CASE Submit
  <2>1. Rank = MaxRank - 1 /\ Rank' = 4 * Over' + 2
    BY <1>6 DEF Submit, Rank
  <2>2. Over' = PollTimeout + PollInterval + Latency
    BY <1>6 DEF Submit, Over, FreshPoll
  <2> QED BY <1>6, <2>1, <2>2, MaxRankFacts, RankNearer DEF Submit, Working
<1>7. CASE Read
  <2>1. Rank = 4 * Over + 2 /\ Rank' = 4 * Over + 1 /\ Over \in Int
    BY <1>0, <1>7 DEF Read, Rank, Over
  <2> QED BY <1>7, <2>1, RankNearer DEF Read, Working
<1>8. CASE PollNotFound
  BY <1>1, <1>8 DEF PollNotFound
<1>9. CASE SleepOn
  <2>1. Rank = 4 * Over + 1 /\ Rank' = 4 * Over + 0 /\ Over \in Int
    BY <1>0, <1>9 DEF SleepOn, Rank, Over
  <2> QED BY <1>9, <2>1, RankNearer DEF SleepOn, Working
<1>10. CASE Wake
  <2>1. Rank = 4 * Over + 3 /\ Rank' = 4 * Over + 2 /\ Over \in Int
    BY <1>0, <1>10 DEF Wake, Rank, Over
  <2> QED BY <1>10, <2>1, RankNearer DEF Wake, Working
<1>11. CASE Save
  <2>1. CASE Abort
    BY <1>1, <1>11, <2>1 DEF Save
  <2>2. CASE saved' = saved + 1 /\ UNCHANGED <<stage, results, jobs, seen, timing>>
    <3>1. StepsLeft = Len(results) - saved + 1 /\ StepsLeft' = Len(results) - (saved + 1) + 1
      BY <1>11, <2>2 DEF Save, StepsLeft
    <3> QED BY <1>0, <3>1
  <2> QED BY <1>11, <2>1, <2>2 DEF Save
<1>12. CASE End
  <2>1. StepsLeft' = 0
    BY <1>12 DEF End, StepsLeft
  <2> QED BY <1>0, <1>12, <2>1 DEF End
<1> QED
  BY <1>2, <1>3, <1>4, <1>5, <1>6, <1>7, <1>8, <1>9, <1>10, <1>11, <1>12 DEF Proceed

LEMMA TickNearer == ASSUME IInv, Tick PROVE StepsLeft' < StepsLeft
<1>1. /\ left \in Int /\ spent \in Nat /\ stage \in Polling /\ stage \in Working /\ stage' = stage
      /\ left' = left - 1 /\ spent' = spent + 1 /\ results' = results
  BY DEF IInv, TypeOK, Tick, Working
<1>2. Over \in Int /\ Over' = Over - 1
  BY <1>1 DEF Over
<1>3. Rank' \in Int /\ Rank' < Rank
  BY <1>1, <1>2 DEF Rank
<1> QED BY <1>1, <1>3, RankNearer

\* What the service does to its jobs changes nothing.
LEMMA ServiceNeutral == ASSUME Service PROVE StepsLeft' = StepsLeft
BY DEF Service, StepsLeft, Rank, Over

\* Every step of the batch and every tick of a poll brings its end nearer, for
\* any number of businesses, any deadline, any latency and whatever the render
\* service does: with WorkIsBounded, a batch ends after at most MostSteps of them.
THEOREM EndAlwaysComesNearer == Spec => EndComesNearer
<1>1. IInv /\ [Next]_vars =>
        [\/ StepsLeft' < StepsLeft
         \/ Service /\ StepsLeft' = StepsLeft]_vars
  BY ProceedNearer, TickNearer, ServiceNeutral DEF Next
<1> QED BY <1>1, Invariance, PTL DEF Spec, EndComesNearer

\* Before its end a batch has a positive number of steps left, and never more
\* than MostSteps.
THEOREM WorkIsBounded == Spec => []WorkBounded
<1>0. (IInv => StepsLeft \in Nat)'
  BY StepsLeftType, PTL
<1>1. Init => StepsLeft <= MostSteps
  <2>1. N * (MaxRank + 1) \in Nat
    BY MaxRankFacts, OneMoreBusiness
  <2> QED BY <2>1 DEF Init, StepsLeft, MostSteps
<1>2. IInv /\ StepsLeft <= MostSteps /\ [Next]_vars => (StepsLeft <= MostSteps)'
  <2> SUFFICES ASSUME IInv, StepsLeft <= MostSteps, [Next]_vars PROVE (StepsLeft <= MostSteps)'
    OBVIOUS
  <2>1. StepsLeft \in Nat /\ StepsLeft' \in Nat /\ MostSteps \in Nat /\ MostSteps' = MostSteps
    <3>1. StepsLeft \in Nat
      BY StepsLeftFacts
    <3>2. IInv'
      BY InvNext
    <3>4. N * (MaxRank + 1) \in Nat
      BY MaxRankFacts, OneMoreBusiness
    <3> QED BY <3>1, <3>2, <1>0, <3>4 DEF MostSteps, MaxRank
  <2>2. StepsLeft' <= StepsLeft
    <3>1. CASE UNCHANGED vars
      <4>1. StepsLeft' = StepsLeft
        BY <3>1 DEF vars, StepsLeft, Rank, Over
      <4> QED BY <2>1, <4>1
    <3>2. CASE Next
      BY <2>1, <3>2, ProceedNearer, TickNearer, ServiceNeutral DEF Next
    <3> QED BY <3>1, <3>2
  <2> QED BY <2>1, <2>2
<1>3. IInv /\ StepsLeft <= MostSteps => WorkBounded
  <2> SUFFICES ASSUME IInv, StepsLeft <= MostSteps PROVE WorkBounded
    OBVIOUS
  <2>1. StepsLeft \in Nat /\ (stage \notin {"done", "aborted"} => StepsLeft > 0) /\ stage \in Stages
    BY StepsLeftFacts DEF IInv, TypeOK
  <2>2. MostSteps \in Nat
    <3>1. N * (MaxRank + 1) \in Nat
      BY MaxRankFacts, OneMoreBusiness
    <3> QED BY <3>1 DEF MostSteps
  <2> QED BY <2>1, <2>2 DEF WorkBounded
<1> QED BY <1>1, <1>2, <1>3, Invariance, PTL DEF Spec

-----------------------------------------------------------------------------
(* The batch implements its promise *)

\* One more result is one more verdict.
LEMMA VerdictsAppend ==
    ASSUME NEW s \in Seq(Results), NEW r \in Results
    PROVE  [i \in DOMAIN Append(s, r) |-> Verdict(Append(s, r)[i])]
             = Append([i \in DOMAIN s |-> Verdict(s[i])], Verdict(r))
<1> DEFINE v == [i \in DOMAIN s |-> Verdict(s[i])]
           w == [i \in DOMAIN Append(s, r) |-> Verdict(Append(s, r)[i])]
<1>1. Len(s) \in Nat /\ DOMAIN s = 1 .. Len(s) /\ DOMAIN Append(s, r) = 1 .. Len(s) + 1
  OBVIOUS
<1>2. \A i \in 1 .. Len(s) + 1 : Append(s, r)[i] = IF i = Len(s) + 1 THEN r ELSE s[i]
  OBVIOUS
<1>3. \A q \in Results : Verdict(q) \in {"rendered", "failed"}
  BY DEF Verdict
<1>4. v \in [1 .. Len(s) -> {"rendered", "failed"}]
  <2>1. \A i \in 1 .. Len(s) : s[i] \in Results
    BY <1>1, ElementFact
  <2> QED BY <1>1, <1>3, <2>1
<1>5. v \in Seq({"rendered", "failed"}) /\ Len(v) = Len(s)
  BY <1>1, <1>4
<1>6. \A i \in 1 .. Len(s) : v[i] = Verdict(s[i])
  BY <1>1
<1>7. w = [i \in 1 .. Len(s) + 1 |-> IF i = Len(s) + 1 THEN Verdict(r) ELSE v[i]]
  BY <1>1, <1>2, <1>6
<1> DEFINE u == Append(v, Verdict(r))
<1> HIDE DEF v, w
<1>8. Verdict(r) \in {"rendered", "failed"}
  BY <1>3
<1>9. /\ u \in Seq({"rendered", "failed"}) /\ Len(u) = Len(s) + 1
      /\ \A i \in 1 .. Len(s) : u[i] = v[i]
      /\ u[Len(s) + 1] = Verdict(r)
  <2> HIDE DEF Verdict
  <2> QED BY <1>5, <1>8, AppendProperties
<1>10. \A i \in 1 .. Len(s) + 1 : u[i] = IF i = Len(s) + 1 THEN Verdict(r) ELSE v[i]
  <2> HIDE DEF u
  <2> QED BY <1>1, <1>9
<1>11. w \in Seq({"rendered", "failed"}) /\ Len(w) = Len(s) + 1
       /\ \A i \in 1 .. Len(s) + 1 : w[i] = IF i = Len(s) + 1 THEN Verdict(r) ELSE v[i]
  <2>1. \A i \in 1 .. Len(s) : v[i] \in {"rendered", "failed"}
    BY <1>5
  <2>2. w \in [1 .. Len(s) + 1 -> {"rendered", "failed"}]
    BY <1>7, <1>8, <2>1
  <2> QED BY <1>1, <1>7, <2>2
<1>12. u = w
  <2> HIDE DEF u
  <2> QED BY <1>1, <1>9, <1>10, <1>11, SeqEqual
<1> QED BY <1>12 DEF u, v, w

LEMMA RecordSettles ==
    ASSUME IInv, NEW o, NEW e, [outcome |-> o, error |-> e] \in Results,
           Record(o, e), stage \in Polling \cup {"brief", "submit"},
           o = "rendered" => stage \in Polling
    PROVE  P!Settle
<1> DEFINE r == [outcome |-> o, error |-> e]
<1>1. results \in Seq(Results) /\ Len(results) \in Nat /\ Current <= N /\ N \in Nat
  BY BusinessAssumption DEF IInv, TypeOK, Answer
<1>2. results' = Append(results, r) /\ Len(results') = Len(results) + 1 /\ saved' = saved
      /\ stage' = (IF Current = N THEN "save" ELSE "brief")
  BY <1>1 DEF Record
<1>3. [i \in DOMAIN results |-> Verdict(results[i])]'
        = Append([i \in DOMAIN results |-> Verdict(results[i])], Verdict(r))
  <2>1. [i \in DOMAIN results |-> Verdict(results[i])]'
          = [i \in DOMAIN results' |-> Verdict(results'[i])]
    BY DEF Verdict
  <2> QED BY <1>1, <1>2, <2>1, VerdictsAppend
<1>4. Verdict(r) \in {"rendered", "failed"} /\ (Verdict(r) = "rendered" => stage \in Polling)
  BY DEF Verdict
<1>5. /\ Phase = "working" /\ stage' \notin Polling
      /\ Phase' = IF Len(results') = N THEN "storing" ELSE "working"
  BY <1>1, <1>2 DEF Phase, Polling
<1>6. Len([i \in DOMAIN results |-> Verdict(results[i])]) = Len(results)
      /\ Len([i \in DOMAIN results |-> Verdict(results[i])]') = Len(results')
  <2>1. Len(results') \in Nat /\ DOMAIN results' = 1 .. Len(results') /\ DOMAIN results = 1 .. Len(results)
    BY <1>1, <1>2
  <2>2. [i \in DOMAIN results |-> Verdict(results[i])]'
          = [i \in DOMAIN results' |-> Verdict(results'[i])]
    BY DEF Verdict
  <2> QED BY <1>1, <2>1, <2>2
<1> QED BY <1>1, <1>2, <1>3, <1>4, <1>5, <1>6 DEF P!Settle

\* A step that leaves the results, what is saved and the phase alone.
LEMMA Unseen ==
    ASSUME results' = results, saved' = saved, Phase' = Phase,
           (stage \in Polling)' = (stage \in Polling)
    PROVE  UNCHANGED P!promiseVars
<1>1. [i \in DOMAIN results |-> Verdict(results[i])]' = [i \in DOMAIN results |-> Verdict(results[i])]
  BY DEF Verdict
<1> QED BY <1>1 DEF P!promiseVars

LEMMA AbortStops == ASSUME stage \notin {"done", "aborted"}, Abort PROVE P!Stop
<1>1. results' = results /\ saved' = saved /\ stage' = "aborted"
  BY DEF Abort
<1>2. [i \in DOMAIN results |-> Verdict(results[i])]' = [i \in DOMAIN results |-> Verdict(results[i])]
  BY <1>1 DEF Verdict
<1>3. Phase # "over" /\ Phase' = "over" /\ (stage \in Polling)' = FALSE
  BY <1>1 DEF Phase, Polling
<1> QED BY <1>1, <1>2, <1>3 DEF P!Stop

\* Whatever the render service does, a batch is a BatchPromise: verdicts in the
\* order of discovery that stand, one render asked for at a time, and nothing
\* stored before the last (RunMakeoverPipeline, and SaveProject after it).
THEOREM BatchKeepsPromise == Spec => Promise
<1>1. Init => P!Init
  <2> SUFFICES ASSUME Init PROVE P!Init
    OBVIOUS
  <2>1. [i \in DOMAIN results |-> Verdict(results[i])] = <<>>
    BY DEF Init
  <2> QED BY <2>1 DEF Init, P!Init, Phase, Polling
<1>2. IInv /\ [Next]_vars => [P!Next]_P!promiseVars
  <2> SUFFICES ASSUME IInv, [Next]_vars PROVE P!Next \/ UNCHANGED P!promiseVars
    OBVIOUS
  <2>0. results \in Seq(Results) /\ Len(results) \in Nat /\ Len(results) <= N /\ N \in Nat
        /\ saved \in 0 .. Len(results)
    BY BusinessAssumption DEF IInv, TypeOK
  <2>1. Len([i \in DOMAIN results |-> Verdict(results[i])]) = Len(results)
    BY <2>0
  <2>2. ASSUME UNCHANGED <<results, saved, stage>> PROVE UNCHANGED P!promiseVars
    BY <2>2, Unseen DEF Phase
  <2>3. ASSUME results' = results PROVE [i \in DOMAIN results |-> Verdict(results[i])]'
                                          = [i \in DOMAIN results |-> Verdict(results[i])]
    BY <2>3 DEF Verdict
  <2>4. ASSUME stage \notin {"done", "aborted"}, Abort PROVE P!Next
    BY <2>4, AbortStops DEF P!Next
  <2>5. ASSUME NEW o, NEW e, [outcome |-> o, error |-> e] \in Results, Record(o, e),
               stage \in Polling \cup {"brief", "submit"}, o = "rendered" => stage \in Polling
        PROVE  P!Next
    BY <2>5, RecordSettles DEF P!Next
  <2>6. CASE Discover
    <3>1. CASE Abort
      BY <2>4, <2>6, <3>1 DEF Discover
    <3>2. CASE ~Abort
      <4>1. stage = "discover" /\ stage' = (IF N = 0 THEN "save" ELSE "brief")
            /\ UNCHANGED <<results, saved>>
        BY <2>6, <3>2 DEF Discover
      <4>2. CASE N = 0
        BY <2>3, <4>1, <4>2 DEF P!Next, P!Nothing, Phase, Polling
      <4>3. CASE N # 0
        BY <4>1, <4>3, Unseen DEF Phase, Polling
      <4> QED BY <4>2, <4>3
    <3> QED BY <3>1, <3>2
  <2>7. CASE Brief
    <3>1. CASE Record("brief_failed", "brief")
      BY <2>5, <2>7, <3>1 DEF Brief, Results
    <3>2. CASE Abort
      BY <2>4, <2>7, <3>2 DEF Brief
    <3>3. CASE stage' = "submit" /\ UNCHANGED <<results, saved>>
      BY <2>7, <3>3, Unseen DEF Brief, Phase, Polling
    <3> QED BY <2>7, <3>1, <3>2, <3>3 DEF Brief
  <2>8. CASE Unrenderable
    BY <2>5, <2>8 DEF Unrenderable, Results
  <2>9. CASE SubmitFails
    <3>1. CASE Abort
      BY <2>4, <2>9, <3>1 DEF SubmitFails
    <3>2. CASE ~Abort
      BY <2>5, <2>9, <3>2 DEF SubmitFails, Results
    <3> QED BY <3>1, <3>2
  <2>10. CASE Submit
    <3>1. stage = "submit" /\ stage' = "asking" /\ UNCHANGED <<results, saved>> /\ Current <= N
      BY <2>10 DEF Submit, IInv, Answer
    <3>2. Phase = "working" /\ Phase' = "working" /\ stage \notin Polling /\ (stage \in Polling)'
      BY <3>1 DEF Phase, Polling
    <3> QED BY <2>0, <2>1, <2>3, <3>1, <3>2 DEF P!Next, P!Ask
  <2>11. CASE Read \/ SleepOn \/ Wake
    BY <2>11, Unseen DEF Read, SleepOn, Wake, Phase, Polling
  <2>12. CASE PollFails
    BY <2>5, <2>12 DEF PollFails, Results, Polling
  <2>13. CASE PollNotFound
    BY <2>4, <2>13 DEF PollNotFound
  <2>14. CASE Finish
    <3>1. stage \in Polling /\ (Record("rendered", "none") \/ Record("render_failed", "job"))
      BY <2>14 DEF Finish, Polling
    <3> QED BY <2>5, <3>1 DEF Results
  <2>15. CASE GiveUp
    BY <2>5, <2>15 DEF GiveUp, Results, Polling
  <2>16. CASE Save
    <3>1. CASE Abort
      BY <2>4, <2>16, <3>1 DEF Save
    <3>2. CASE ~Abort
      <4>1. stage = "save" /\ saved' = saved + 1 /\ UNCHANGED <<stage, results>> /\ saved < N
        BY <2>0, <2>16, <3>2 DEF Save
      <4> QED BY <2>3, <4>1 DEF P!Next, P!Store, Phase, Polling
    <3> QED BY <3>1, <3>2
  <2>17. CASE End
    BY <2>3, <2>17 DEF End, P!Next, P!Stop, Phase, Polling
  <2>18. CASE Tick \/ Service \/ UNCHANGED vars
    BY <2>2, <2>18 DEF Tick, Service, vars
  <2> QED BY <2>6, <2>7, <2>8, <2>9, <2>10, <2>11, <2>12, <2>13, <2>14, <2>15, <2>16, <2>17,
             <2>18 DEF Next, Proceed
<1> QED BY <1>1, <1>2, Invariance, PTL DEF Spec, Promise, P!Spec
=============================================================================
