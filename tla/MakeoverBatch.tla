---------------------------- MODULE MakeoverBatch ----------------------------
(***************************************************************************)
(* One batch: RunMakeoverPipeline over the businesses discovery found, one *)
(* after the other, then SaveProject over its results (the CLI's `run' and *)
(* POST /projects).  The render service runs beside it: it starts, ends or *)
(* forgets jobs whenever it likes, and a request to it may be answered, be *)
(* refused, or fail after the service has acted on it.                     *)
(*                                                                         *)
(* Time matters only while a job is polled.  `left' is the time until      *)
(* _poll_until_terminal's deadline, negative once that has passed.         *)
(***************************************************************************)
EXTENDS Integers, Sequences

CONSTANTS
    N,             \* businesses discovered
    PollInterval,  \* render_poll_interval_s, in ticks
    PollTimeout,   \* render_poll_timeout_s
    Latency        \* longest a poll takes, sleep overrun included

ASSUME BusinessAssumption == N \in Nat
ASSUME PollAssumption ==
    /\ PollInterval \in Nat \ {0}
    /\ PollTimeout \in Nat \ {0}
    /\ Latency \in Nat

VARIABLES
    stage,     \* where the batch is
    results,   \* the PipelineResults so far
    saved,     \* how many of them SaveProject has stored
    jobs,      \* the render service's view of each business's job
    seen,      \* the job status in the last response
    left,      \* ticks until the deadline of the job being polled
    spent,     \* ticks spent in the current request or sleep
    margin     \* history: the value of left when the polled job ended

timing == <<left, spent, margin>>
vars == <<stage, results, saved, jobs, seen, timing>>

Businesses == 1 .. N
Ended      == {"succeeded", "failed", "cancelled"}            \* is_terminal
Statuses   == {"queued", "running"} \cup Ended
JobStates  == Statuses \cup {"none", "lost"}
Polling    == {"asking", "answered", "sleeping"}
Stages     == Polling \cup {"discover", "brief", "submit", "save", "done", "aborted"}
Results    == [outcome : {"rendered", "brief_failed", "render_failed"},
               error   : {"none", "brief", "unrenderable", "upstream", "timeout", "job"}]

Current == Len(results) + 1

Init ==
    /\ stage = "discover"
    /\ results = <<>>
    /\ saved = 0
    /\ jobs = [i \in Businesses |-> "none"]
    /\ seen = "queued"
    /\ left = PollTimeout
    /\ spent = 0
    /\ margin = 0

-----------------------------------------------------------------------------
(* The pipeline *)

\* The locals of _poll_until_terminal, new or gone.
FreshPoll == seen' = "queued" /\ left' = PollTimeout /\ spent' = 0 /\ margin' = 0

\* Mutant: counts the business that is still to come as recorded.
RecordBeforeLast(outcome, error) ==
    /\ results' = Append(results, [outcome |-> outcome, error |-> error])
    /\ stage' = IF Current >= N - 1 THEN "save" ELSE "brief"
    /\ FreshPoll
    /\ UNCHANGED saved

\* The result of the current business is known; on to the next, or to saving.
Record(outcome, error) ==
    /\ results' = Append(results, [outcome |-> outcome, error |-> error])
    /\ stage' = IF Current = N THEN "save" ELSE "brief"
    /\ FreshPoll
    /\ UNCHANGED saved

\* An exception that _run_one does not catch leaves execute, and with it goes
\* the list of results.
Abort ==
    /\ stage' = "aborted"
    /\ FreshPoll
    /\ UNCHANGED <<results, saved, jobs>>

Discover ==
    /\ stage = "discover"
    /\ \/ Abort
       \/ /\ stage' = IF N = 0 THEN "save" ELSE "brief"
          /\ UNCHANGED <<results, saved, jobs, seen, timing>>

\* Enrich, then brief.  Only an UpstreamError is caught: an error of the
\* Anthropic SDK itself (no connection, overloaded) is not one.
Brief ==
    /\ stage = "brief"
    /\ \/ Record("brief_failed", "brief") /\ UNCHANGED jobs
       \/ Abort
       \/ stage' = "submit" /\ UNCHANGED <<results, saved, jobs, seen, timing>>

\* The composed scene is outside the batch's manifest.
Unrenderable ==
    /\ stage = "submit"
    /\ Record("render_failed", "unrenderable")
    /\ UNCHANGED jobs

\* Mutant: names an outcome that PipelineOutcome does not have.
SubmitFailsUnnamed ==
    /\ stage = "submit"
    /\ Record("submit_failed", "upstream")
    /\ UNCHANGED jobs

\* POST /jobs is refused, or its answer never arrives although the job exists.
SubmitFails ==
    /\ stage = "submit"
    /\ \/ /\ Record("render_failed", "upstream")
          /\ \/ UNCHANGED jobs
             \/ jobs' = [jobs EXCEPT ![Current] = "queued"]
       \/ Abort     \* a 404 is a NotFoundError, not an UpstreamError

Submit ==
    /\ stage = "submit"
    /\ jobs' = [jobs EXCEPT ![Current] = "queued"]
    /\ stage' = "asking"
    /\ FreshPoll
    /\ UNCHANGED <<results, saved>>

-----------------------------------------------------------------------------
(* _poll_until_terminal *)

\* The service reads the job for GET /jobs/{id}; the answer is on its way.
Read ==
    /\ stage = "asking"
    /\ jobs[Current] \in Statuses
    /\ seen' = jobs[Current]
    /\ stage' = "answered"
    /\ UNCHANGED <<results, saved, jobs, timing>>

\* No answer, a 5xx or an unusable body: the first failed poll is the last.
PollFails ==
    /\ stage \in {"asking", "answered"}
    /\ Record("render_failed", "upstream")
    /\ UNCHANGED jobs

\* The service no longer knows the job: NotFoundError.
PollNotFound ==
    /\ stage = "asking"
    /\ jobs[Current] = "lost"
    /\ Abort

\* Mutant: any job that has ended counts as rendered.
FinishAnyStatus ==
    /\ stage = "answered"
    /\ seen \in Ended
    /\ Record("rendered", "none")
    /\ UNCHANGED jobs

Finish ==
    /\ stage = "answered"
    /\ seen \in Ended
    /\ IF seen = "succeeded" THEN Record("rendered", "none")
                             ELSE Record("render_failed", "job")
    /\ UNCHANGED jobs

\* Mutant: gives up when the next poll would come after the deadline.
GiveUpEarly ==
    /\ stage = "answered"
    /\ seen \notin Ended
    /\ left <= PollInterval
    /\ Record("render_failed", "timeout")
    /\ UNCHANGED jobs

GiveUp ==
    /\ stage = "answered"
    /\ seen \notin Ended
    /\ left <= 0
    /\ Record("render_failed", "timeout")
    /\ UNCHANGED jobs

\* Mutant: the deadline is checked only for a job that is still queued.
SleepOnWhileRunning ==
    /\ stage = "answered"
    /\ seen \notin Ended
    /\ left > 0 \/ seen = "running"
    /\ stage' = "sleeping"
    /\ spent' = 0
    /\ UNCHANGED <<results, saved, jobs, seen, left, margin>>

SleepOn ==
    /\ stage = "answered"
    /\ seen \notin Ended
    /\ left > 0
    /\ stage' = "sleeping"
    /\ spent' = 0
    /\ UNCHANGED <<results, saved, jobs, seen, left, margin>>

\* Mutant: every poll starts a new deadline.
WakeRearmed ==
    /\ stage = "sleeping"
    /\ spent = PollInterval
    /\ stage' = "asking"
    /\ spent' = 0
    /\ left' = PollTimeout
    /\ UNCHANGED <<results, saved, jobs, seen, margin>>

Wake ==
    /\ stage = "sleeping"
    /\ spent = PollInterval
    /\ stage' = "asking"
    /\ spent' = 0
    /\ UNCHANGED <<results, saved, jobs, seen, left, margin>>

Tick ==
    /\ stage \in Polling
    /\ spent < (IF stage = "sleeping" THEN PollInterval ELSE Latency)
    /\ left' = left - 1
    /\ spent' = spent + 1
    /\ UNCHANGED <<stage, results, saved, jobs, seen, margin>>

-----------------------------------------------------------------------------
(* Saving: one project at a time; the first that raises ends the command.  *)

Save ==
    /\ stage = "save"
    /\ saved < Len(results)
    /\ \/ saved' = saved + 1 /\ UNCHANGED <<stage, results, jobs, seen, timing>>
       \/ Abort

End ==
    /\ stage = "save"
    /\ saved = Len(results)
    /\ stage' = "done"
    /\ UNCHANGED <<results, saved, jobs, seen, timing>>

-----------------------------------------------------------------------------
(* The render service *)

Start(i) ==
    /\ jobs[i] = "queued"
    /\ jobs' = [jobs EXCEPT ![i] = "running"]
    /\ UNCHANGED margin

Stop(i) ==
    /\ \E status \in Ended :
         /\ jobs[i] = "running" \/ (jobs[i] = "queued" /\ status = "cancelled")
         /\ jobs' = [jobs EXCEPT ![i] = status]
    /\ margin' = IF i = Current THEN left ELSE margin

\* A restart without persistence, or a purge.
Forget(i) ==
    /\ jobs[i] \in Statuses
    /\ jobs' = [jobs EXCEPT ![i] = "lost"]
    /\ UNCHANGED margin

Service ==
    /\ \E i \in Businesses : Start(i) \/ Stop(i) \/ Forget(i)
    /\ UNCHANGED <<stage, results, saved, seen, left, spent>>

-----------------------------------------------------------------------------
Proceed ==
    \/ Discover \/ Brief \/ Unrenderable \/ SubmitFails \/ Submit
    \/ Read \/ PollFails \/ PollNotFound \/ Finish \/ GiveUp \/ SleepOn \/ Wake
    \/ Save \/ End

Next == Proceed \/ Tick \/ Service

Spec == Init /\ [][Next]_vars

\* The event loop runs, time passes, and httpx's timeout ends every request.
\* Nothing is assumed of the render service.
FairSpec == Spec /\ WF_vars(Proceed) /\ WF_vars(Tick)

-----------------------------------------------------------------------------
\* Every variable has the shape of what it stands for.
TypeOK ==
    /\ stage \in Stages
    /\ results \in Seq(Results)
    /\ Len(results) <= N
    /\ saved \in 0 .. Len(results)
    /\ jobs \in [Businesses -> JobStates]
    /\ seen \in Statuses
    /\ left \in Int
    /\ spent \in Nat
    /\ margin \in Int

\* ResultsMatchJobs: what a result says of its render is what became of the job
\* at the service, although it rests on an answer that may be old when it is
\* read: a rendered one did succeed, a failed one did fail, a business that was
\* never submitted has no job, and every job still running is the current
\* business's or one the batch has given up on.
Agrees(result, job) ==
    /\ result.outcome = "rendered"            => job \in {"succeeded", "lost"}
    /\ result.error = "job"                   => job \in {"failed", "cancelled", "lost"}
    /\ result.error \in {"brief", "unrenderable"} => job = "none"
    /\ job \in {"queued", "running"}          => result.error \in {"upstream", "timeout"}
ResultsMatchJobs ==
    /\ \A i \in 1 .. Len(results) : Agrees(results[i], jobs[i])
    /\ \A i \in Businesses : i > Current => jobs[i] = "none"

\* PollingIsBounded: a job is never polled past the deadline by a whole interval
\* and a request or more.
PollingIsBounded == stage \in Polling => left > -(PollInterval + Latency)

\* NoPrematureTimeout: a job that ended more than one request before the
\* deadline is never reported as timed out, wherever in the wait it ended.
TimesOut == Len(results') > Len(results) /\ results'[Len(results')].error = "timeout"
NoPrematureTimeout == [][TimesOut => margin <= Latency]_vars

\* BatchEnds: the batch returns or raises even if no job ever ends.
BatchEnds == <>(stage \in {"done", "aborted"})

\* The steps and ticks a batch may still take, its own only: MaxRank and one for
\* every business to come, what is left of the current one, and the saving.  A
\* round of polling costs three steps and PollInterval ticks or more, so four for
\* every tick to the last possible poll are enough.
Over    == left + PollInterval + Latency
MaxRank == 4 * (PollTimeout + PollInterval + Latency) + 4
Rank ==
    CASE stage = "brief"    -> MaxRank
      [] stage = "submit"   -> MaxRank - 1
      [] stage = "asking"   -> 4 * Over + 2
      [] stage = "answered" -> 4 * Over + 1
      [] stage = "sleeping" -> 4 * Over + (IF spent = 0 THEN 0 ELSE 3)
      [] OTHER              -> 0
MostSteps == N * (MaxRank + 1) + N + 3
StepsLeft ==
    CASE stage = "discover" -> MostSteps
      [] stage = "save"     -> Len(results) - saved + 1
      [] stage \in {"done", "aborted"} -> 0
      [] OTHER -> (N - Current) * (MaxRank + 1) + Rank + N + 2

\* EndComesNearer: whatever the render service does with its jobs and however
\* late its answers are, every step of the batch and every tick of a poll brings
\* its end nearer: it takes at most MostSteps of them.
EndComesNearer ==
    [][\/ StepsLeft' < StepsLeft
       \/ Service /\ StepsLeft' = StepsLeft]_vars

\* WorkBounded: a batch never has more left to do than at its beginning, and has
\* nothing left only when it is over.
WorkBounded == StepsLeft \in 0 .. MostSteps /\ (StepsLeft = 0 => stage \in {"done", "aborted"})

\* Promise: to whoever started it the batch is BatchPromise: verdicts come in
\* order and stand, one render is asked for at a time, and nothing is stored
\* before the last verdict.
Verdict(result) == IF result.outcome = "rendered" THEN "rendered" ELSE "failed"
Phase ==
    CASE stage = "save"               -> "storing"
      [] stage \in {"done", "aborted"} -> "over"
      [] OTHER                         -> "working"
P == INSTANCE BatchPromise WITH
        phase    <- Phase,
        verdicts <- [i \in DOMAIN results |-> Verdict(results[i])],
        asked    <- stage \in Polling,
        stored   <- saved
Promise == P!Spec

\* What makes the above inductive: how far the deadline can be behind at each
\* point of the wait, and how old the answer is that the pipeline looks at.
Waiting ==
    /\ stage \in {"asking", "answered"} => spent <= Latency /\ left + spent > -PollInterval
    /\ stage = "sleeping"               => spent <= PollInterval /\ left + spent > 0
Answer ==
    /\ stage = "discover" => results = <<>>
    /\ stage \in Polling \cup {"brief", "submit"} => Current <= N
    /\ stage \in {"discover", "brief", "submit"} /\ Current <= N => jobs[Current] = "none"
    /\ stage \in Polling =>
         /\ jobs[Current] # "none"
         /\ jobs[Current] \in {"queued", "running"} => margin = 0
    /\ stage = "answered" =>
         IF seen \in Ended THEN jobs[Current] \in {seen, "lost"}
                           ELSE margin = 0 \/ margin <= left + spent
IInv == TypeOK /\ ResultsMatchJobs /\ PollingIsBounded /\ Waiting /\ Answer

-----------------------------------------------------------------------------
\* "One business's failure must not discard the batch's other results"
\* (run_makeover_pipeline.py:4-5): a batch that raises leaves none unsaved.
FailuresAreIsolated == stage = "aborted" => saved = Len(results)
=============================================================================
