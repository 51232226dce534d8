# Makeover discovery: a verification project

`makeover-discovery` takes a postcode, finds businesses near it, reads what
they publish about themselves, lets a language model propose a redesign, has a
render service draw it, and keeps the outcome as a *project*: a row in SQLite, a
directory of artifacts and, for the command line, a landing page. This directory
holds TLA+ models of those parts, the TLC runs that check them on small
instances, and theorems about them that TLAPS checks for every value of the
constants.

Paths below are relative to the repository: `application/`, `domain/`,
`infrastructure/` and `interfaces/` are under `src/makeover_discovery/`, and the
contracts under `packages/makeover-contracts/`.

## 1. The system

| Component | State it keeps | Operations | Module |
|---|---|---|---|
| Project lifecycle (`save_project.py`, `publish_project.py`, `takedown_project.py`, `upload_before_image.py`, the repository, the artifact store, the page builder) | the `projects` row, the files under `var/artifacts/<id>`, `<out>/<id>/index.html` and `assets/` | save, publish, take down, upload, build page | `ProjectLifecycle`, `PublicationGate` |
| Rate limiter (`ratelimit/per_key.py`) | per key: a lock and the next allowed instant | `acquire` | `RateLimiter` |
| HTTP client and response cache (`http/cached_client.py`, `cache/memory.py`) | an ordered dict of bodies with expiry | look up, request, store, evict | `ResponseCache`, `CacheEntry` |
| Batch and render client (`run_makeover_pipeline.py`, `render/http_render_client.py`) | the results so far, the deadline of the job being polled | submit, poll, collect, save | `MakeoverBatch`, `BatchPromise` |
| Brief and scene (`generate_design_brief.py`, `brief_guardrails.py`, `compose_scene_spec.py`, the manifest cache) | the attempt, the vocabulary, the problems of the last brief | generate, check, repair, compose | `DesignBrief` |
| Enrichment (`enrich_business_profile.py`, `crawl/*`) | cached robots rules, the page in hand, the profile | look up rules, download them, fetch, render, assemble | `Enrichment` |
| Discovery (`discover_businesses.py`, `dedupe.py`, `nominatim.py`, `overpass.py`, `google_places.py`, both taxonomies, `retention.py`) | none of its own; answers in the response cache | geocode, search, classify, deduplicate, rank | `Discovery`, `Taxonomy` |
| Extraction and redaction (`extract/html_extractor.py`, `extract/jsonld.py`, `redaction.py`) | none | extract, clean, assemble a profile | `Extraction` |
| API and CLI shells, settings, composition | wiring | - | the constants of the modules |

How they meet. The API and the CLI are separate processes over one SQLite file
and one artifact directory; inside a process everything runs on one asyncio
event loop, so a step ends exactly where the code awaits. Every provider is
reached through `CachedHttpClient`, that is: the cache first, then the limiter,
then the network. `RunMakeoverPipeline` calls the brief generator, the composer
and the render client for one business after the other, and its results become
projects.

What is hard here, and what would make it right:

* *Read, decide, write.* Every use case but a run reads a project, decides on
  that snapshot and saves all of it in another session. Right: a published row
  is complete, a takedown holds, the row moves only as the gate allows. (Two of
  these the code does not keep: section 5.)
* *Two stores.* Files are written before the row that names them, assets before
  the page that shows them; a process may die between any two. Right: nothing
  refers to a file that is not there.
* *A wait under a lock.* The limiter's holder sleeps while others queue. Right:
  one sleeper per key, a capped rate, a bounded shortening of gaps, and a wait
  that one's place in the queue bounds.
* *Answers out of order.* Concurrent misses store their answers in any order.
  Right: a hit is fresh, the cache bounded, eviction least-recently-used.
* *A service with a life of its own.* The render service starts, ends and
  forgets jobs while answers are on their way. Right: results say what became
  of the job, no premature timeout, an end in bounded time.
* *Two readings of one vocabulary.* Right: what is submitted fits both.
* *A permission that is withdrawn.* robots rules are cached and followed after a
  wait. Right: a ban is honoured within a bounded time.
* *Text from pages nobody controls.* What is removed from a text may bring
  together what was apart, and invisible characters hide what a pattern would
  match. Right: no contact detail survives into a profile, which keeps to its
  limits and says nothing twice.
* *Provider answers of every shape, and late.* Right: requests stay within the
  provider's limits, what is asked for can be classified and the reverse, the
  nearest businesses are returned once each, and licence windows are stretched by
  no more than an answer's time and a cache lifetime.

## 2. Modules

Each component module declares its parameters as CONSTANTS with named
assumptions, has one action per step between two awaits, and states its
properties at its end, together with the inductive invariant its proofs use.
`MC<Module>` gives the constants values that a `.cfg` cannot write;
`<Module>_proofs` holds the theorems. Definitions introduced by a comment
`Mutant:` are plausible bugs, used only to see that a property can fail; nothing
else refers to them.

### ProjectLifecycle, PublicationGate

One project while handlers act on it. Projects have a row, a directory and a page
each; that they share no file rests on the name of an upload staying inside its
directory, which `LocalFsArtifactStore` does not see to (`local_fs.py:27`), and the
model assumes. `Requests` and
`Commands` are slots for API requests and CLI commands, which differ in that
only requests upload and only commands build pages. `row` is the table's row,
`disk` the artifact directory, `assets` and `page` the files under `--out`;
`pc`, `op`, `project`, `copied`, `pending` are the locals of a handler.

| Action | Code |
|---|---|
| `StartSave`, `CopyArtifact`, `FetchFails` | `SaveProject.execute`, `_copy_artifacts` |
| `StartPublish`, `StartTakedown`, `StartUpload`, `StoreUpload` | the three use cases up to `save`; a refusal changes nothing and is no step |
| `Merge`, `CommitInsert`, `InsertConflicts`, `CommitUpdate` | `SqlAlchemyProjectRepository.save`: `session.merge` selects and compares, `commit` writes only the columns that differed |
| `CopyAssets`, `WritePage` | `JinjaLandingPageBuilder.build` |
| `Crash` | the process dies; a file being written may be left torn |

Abstractions: a render is a number (its digest); the artifact kinds are the
file names in `CopyOrder`; `index.html` is written in one step, artifacts may
tear; `BRIEF_FAILED` and `RENDER_FAILED` are one outcome, as every reader
treats them.

`SerialSpec` allows one handler at a time. The specification says which
properties need that: `PublishedIsComplete`, `DigestsTrueAtSave`, `PageFollowsRow`
and `GateButReruns` hold for it and not for overlapping handlers (section 5). `PageSettles` is what
`FairSerialSpec`, without crashes, guarantees when only commands act: every
command leaves a page that shows the row. `TakedownSurvivesPublish`, which two
overlapping handlers break, holds for `SerialSpec`.

`PublicationGate` is the abstract specification, as the docstrings state it: a
project is absent, a draft, public or withdrawn, and *fit* to be published or not;
nothing leaves "withdrawn". The mapping is `GateOf(row)`, `FitOf(row)`. The code
does not implement it: `GateSpec` (`Gate!Spec`) is refuted even for one handler at
a time, by a new run of a project that was taken down. `GateButReruns` says that
this is the only way: every other step of the row is one of the gate's.

### RateLimiter

One key. `lock` is the asyncio lock with its queue, `nextAllowed` the entry of
`_next_allowed`; `Enter`, `Sleep`, `Pass`, `Wake` are the stretches of `acquire`
between its awaits. The event loop resumes a sleeper, and a waiter that was handed
the lock, late by at most `MaxJitter`; `handed` is when the holder got the lock.
`due` is a history variable, the instant a caller was promised when it joined the
queue: a `Slot` for every place in it, its own included, and one lateness. A
`Slot` is the interval, or two latenesses when they are more. `WaitIsBounded` says
that the promise is kept: a schedule counted from the scheduled instants makes up
for the lateness of those in front, and it would not if it were counted from the
wake-up (its mutant). `ShortPromises` turns it into a bound that does not depend on
the state, a slot for every coroutine there is, which is what `Enrichment` assumes
as `Wait`.

### ResponseCache, CacheEntry

`Hit`, `Miss`, `Send`, `Answered`/`Fails`, `Store` are the stretches of
`_fetch_json`; `entries` is the dict in order of last use. `ideal` is a history
variable: the cache as it would be if it never evicted. `again` is another: who
has asked for a key while its answer was in the cache, forgotten when the answer
goes. `Next` has one conjunct that keeps it, `Remember`, besides the steps of
the code. It says how far a lookup acted on late can go wrong: a coroutine that
missed may ask once in vain, never twice while the answer stays.

`CacheEntry` is the cache as the users of one key see it: an entry is what was
put there last, expires a lifetime later, is not prolonged or altered, and may go
at any moment. `ResponseCache` implements it for each of its keys
(`EntryPromise`, the mapping is `KeptIn`): the cache does nothing else to an entry.
`Enrichment` keeps one key per host. That its rules behave within `CacheEntry` is
`RulesPromise`; that it tolerates all `CacheEntry` may do to them on its own is the
theorem `AnyForgettingIsCovered`. The modules share no state and there is no theorem
about their composition; `Discovery` has an entry of its own, which the same cache
code explains, and nothing is claimed to tie it to `CacheEntry`.

### MakeoverBatch, BatchPromise

`stage` follows `RunMakeoverPipeline.execute`; `jobs` is the render service,
which is not in this repository and does what it likes within its protocol.
`left` and `spent` count the time to the deadline; `margin` is history.

`BatchPromise` is what whoever starts a batch may rely on: a verdict for every
business, in order and never revised, one render asked for at a time, nothing
stored before the last verdict is in. `Promise` is `P!Spec` under the mapping
`Phase` (which stage it is in), `Verdict` (rendered, or failed for whatever
reason) and `stage \in Polling` for "the next render has been asked for".

`StepsLeft` counts what a batch may still do: `EndComesNearer` says that each step
of it and each tick of a poll brings the end nearer, `WorkBounded` by how many
steps at most.

### DesignBrief

The repair loop (`Ask`, `Generate`, `Retry`, `CallFails`, `SdkRaises`), the
composer (`Compose`, `Unrenderable`, `ComposeRaises`) and the manifest, read by
the batch once and by every brief again through a cache (`Reads`, `Deploy`,
`Expire`). The template is picked by digest and looked up again by id, as the code
does: manifests may give two templates one id, or a template one slot twice, and a
family may have a name that a `MaterialAssignment` refuses (`Unwieldy`); the last
two are a `ValidationError`, which leaves the batch. Text is reduced to what the guardrails tell apart: plain, carrying a
mark, making a claim. `Kept` merges the exclusions as the code does: the
mandatory ones first, without repetitions, cut at the contract's limit.

### Enrichment

`LookupHit`/`LookupMiss`, `RobotsSend`, `RobotsAnswer`/`RobotsFails`,
`RobotsStore` are `RobotsGate.is_allowed`; `PageSend`, `PageAnswer`, `PageNone`
the two fetchers under `FallbackWebFetcher`. `RequestRaises` is what neither
catches: an address httpx cannot request, a browser that cannot be launched or
navigate. A website address that cannot be split, a rule `RobotFileParser` cannot
read and a photo address that cannot be resolved raise as well (`NothingToFetch`,
`Follow`, `FinishWith`), and leave `execute`. One page per host is asked for, and
rules are reduced to whether they permit it. Redirects are not modelled. `page` is
the last page a fetcher returned, which outlives the enrichment for
`OutcomeFollowsLastPage`; `profile` is what `execute` returned: the last step of an
enrichment applies `Extraction`. `AwaitsLeft` counts the awaits before it, twelve at
most (`ReturnComesNearer`, `AwaitsAreBounded`).

### Extraction

The pure part of an enrichment: `Extract` (`HtmlContentExtractor.extract`),
`Clean`, `CleanDescriptor`, `CleanAll` (`RedactionPolicy`) and `Assemble`
(`EnrichBusinessProfile._assemble`, the fields that come from the website). A
text is a sequence of tokens, known by what the patterns make of them: a word, a
text too short to mean anything, an e-mail address, a link, digits too few to be
a telephone number by themselves. What is removed becomes a gap, as the code puts
a space there, so that two groups of digits with an address between them become
one number when the address goes; a hidden token has characters inside that
`_CONTROL` lists (`redaction.py:27`), and no pattern matches it until they are gone.
Invisible characters it does not list (U+2061 to U+2064, U+2066 to U+2069, U+180E)
break a token up for good: what they hide is a word to every pattern, and
`NoContactSurvives` says nothing of it. Lists are functions on positions some of which may be
left out, which is how `Firsts` (`dict.setdefault`) and `Leading` (a cut) read.
The fields a directory provides, and the provenance of all of them, are not part
of it.

### Discovery, Taxonomy

`Taxonomy` has both rule tables and the two directions they serve: what to ask a
provider for, and what category an answer has. `Discovery` is
`DiscoverBusinesses.execute`, one lookup after the other: up to two geocoder
queries (`Geocode`, `GeocodeFails`), then a directory search through the cache.
`SearchHit` answers from it; a `SearchMiss` waits for the limiter and the request as
long as it takes, `SearchAnswer` is the instant the answer leaves the provider, and
`SearchStore` caches and parses it up to `Latency` later. Deduplication, ranking and
the cut follow in the same stretch. A feature is known by its tags or types, by
which business it stands for (normalised name and rounded place) and by its
distance; the geocoder's answer by the size of its ring and of its box, by whether
the ring's points are all one, and by whether the box is on the Earth (`BoxRaises`:
when it is not, a `ValidationError` leaves the lookup). What is kept of an answer is
a function on the positions kept. The ranking is stated and not computed: the n-th
(`Ordered`) is the one with n - 1 others nearer.

## 3. Runs

Every run finishes within about two and a half minutes on two workers; all but
`enrich_run` within one.

| Run | Configuration | Expect | Properties | What it shows |
|---|---|---|---|---|
| `project_overlap` | `ProjectOverlap.cfg` | pass | `TypeOK`, `NoDanglingFile`, `PageIsWhole`, `TakedownHolds` | An API request and a CLI command overlap and crash anywhere: nothing ever refers to a file that is not there, the page stays whole, and a settled takedown can only be undone by a new run. |
| `project_serial` | `ProjectSerial.cfg` | pass | `PublishedIsComplete`, `DigestsTrueAtSave`, `PageFollowsRow`, `GateButReruns` | Requests and commands one at a time, with crashes: what is published is complete, a run saves digests of the files that are there, pages show the row, and the row keeps to the publication gate but for a new run of a project that was taken down. |
| `project_rerun` | `ProjectRerun.cfg` | violation | `GateSpec` | With no overlap at all, a later pipeline run saved over a project that was taken down makes it a draft again, which the publication gate does not know. |
| `project_lost_takedown` | `ProjectLostTakedown.cfg` | violation | `TakedownSurvivesPublish` | A publish that read the row before a takedown committed, and merges after it, writes the takedown column back to false. |
| `project_stale_page` | `ProjectStalePage.cfg` | violation | `TakedownReachesThePage` | A takedown through the API never rebuilds the page a CLI command wrote. |
| `limiter_gap` | `LimiterGap.cfg` | pass | `TypeOK`, `OneSleeper`, `RateCap`, `WaitIsBounded`, `GapFloor` | Three coroutines on one key, resumed up to a tick late: one sleeper at a time, the long-run rate is capped, gaps shrink by no more than the lateness, and nobody waits longer than a slot for each place in the queue and one lateness. |
| `batch_run` | `BatchRun.cfg` | pass | `TypeOK`, `ResultsMatchJobs`, `PollingIsBounded`, `NoPrematureTimeout`, `Promise`, `BatchEnds` | A batch of two beside a render service that starts, ends, forgets or ignores jobs at will: results tell the truth, waits are bounded, the batch ends, and it is what BatchPromise promises its callers. |
| `batch_isolation` | `BatchIsolation.cfg` | violation | `FailuresAreIsolated` | An error that is not an UpstreamError ends the batch and discards results already obtained. |
| `cache_lru` | `CacheLru.cfg` | pass | `TypeOK`, `BoundedNoDuplicates`, `EvictsLeastRecentlyUsed`, `RefetchesAreFew`, `HitIsFresh` | Two coroutines, three cacheable keys and one that is not, a cache of two: bound, eviction order and freshness hold although concurrent misses store their answers in any order, and no coroutine asks twice for what stays in the cache. |
| `brief_run` | `BriefRun.cfg` | pass | `TypeOK`, `SubmittedFitsBoth`, `ExclusionsNeverReject`, `SpendIsBounded`, `OnlyManifestsFailComposing` | A batch of two with one repair round, five manifests and deploys, cache expiries and unusable answers at any moment: what is submitted fits both manifests it was checked against, and composing an accepted brief fails only through a manifest: another one than the brief was made from, or one with a tight limit, a repeated id or slot, or a family name no scene may carry. |
| `enrich_run` | `EnrichRun.cfg` | pass | `TypeOK`, `BansAreHonoured`, `NoContactSurvives`, `ProfileFits`, `OutcomeFollowsLastPage`, `EnrichmentEnds` | Two enrichments of one host that changes its rules, with a browser for thin pages, failing and overtaking downloads, requests that raise, evictions and expiry: a ban is honoured in bounded time, an enrichment reports what the last page any of its fetchers returned says, profiles carry no contact details and keep to their limits, and every enrichment ends. |
| `discover_run` | `DiscoverRun.cfg` | pass | `TypeOK`, `RequestFits`, `OneTable`, `NearestDistinct`, `RetentionBounded` | Lookups one after the other with either directory, seven kinds of geocoder answer, four filters, and any answer in any order, from the provider or the cache: what requests exceed and what they do not, the taxonomies agree with themselves, the nearest businesses come back once each, and licence windows stretch by no more than the time an answer takes and less than a cache lifetime. |

`expect: violation` runs are the disagreements between the repository's text
and its code; the counterexample of each is in section 5.

Bounds, and why they are enough. Two handlers (one request, one command) are
where read-decide-write can go wrong, and a third adds only a repetition of the
same overlap; the proofs cover any number. Two renders distinguish "the file of
this run" from "of another one". Two artifacts give a state between the first
and the last copy. Three coroutines give the limiter a sleeper, a waiter and a
late arrival, and 14 ticks more than four intervals of three; a lateness of one
tick is under half an interval, so a slot is an interval, and the proofs cover
larger ones. A cache of two
with three cacheable keys evicts; one further key has lifetime 0; one body is
enough, as no property looks at it, and four ticks see an entry stored, expired
and fetched again. Two businesses
are enough for "the others' results"; one repair round and two calls reach every
exit of the loop. For enrichment the clock ends one tick after the latest
instant at which a ban made at time zero may still be disregarded. Its five
pages are an empty shell, a shell with a title, a page whose node is no business,
one that has something for every rule of the redaction, and one with a photo
address that cannot be resolved; three descriptors,
one photo and two tokens are limits that the pages exceed. Discovery has
four features (one business mapped twice, one of two categories, one that is
incomplete and unclassified), seven geocoder answers (no match, a tiny box, rings
too short with and without a point, a ring too long and too wide, a ring of one
point, a box off the Earth), four filters and a clock that reaches the end of a
cache entry's life. The brief's five manifests are a wide one, a narrow one, one
whose limits admit no clip, one that repeats a slot, and one that repeats an id and
offers a family name no scene may carry. Time bounds (`MaxTime`) stop the
clock and nothing else: they are why `limiter_gap`, `cache_lru`, `enrich_run`
and `discover_run` have `CHECK_DEADLOCK FALSE`; the batch runs have it because a
batch ends. Symmetry (`MCSymmetry`, cache) is used with safety properties only.

Fairness. `batch_run` (`BatchEnds`) and `enrich_run` (`EnrichmentEnds`) assume
weak fairness of the steps of the program's own coroutines: asyncio runs every
task that is ready. That a request returns is an assumption on the other side too:
the timeouts of httpx are for one read or write, so a host that sends a byte now and
then could keep one open for longer than any bound. Of what the render service and
other hosts answer, and of what becomes of a job, nothing is assumed.
`project_stale_page` uses
`FairSerialSpec`, weak fairness of a handler's next step and no crash, so that
its counterexample is not a handler that simply stops.

## 4. Proofs

Every theorem has the shape: an inductive invariant `IInv` (for the serial
properties `SerialInv`), `Init => IInv`, `IInv /\ [Next]_vars => IInv'` with one
step per action, and the property from it. The assumptions are the modules' own
ASSUMEs and nothing else.

| Module | Theorem | Property | What it says |
|---|---|---|---|
| `DesignBrief_proofs` | `TypeCorrect` | `TypeOK` | The variables of brief generation keep their types. |
| `DesignBrief_proofs` | `SubmissionsFitBoth` | `SubmittedFitsBoth` | Whatever is submitted fits the vocabulary its brief was checked against and the manifest its scene was checked against. |
| `DesignBrief_proofs` | `SpendStaysBounded` | `SpendIsBounded` | A business costs at most one call more than the repair rounds allowed, for every bound. |
| `DesignBrief_proofs` | `OnlyManifestsFail` | `OnlyManifestsFailComposing` | Composing an accepted brief ends in an UpstreamError only when the vocabulary it was made from is not the batch's, or that manifest does not admit the clip or repeats a template id; in a ValidationError only when a template repeats a slot or the vocabulary offered a family name no scene may carry. For any manifests, digests and briefs. |
| `DesignBrief_proofs` | `ExclusionsNeverCost` | `ExclusionsNeverReject` | However many exclusions the model proposes, the mandatory ones survive the cut and no brief is rejected for want of them. |
| `Discovery_proofs` | `TypeCorrect` | `TypeOK` | The variables of discovery keep their types, the cached answer included. |
| `Discovery_proofs` | `NearestAlwaysDistinct` | `NearestDistinct` | Every business is returned once, nearest first, and only a full list of nearer ones leaves one out, for any features, answers and limits. |
| `Discovery_proofs` | `RetentionAlwaysBounded` | `RetentionBounded` | A licence window ends no later than it should by the time the answer took and less than one cache lifetime, for every window, lifetime, latency and sequence of lookups, with any time between a miss, its answer and its parsing. |
| `Discovery_proofs` | `RequestAlwaysFits` | `RequestFits` | Whatever the geocoder answers, a search is made of an area within the contract and a request within the limits of Places, for all settings the program admits, but for a boundary whose points are one, which is asked for with radius 0; thinning a ring of any length included. |
| `Discovery_proofs` | `OneTableAlways` | `OneTable` | What a request names and what can be classified agree, for every set of tags or types, for the real tables of both providers and every set of categories but the one that names no type of Places ("other" alone). |
| `Enrichment_proofs` | `TypeCorrect` | `TypeOK` | The variables of the enrichments keep their types. |
| `Enrichment_proofs` | `BansAlwaysHonoured` | `BansAreHonoured` | A ban is honoured within the rules' lifetime plus one download and one wait, for any settings and any number of enrichments and hosts. |
| `Enrichment_proofs` | `OutcomesFollowLastPage` | `OutcomeFollowsLastPage` | What an enrichment that does not raise reports is what the last page any of its fetchers returned says: its profile if fetched, nothing if it is empty, unavailable only if there was none; for any pages, hosts and number of enrichments. A denial is reported whatever was found. |
| `Enrichment_proofs` | `NoContactEverSurvives` | `NoContactSurvives` | Whatever the page, no address, link or telephone number as the patterns know them is left in a profile. |
| `Enrichment_proofs` | `ProfilesAlwaysFit` | `ProfileFits` | Whatever the page, a profile keeps to its limits and says nothing twice, blank or too short. |
| `Enrichment_proofs` | `ReturnAlwaysComesNearer` | - | Every step of an enrichment leaves it fewer awaits, and nothing else lengthens it: the variant behind EnrichmentEnds, for any pages, hosts and number of enrichments. |
| `Enrichment_proofs` | `AwaitsAlwaysBounded` | - | At most twelve awaits lie before an enrichment, the second fetch included, and none only when it has returned. |
| `Enrichment_proofs` | `RulesKeepPromise` | - | The cached rules of every host implement the abstract CacheEntry, step by step: what the model lets happen to them is within what the response cache promises. |
| `Enrichment_proofs` | `AnyForgettingIsCovered` | - | The other direction: whenever CacheEntry lets go of a host's rules, that is a step of Enrichment, or changes nothing; so whatever eviction and expiry do to rules in the shared cache is covered, and only putting them is Enrichment's own. |
| `Extraction_proofs` | `AssembleKeeps` | - | What is assembled from any content, of any length, is a profile without contact details that keeps to its limits. |
| `Extraction_proofs` | `ProfilesKeep` | - | The same of the profile of every page, and of the profile of no page. |
| `MakeoverBatch_proofs` | `TypeCorrect` | `TypeOK` | The batch's variables keep their types. |
| `MakeoverBatch_proofs` | `ResultsAlwaysMatchJobs` | `ResultsMatchJobs` | Every recorded result is what the render service said of that business's job. |
| `MakeoverBatch_proofs` | `PollingAlwaysBounded` | `PollingIsBounded` | No job is polled past its deadline by an interval and a request or more, for every value of the settings. |
| `MakeoverBatch_proofs` | `NeverPrematureTimeout` | `NoPrematureTimeout` | A job that ended more than one request before the deadline is never reported as timed out, for any interval, timeout and latency. |
| `MakeoverBatch_proofs` | `BatchKeepsPromise` | `Promise` | The batch implements BatchPromise step by step, for any number of businesses and whatever the render service does. |
| `MakeoverBatch_proofs` | `EndAlwaysComesNearer` | - | Every step of the batch and every tick of a poll brings its end nearer, whatever the render service does: the variant behind BatchEnds, for any number of businesses and any settings. |
| `MakeoverBatch_proofs` | `WorkIsBounded` | - | What a batch has left to do is between nothing and MostSteps, and it is nothing only when the batch is over. |
| `ProjectLifecycle_proofs` | `TypeCorrect` | `TypeOK` | The variables of the project lifecycle keep their types under every interleaving and crash. |
| `ProjectLifecycle_proofs` | `NoDanglingFileEver` | `NoDanglingFile` | No row, and no handler about to save or build, ever names a file missing from the store, for any set of handlers and actors. |
| `ProjectLifecycle_proofs` | `PageAlwaysWhole` | `PageIsWhole` | A page never names an asset that was not copied beside it, and a live one always has its before-image. |
| `ProjectLifecycle_proofs` | `TakedownAlwaysHolds` | `TakedownHolds` | Once a row is taken down and no handler holds an older snapshot, only the start of a new run can bring the project or its page back, for any set of handlers. |
| `ProjectLifecycle_proofs` | `PublishedAlwaysComplete` | `PublishedIsComplete` | Without overlap a published row has a successful render and a before-image and is not taken down. |
| `ProjectLifecycle_proofs` | `PageAlwaysFollowsRow` | `PageFollowsRow` | Without overlap every page that is written shows what the row says at that moment. |
| `ProjectLifecycle_proofs` | `RowKeepsGateButReruns` | `GateButReruns` | Without overlap every change of the row is a step of the abstract publication gate, or a new run saved over a project that was taken down: a takedown is lost in that one way, which project_rerun shows. |
| `ProjectLifecycle_proofs` | `DigestsAlwaysTrue` | `DigestsTrueAtSave` | Without overlap the digests a finished save reports are those of the files in the store, for any renders and artifacts. |
| `ProjectLifecycle_proofs` | `TakedownsSurviveSerially` | - | Without overlap no publish that began before a takedown undoes it: what the repository says of takedowns is true of one handler at a time, and project_lost_takedown shows that it takes two to break it. |
| `ProjectLifecycle_proofs` | `PageAlwaysSettles` | - | When only commands act, one at a time and none killed, the page left behind when a command ends shows the row as it left it: a page goes stale only through the API, an overlap or a crash. |
| `RateLimiter_proofs` | `TypeCorrect` | `TypeOK` | The limiter's variables keep their types. |
| `RateLimiter_proofs` | `OneSleeperEver` | `OneSleeper` | Only the holder of the lock ever sleeps, for any number of coroutines. |
| `RateLimiter_proofs` | `RateNeverExceeded` | `RateCap` | By the time of the n-th return n - 1 whole intervals have passed, for every interval, every lateness and any number of coroutines. |
| `RateLimiter_proofs` | `GapAlwaysFloored` | `GapFloor` | Two consecutive requests for a key are at least an interval minus the lateness of the event loop apart. |
| `RateLimiter_proofs` | `WaitsStayBounded` | `WaitIsBounded` | Lateness does not add up along the queue: whoever finds n others there is served within n + 1 slots and one lateness, for any interval, lateness and number of coroutines. |
| `RateLimiter_proofs` | `PromisesStayShort` | - | Among finitely many coroutines nobody is ever promised its turn later than a slot for each of them and one lateness from now: the bound on a wait that Enrichment assumes. |
| `ResponseCache_proofs` | `TypeCorrect` | `TypeOK` | The cache's variables keep their types. |
| `ResponseCache_proofs` | `CacheStaysBounded` | `BoundedNoDuplicates` | The cache never exceeds its bound and never holds a key twice, for any bound, keys and clients. |
| `ResponseCache_proofs` | `EvictionIsLru` | `EvictsLeastRecentlyUsed` | What is evicted is the entry used longest ago. |
| `ResponseCache_proofs` | `HitsAreFresh` | `HitIsFresh` | A hit left the provider less than its lifetime plus one request ago, for every lifetime and latency. |
| `ResponseCache_proofs` | `RefetchesStayFew` | `RefetchesAreFew` | While an answer stays in the cache no coroutine asks for it twice, for any number of coroutines and keys. |
| `ResponseCache_proofs` | `EveryEntryKeepsPromise` | - | Every key of the response cache implements the abstract CacheEntry: no hit, no late answer to another request and no eviction prolongs or alters an entry, for any bound, keys and coroutines. |

Why the invariants are stronger than what they prove:

* *ProjectLifecycle*: `Control` ties a handler's position to what it has already
  put on disk, found in the table, or copied to the page. Without it, nothing
  says that the files a handler is about to name exist.
* *ProjectLifecycle, one handler at a time*: `SerialControl` says the object in
  memory is sound, that the row is still the one `merge` compared, and what each
  use case may change. `RowKeepsGateButReruns` maps every step to a step of the
  gate, a stutter, or the commit of a new run over a takedown. `DigestsAlwaysTrue`
  rests on `Digests`: how far a run has come says which of its files it has put in
  place, and no other handler stores one meanwhile.
* *RateLimiter*: `Slots` (the next slot is at most a lateness short of a full
  interval after the last request, slots are an interval apart, and the next is
  never more than one away), `Queue` and `Deadlines`. The last says that whoever
  is at the i-th place can still afford i - 1 slots after the holder's latest
  return (`Soonest` and one lateness); a return moves `Soonest` by at most a slot
  and everybody up by one place. `PromisesStayShort` assumes finitely many callers
  and needs that no one is in the queue twice: by the pigeonhole theorem it is
  then shorter than there are callers.
* *ResponseCache*: `Fresh` (how soon an entry expires after it was fetched, and
  so will answers under way), and that the cache is a suffix of `ideal`.
  `RefetchesStayFew` holds beside it: a lookup misses only while no live answer
  is there, and then nobody is in `again`. `EveryEntryKeepsPromise` is a
  refinement for every key: `KeptWithout`, `KeptAppend`, `KeptTouch` and
  `KeptEvict` say what each operation on the dict does to the entry of a key.
* *MakeoverBatch*: `Waiting` (how far behind the deadline can be at each point)
  and `Answer` (how old the answer is that is looked at). `BatchKeepsPromise` is
  a refinement: every step is one of the promise's, or leaves its state alone.
  `EndAlwaysComesNearer` needs `Waiting` again: a poll can go on only while the
  deadline is less than an interval and a request behind.
* *DesignBrief*: `Control`, with what was true of the brief when accepted.
  `ExclusionsNeverCost` rests on `MandatoryKept`: what is listed first is lost to
  a cut only if the mandatory exclusions alone are more than the limit.
  `OnlyManifestsFail` follows the scene through `validate_against_manifest`: the
  template of a unique id is the one that was picked, and a family that is reached
  modulo the brief's length is one of the brief's, hence of the vocabulary.
* *Enrichment*: `Outdated`: a permission for a page since forbidden was asked
  for before the ban, wherever it is on its way (asked, cached, waiting). What a
  profile says is carried by `Honest`: a profile is what `Extraction` makes of
  some page, or of none, and what an enrichment that has returned reports
  agrees with the last page; `OutcomesFollowLastPage` is that part of it.
  `ReturnAlwaysComesNearer` needs only the types. `RulesKeepPromise` is a refinement for every host, and
  `AnyForgettingIsCovered` its converse for what the cache does on its own.
* *Extraction*: no invariant, but lemmas about every text: `Clean` leaves no
  address, link or number, because what is blanked last is what the blanking of
  the others may have brought together; `CleanAll` says nothing twice and no more
  than its limit. They are about texts and pages of any length (`AssembleKeeps`,
  `ProfilesKeep`), and `NoContactEverSurvives` and `ProfilesAlwaysFit` cite them.
* *Discovery*: `IInv`: an area is what some geocoder answer became, an answer
  under way is no older than `Latency`, and a cached one expires no later than that
  and one lifetime after it was retrieved.
  `NearestAlwaysDistinct` rests on ranks: the number of features nearer than one
  grows along the order (`RankFollows`), so no two share a rank, and as many
  ranks as features are all taken (`RankTaken`, by the pigeonhole theorems of the
  library). Hence the n-th exists, the list ascends (`OrderedAscends`), and who
  is not among the first n has n nearer (`OrderedPlace`). `RequestAlwaysFits`
  rests on `ThinFits` (what is left of a ring of any length is between the
  contract's bounds) and `AreaFits`, `OneTableAlways` on `OsmAgrees` and
  `PlacesAgrees`, which hold for every set of tags and of categories.

Only model-checked: liveness (`BatchEnds`, `EnrichmentEnds`), which the prover
does not reach. What can be proved of it is proved: the variants
(`EndAlwaysComesNearer` with `WorkIsBounded`, `ReturnAlwaysComesNearer` with
`AwaitsAlwaysBounded`) show that neither a batch nor an enrichment can go on for
ever; what is left to fairness is that it does go on. TLC adds that
it never gets stuck. The same holds of the limiter: `WaitsStayBounded` says that
time cannot pass a caller's deadline, not that time passes.

Of the properties of the runs that expect a violation, `TakedownSurvivesPublish`
is proved for one handler at a time (`TakedownsSurviveSerially`): its
counterexample needs the overlap it shows. `RowKeepsGateButReruns` is the like for
`GateSpec`, and `PageAlwaysSettles` for a stale page: without the API, an overlap or
a crash there is none. It assumes `Requests = {}`, a process without API requests.
`FailuresAreIsolated` has no such theorem.

Some of these theorems state no property of a run: the refinements of
`CacheEntry` have a parameter (the key), which TLC does not accept in a property
(TLC checked each for one key, written out); the variants, `ShortPromises` and
`PageSettles` (without requests) hold on the runs' instances too, and are left out
of the configurations, as the theorems say more. `AnyForgettingIsCovered` is about
one step and has no behaviour to check.

## 5. Where the text and the code differ

Checked by a run that TLC refutes:

* `project_lost_takedown`: a publish reads the project, a takedown commits, the
  publish merges and commits. Its snapshot says `takedown = False`, so the merge
  finds that column changed and writes it back
  (`publish_project.py:28-29` says a takedown must not be undoable this way).
* `project_stale_page`: a CLI command wrote a live page; the project is taken
  down through the API, which never builds pages, and the page stays
  (`landing_page_builder.py:14-17`).
* `batch_isolation`: a `NotFoundError` from the render service, or an exception
  of the SDK that is not translated, is no `UpstreamError`; it leaves the loop
  and the results before it are dropped (`run_makeover_pipeline.py:4-5`).
* `project_rerun`: a project is taken down and its pipeline is run again, with
  nothing overlapping. The new row is a fresh `Project`, a draft, and a publish puts
  it out (`save_project.py:46` against `publish_project.py:28-29`: "without a
  deliberate, separate reversal - there is none yet"). `GateButReruns` says there is
  no other such way.

Observed while modelling, not among the runs:

* A new run also forgets a publication and an uploaded picture, as
  `save_project.py:50-52` ("meant to replace") admits of the run's own results.
* A category narrows what is asked for, never what is returned: a `shop=bakery` that
  is also `amenity=cafe`, found by `--category bakery`, comes back as a cafe, and
  `--category retail` asks for every shop and returns bakeries and salons
  (`osm_taxonomy.py:79-94`, `overpass.py:89-96`; `main.py:71` says "Restrict to a
  category").
* A boundary whose points are all one has radius 0, and `_polygon_radius_clamped`
  has only an upper bound, although its comment says that Places rejects a radius
  outside (0, 50000] (`google_places.py:155-158`).
* A bounding box whose corners are no coordinates raises a `ValidationError`
  outside the `try` (`nominatim.py:129-133`): the lookup fails, where a box that is
  no list of numbers is ignored.
* A website address, a rule of robots.txt or a photo address that `urlsplit` or httpx
  refuses raises out of `EnrichBusinessProfile.execute` (`robots.py:100-106`,
  `httpx_fetcher.py:54-62`, `html_extractor.py:112-113`), where a dead host is an
  outcome.
* A manifest that repeats a slot within a template, or offers a family name longer
  than 64 characters, makes the composer raise a `ValidationError`, which is no
  `UpstreamError` and ends the batch (`scene.py:69`, `:138-145`; the manifest's own
  model, `capability.py:50-62`, does not refuse it).
* `_CONTROL` (`redaction.py:27`) does not list every invisible character: see
  Extraction in section 2.
* A publish that overlaps a failing re-run commits single columns into the new
  row: published, with a failed outcome (`README.md:25-27`).
* After a re-run that failed half way, or an upload whose name is an artifact's,
  the old row's digests no longer fit the files (`save_project.py:79-82`).
  `DigestsTrueAtSave` says what does hold.
* Two CLI commands may write their pages in the other order than their rows
  (`main.py:214` against `landing_page_builder.py:14-17`).
* A late wake-up shortens the next gap by its lateness (`per_key.py:62` against
  `:4-5`). `GapFloor` says by how much, `RateCap` that it never accumulates.
* The cache is not looked at again after the wait for the limiter, so two
  coroutines that miss together both ask (`cached_client.py:105` against `:3-6`).
* Tokens of an answer that could not be used are missing from the reported usage
  (`generate_design_brief.py:68` against `domain/model/llm.py:3-6`).
* Every brief reads the vocabulary again although the batch promises one reading
  (`generate_design_brief.py:54` against `run_makeover_pipeline.py:85-87`).
* The sign in the scene is the raw business name, which no guardrail has seen
  (`compose_scene_spec.py:80` against `brief_guardrails.py:20-21`).
* The browser asks for the rules again; when they are gone and cannot be read,
  the page plain HTTP found is dropped (`fallback_fetcher.py:47-49`).
* `fetched_at` is the instant a body is parsed, on a miss as well as from the
  cache (`google_places.py:98`, `overpass.py:78`), while the contract calls it
  the instant of retrieval (`provenance.py:59`); the thirty days of the Places
  terms are stretched by the time the answer took and up to a cache lifetime.
  `RetentionBounded` says that by no more. The sweeper the README and `retention.py:5` mention is not in the
  repository.
* Nothing calls `expired_fields`, and what the website provides carries the
  instant the directory answered (`enrich_business_profile.py:101`), so nothing
  stops an expired field from being rendered, which its docstring calls a bug
  (`business.py:114-115`).
* The business telephone "is captured deliberately from a structured field"
  (`redaction.py:24-25`), but it goes through the same `clean`, which removes
  whatever looks like one: only a number too short to match is left. A test
  expects it (`tests/unit/test_enrich_business_profile.py:130-136`).
* A page that has nothing but a name or a description counts as fetched, and
  neither enters the profile (`enrich_business_profile.py:90-93`, `:103-115`).
* Descriptors are cut to the limit when they are extracted, and again after
  redaction: those that redaction drops are not made up for by later ones
  (`html_extractor.py:85`).
* The page's own images are a fallback for "nothing structured named a photo"
  (`html_extractor.py:102-106`): when all that is named is not http, there is
  none.
* A rendered page that is empty takes the place of a shell that had facts, so the
  run comes back empty although "a thin server-rendered page still beats" that
  (`fallback_fetcher.py:48-49`). `OutcomeFollowsLastPage` states what the code does:
  the last page wins.
* Redirects are followed wherever they lead (`httpx_fetcher.py:58`); the rules
  and the limiter of the host that answers in the end are not asked.
* Which of two duplicates is kept depends on the order of the provider's answer,
  so two runs over the same data may differ (`dedupe.py:37-38` against
  `discover_businesses.py:43-46`).
* A search for the category `other` alone names no type to Google Places
  (`places_taxonomy.py:63-70`) and so asks for everything: the one search of which
  `OneTable` does not speak.

## 6. Not modelled

* The prompt and the price table: a text and a table, without state.
* Routing, error mapping, settings and wiring: no behaviour of their own; they
  appear as constants and as which adapter a port is.
* Parsing of HTML, of JSON-LD and of robots files, URL resolution, redirects:
  done by libraries, or given with the page and the rules.
* The list of attributions, which is presentation, and `expired_fields`, which
  nothing calls.
* Several processes on one rate limit: each has its own limiter, so an API and a
  CLI process together may ask twice as often. No text of the repository promises
  otherwise.
* The landing page's template and its script: presentation.

Keys of the limiter and entries of the dict of locks are independent, so one is
modelled; so are projects, under the assumption on uploads of section 2.

## 7. Plan

On disk: project lifecycle with its gate, limiter, batch with its promise, cache,
brief, enrichment with extraction, discovery. Every safety property that a passing
run checks has a theorem, and what enrichment assumes of the cache is tied to
`CacheEntry`, which the response cache implements, in both directions. What would
add most next:

1. The rest of that composition: the module of `Discovery` tied to `CacheEntry` in
   the same way; and that the time a request waits in `Enrichment`
   (`Wait`) is the limiter's bound is an argument (`WaitsStayBounded`,
   `PromisesStayShort`) and not yet one theorem about both.
2. Redirects: a fetch that ends at another host than the one whose rules were
   asked.
3. An abstract specification of the limiter, a schedule of slots without lock and
   sleepers, implemented by `RateLimiter`.
