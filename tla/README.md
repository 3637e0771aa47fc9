# Verification of company-feed-server

company-feed-server discovers where companies publish news, crawls those
places, and exports what it found. Its processes share nothing but one
PostgreSQL database: every piece of work is a row of the `jobs` table, claimed
by one of many runner loops under a lease, and every attempt leaves an audit
record in a table of its own. This directory holds TLA+ models of that machinery,
TLC configurations that check them on small instances, and proofs that TLAPS
checks for every value of the parameters.

## Inventory

| Component | State | Operations | Interacts with | Correct when |
|---|---|---|---|---|
| Durable job queue (`feed-db/src/jobs.rs`, `jobs`) | one row per job: status, priority, run_after, attempt count, lease token and expiry | enqueue (upsert on the active key), claim (sweep, advisory lock, `FOR UPDATE SKIP LOCKED`), heartbeat, complete, record failure | runners, producers, operators, all through SQL | one active row per key, one holder per claim, budget respected, settled is final, everything queued is decided |
| Job runner (`feed-scheduler/src/lib.rs`) | the claimed job, its token, the heartbeat timer, the pinned handler future | `run_once`: select over handler, heartbeat, shutdown; cleanup; retry decision | queue, one handler per job type | a job is executed by one runner at a time, cleanup terminates |
| Crawl attempt records (`feed-db/src/crawling.rs`, `recipes.rs`, handler in `feed-jobs/src/lib.rs`) | `crawl_runs`, `company_news_recipe_runs` | begin (superseding abandoned runs), complete, fail, cancel | handler and the runner's cleanup write the same rows | a closed record is final, one open record per job, nothing left open, a completed job has a result |
| Feed items (`crawling.rs`) | `raw_crawl_items`, `feed_items`, revisions | the item loop of `complete_crawl_run`, quarantines and their release | crawl, content stage, exports | no batch is aborted by a unique index, a withdrawn row comes back only where it may |
| Source state and schedule (`crawling.rs`) | `source_state`: failures, next crawl, cursor | updated by complete / fail, read by the producer | crawl, producer | backoff bounded, reset by success, no source forgotten |
| Sitemap crawl (`feed-crawler/src/lib.rs`, `sitemap.rs`) | the watermark inside the cursor | rank, truncate, filter by watermark, take a bounded number | source state | the watermark hides no edition that was not brought home |
| Article fetching (`feed-crawler/src/lib.rs`) | request slots of the process and of each host | fetch a batch in groups by host, follow redirects and framework data, report | recipe crawls, direct imports | a batch ends, and names an article or a failure for each candidate |
| Crawl gates (`feed-jobs/src/lib.rs`, `feed-crawler/src/lib.rs`, `feeds.rs`, `crawling.rs`) | the report of a crawl, the articles of other outlets | scope, namespace, topic, claims of other outlets, overlaps, thresholds, quarantines, verdict | recipes, feed items, audits | what is published meets its contract after every gate has taken its part |
| Recipes (`recipes.rs`) | recipes, their state, runs | activate, refresh, supersede, retire, verdict of a run | crawl handler, extraction | one active recipe per source, and it has not worn out |
| Candidate validation (`validation.rs`, `sources.rs`) | candidates, validation runs, decisions, sources | refill, reconsider, validate, accept, reject, keep for review, enqueue the first crawl | discovery, operators, crawl | a veto stands, an approved source has an accepted candidate, every candidate is validated |
| Discovery (`discovery.rs`, `feed-discovery/src/lib.rs`) | discovery runs, candidates, the accumulator of a search | begin, search, probe sitemaps, complete, fail, cancel | validation | what is kept of a source does not depend on the order of responses |
| News extraction (`news_extraction.rs`) | extraction runs, adapter requests | begin, ask, import by origin, build, seed, complete, fail, cancel | queue, web adapter, recipes | a completed job has a completed run; a retry asks anew |
| Content crawl (`content_crawling.rs`) | per-item content state, attempts | begin, succeed, fail, cancel | feed items | each item fetched until it succeeds or gives up |
| Exports (`exports.rs`, `feed-exporter`) | export runs, item checkpoints, a git working copy, its remote and its mirror | select, write, commit, push, mirror, checkpoint | feed items | the published tree is readable and catches up, what is checkpointed was committed |
| Job producers (`feed-jobs/src/lib.rs`) | none | periodic scans that fill the queue up to a target | queue | targets respected, no due work forgotten |
| Payload offloader and retention (`bins/feed-payload-offloader`, `scripts/`) | raw item payloads, object store | claim a batch, upload, stamp; delete old rows | feed items | no payload lost |
| Universe import and seed sync (`universe.rs`, `config_sync.rs`) | companies, external ids, import runs | import, activate in waves, sync at start-up | discovery | a release, the name and homepage of a seed and a source id stand; its primary listing should |
| Read API, admin commands, parsing, domain policy | none | reads, thin calls, pure functions | | see "Not modelled" |

The behaviours that are hard here come from three facts. Leases are by clock, so
a runner that is slow, stopped or cut off goes on working for a job that
somebody else has been given; only the predicates of its SQL statements stop
it. A handler's work is several transactions, and a crash, a shutdown or a lost
lease may fall between any two of them, or inside one. And the runner's own
cleanup works on the rows its handler is writing. `PROJECT.json` lists each
hazard at its line with the property that covers it, or a note why none does.

## Modules

| Module | Models | Kind |
|---|---|---|
| `JobLifecycle` | what the queue promises about a job | abstract specification |
| `JobAttempts` | what an attempt's handler can rely on from queue and runner: `JobLifecycle` with the attempts as processes | abstract specification, one level down |
| `JobQueue` | `jobs.rs` and `run_once` | detailed specification, refines `JobLifecycle` and `JobAttempts` |
| `CrawlRuns` | the crawl handler and its audit records, on top of `JobQueue` | composition: every step is a `JobQueue` step joined with what the handler does, or a handler step |
| `ContentCrawl` | the content crawl: its producer, batches, results and cancellation, and the source crawl's writes to the same items | composition: `JobAttempts` with the content tables |
| `NewsExtraction`, `Discovery` | extraction and discovery runs with their handlers | compositions: `JobAttempts` with their tables |
| `WebAdapter` | what a request to a web adapter comes to: retry rules and the checks of an answer | component, pure operators |
| `FeedItems` | the stored articles of one source and their keys | component |
| `SourceCrawl` | schedule, `source_state` and sitemap crawls of one source | component, overlapping attempts |
| `ArticleFetch` | concurrent article requests under slots | component |
| `CrawlGates` | what a crawl passes before it publishes, while others do the same | component, one crawl per outlet |
| `PayloadOffload` | offloader workers and the retention script | component |
| `ExportSelection` | which rows the archive gets | component, pure operators over changing rows |
| `ExportRuns` | export attempts over one working copy | component, blocking threads |
| `Candidates` | candidates, validations, decisions, sources | component with a job table of its own |
| `Recipes` | recipes, builders and crawl verdicts | component |
| `UniverseImport` | imports, waves, seed sync | component, overlapping transactions |
| `MCJobQueue`, `MCCrawlRuns`, `MCContentCrawl`, `MCNewsExtraction` | instances for TLC | |
| `MCExportRuns`, `MCCrawlGates`, `MCUniverseImport` | instances of one part each, for what that part gets wrong | |
| `MCPublication` | instance of `FeedItems`, `SourceCrawl`, `ArticleFetch`, `PayloadOffload`, `ExportSelection`, `ExportRuns` | |
| `MCOnboarding` | instance of `Candidates`, `Recipes`, `NewsExtraction`, `Discovery`, `UniverseImport`, `CrawlGates` | |
| `JobQueueProofs`, `JobTableProofs` | theorems about `JobQueue` | |
| `JobAttemptsProofs` | attempts and their runners; `JobQueue` implements `JobAttempts` | |
| `AttemptLayerProofs` | what every module over `JobAttempts` needs: types of jobs and attempts, attempts are numbered by claims; `JobAttempts` implements `JobLifecycle` | |
| `CrawlRunsProofs` | theorems about `CrawlRuns`, and that it refines `JobQueue` and `JobAttempts` | |
| `ContentCrawlProofs` | theorems about `ContentCrawl`, and that it refines `JobAttempts` | |
| `OnboardingProofs` | theorems about `Recipes`, `Candidates`, `NewsExtraction`, `Discovery` (the last two refine `JobAttempts`), `UniverseImport`, `CrawlGates`, and `MCOnboarding` | |
| `ArchiveProofs` | theorems about `SourceCrawl`, `ArticleFetch`, `FeedItems`, `PayloadOffload`, `ExportSelection`, `ExportRuns`, and `MCPublication` | |

*Parts.* The components that `MCPublication` and `MCOnboarding` put together share no
variable: what one of them gives another is an input that the other
chooses freely (a crawl's batch is any batch, a verdict any verdict the gates may come
to), which is more than the code can do. Their product would only multiply states, so
that the constant-valued variable `part` says which of them a behaviour works; the others stay as
they begin. Every property holds of every part's own specification (`FeedSpec`,
`ExportSpec`, `GatesSpec`, ...), and it is these the theorems are about. The one exception is that
extraction and discovery both run on the job table of `JobAttempts`, where each
reads the jobs of its own keys. Of the two instances themselves only the types are stated
(`PublicationIsTyped`, `OnboardingIsTyped`; `PublicationIsItsParts` is that a behaviour of
`MCPublication` is one of each of its parts).

### JobQueue

`jobs[j]` is the row `j = <<key, n>>`, the n-th row ever inserted for a key
(`jobs_one_active_key_idx` is what makes them a sequence); status "absent" is a row not
inserted yet. `workers[w]` is one runner loop: its program counter `pc` names the `await`
of `run_once` it is at.

* *Time* is a countdown: `wait` is `run_after - now`, `lease` is
  `lease_until - now`, `beat` is the time to the next heartbeat; `Tick`
  decrements them. The SQL compares times only with `CURRENT_TIMESTAMP`, so
  nothing else about time can be observed and the clock is unbounded without a bound.
* *Transactions* on one row are one action. Claiming is two, because
  `claim_job` first runs the sweep as a statement of its own (`Sweep`), then
  the claim transaction (`Claim`). `record_job_failure` is two
  (`LockForFailure`, `RecordFailure`) with the row lock in between: time can pass
  and the lease can end while it is held; the claim skips the row and the
  sweep waits for it.
* *The advisory lock* of a company-news claim makes claims one at a time. Its
  remaining effect is that `CURRENT_TIMESTAMP` is older than the lock by the
  time waited, which shortens the lease (`ClaimAge`, bounded by `MaxStale`). A
  claim that waited tests which jobs are due at its current time, not at the
  time it began: it may claim a job a little earlier than the code would.
* *Tokens.* The random uuid of a claim is the attempt number the same claim
  stores: both are new within their row, and a token is compared only with its own row's.
* *A crash, or a database error that leaves `run_once`* through `?`, is `Crash`:
  possible at every step after the claim. The row stays as it is.
* *Priorities* decide among claimable rows; `run_after` and `created_at`, the
  further keys of the ordering, are left out, so any row of the highest priority may be taken.
* Left out: payloads, error texts, the recording of timestamps that no guard reads.

### CrawlRuns

A run row is named by its job and the attempt that opened it: a claim starts
one handler, which opens at most one run. `handlers[w]` is the handler future of
the runner `w`, alive from the claim until the runner leaves `run_once`: that is
how long `tokio::pin!` keeps it, also when it is no longer polled.

* *A statement* that updates rows others may have locked is: match the rows it
  wants in its snapshot, wait until none is locked, look at their status again
  (as READ COMMITTED does), and go on with those still running. From then on its
  transaction holds their locks (`LockedRows`).
* `begin_crawl_run` is `FindAbandoned` (the rows its first UPDATE matches),
  `LockRecipeRuns` (that UPDATE finishes, the second one matches),
  `LockCrawlRuns` (the second finishes) and `OpenRun` (the INSERT and the
  commit). No part of it looks at the lease.
* `complete_crawl_run` and `fail_crawl_run` are `CloseCrawl` (the UPDATE with
  `status = 'running'` takes the row lock or reports NotFound) and `CommitCrawl`;
  what else these transactions write is the subject of later modules.
  `complete_company_news_recipe_run` is `DecideRecipe` and `CommitRecipe`.
* `cancel_running_crawl_runs_for_job` is `FindRecipeRuns`, `FindCrawlRuns` and
  `CancelCrawlRuns`; `cleanups[w]` is its open transaction. Each of its two UPDATEs
  tests the fence for itself, when it starts: the token and the status, not the expiry.
* The foreign key of the INSERT waits for a job row locked `FOR UPDATE`; the
  reverse, a claim that skips or a failure transaction that waits for a job row because an
  INSERT holds its key-share lock, is left out: it delays them by the length of that
  transaction. (Where that transaction belongs to a handler that is no longer
  polled, the wait is one more instance of what `crawl_cleanup` shows.)
* `MayCrash = FALSE` turns off crashes and database errors, for the runs that
  show that something goes wrong without them.

### JobAttempts

The clock, the runners and the tokens of `JobQueue` matter to a handler's records only
through a few facts: every claim starts an attempt numbered by the row's
attempt count; a predecessor may still be working; only the attempt whose token
is in the row settles it; after a lost lease, a failure or a shutdown the runner
cleans up. `JobAttempts` says just that, so that the modules of the job types need not
carry the queue's timing. `ImplementsAttempts` is the refinement: the phase of
an attempt is the program counter of the runner that holds its token, and an
attempt no runner holds any more is "gone". `Timely` excludes that a lease runs
out under a handler that is polled; `MayCrash = FALSE` excludes process deaths.

### ContentCrawl

`states[i]` and `feed[i]` are the rows of `content_crawl_state` and `feed_items`
for an item, `records[<<a, i>>]` the row of `content_crawl_attempts` that
attempt `a` opened for it (an attempt takes one batch and an item is in a batch at most once).

* `CountJobs` and `InsertJob` are the one statement of
  `enqueue_due_content_crawl_job`: its snapshot and its effect. Several
  processes execute it; the key is random, so nothing makes one of them see the other.
* `BeginBatch` is the whole transaction, serialised by its advisory lock:
  supersede the job's running records, return their items, select, open the new
  records. What is not due, not approved, or locked by somebody is any subset (`out`).
* `SucceedItem` and `FailItem` are the transactions for one item. A row that is not as
  expected rolls everything back, and the handler ends with a retryable error.
* `FindRunning` and `CancelRunning` are the cancelling transaction. Its
  fence is evaluated in the first statement's snapshot, and its rows are tested again
  when their locks are free; a handler no longer polled that holds such a lock is what
  `CrawlRuns` is about, and is left out here.
* `Observe` and `Quarantine` are what the source crawl and the audits do to a stored item.
* `tries` stops at `MaxTries`: the code asks only whether it has been reached.
* Left out: hashes, error texts, retry delays (a state that is due may be
  selected at any time), the coverage statistics.

### NewsExtraction and Discovery

Both are handlers over `JobAttempts`: each step is one call of the handler, and between
two of them the attempt may lose its lease, be interrupted or die, its successor may begin,
and the runner may clean up.

* `extractions[a]` is the run that attempt `a` has *created*. The unique index on running runs and the
  `ON CONFLICT ... RETURNING id` of `BeginExtraction` hand an attempt the run of an earlier one, so a
  handler remembers whose run it works on (`run`), and a run remembers who closed it
  (`by`). `requested` records which attempts asked the adapter under one id: the id is the idempotency
  key. Origins are imported one at a time in any order (`ImportOrigin`), then
  recipes are built (only that they are; what it does is in `Recipes`) and discovery is seeded.
* `discoveries[a]` is a run of its own for every attempt; `CompleteDiscovery` writes it whatever its
  status is, as the code does, and `FailDiscovery` does not.
* A search holds a set of sources, each with its best observation; `Accumulate` is
  `CandidateAccumulator::insert`. `Respond` takes a response in any order, from any address a redirect
  may lead to, `AccumulateNext` its observations in any order, `ProbeSitemaps` the second phase, which
  begins when the first has no target left. `Replaces` is the comparison that decides what is kept,
  `SourceOf` the canonical key, which depends on the kind, `Plainness` the preference for one of its
  addresses, `Ignored` what is never a candidate. `finish` strips the query of an HTML candidate
  (`PageOf`, `StoredUrl`), and that is the URL `CompleteDiscovery` stores.
* Both ask a web adapter. `WebAdapter` takes any reply (refused connections, time-outs, statuses, bodies
  that are cut off or are not of the schema, suggestions beyond the limit, twice, unranked or with URLs the checks
  exclude) and derives what the client makes of it: an answer, an error to be retried, or one that is
  final (`RefusalOf`). `Outcomes` is the set of these, and what the two handlers branch on.
* `Seedings` are the URLs a discovery begins with: those an extraction left in its job, without a call
  of the adapter, or the adapter's answer. When the adapter fails the search goes on from
  the configured entry points, and ends with the adapter's error only if there are none (`GatherSeeds`).

### FeedItems

`feedRows[r]` is the r-th row stored for a source, with its three keys and the policy it is withdrawn
under. `InsertItem` and `RefreshItem` are one turn of the item loop of `complete_crawl_run`: the
`INSERT ... ON CONFLICT DO NOTHING`, the lookup with its ORDER BY, and the UPDATE with its
three CASEs (`Refreshed`: a key that another row owns is left as it was, except the URL).
`NoBatchIsRejected` asks of every item that could come next whether the matched row would break an
index: that error would abort the crawl, and the next one would bring the same item.
`QuarantineArtifacts`, the quality quarantine and `WithdrawSource` (a recipe is retired because its articles are
another company's) are the writers besides. Bodies, revisions and
raw payloads are written next to these and decide nothing here.

### SourceCrawl

* *The schedule.* `age` is the time since the last attempt, `wait` what is left of the retry delay, counted in
  units of two minutes; `Backoff(n)` is the saturating computation. `DueForCrawl` is the producer's
  query; `sourceRow` changes as operators and recipes decide (`OperateSource`).
* *Attempts* are processes that may overlap; `openRuns` is which of them has an open run, and decides
  whether `complete_crawl_run` commits or rolls back (`CompleteCrawl`, `RunIsOpen`). That a run is
  closed by a successor or a cleanup is what `CrawlRuns` shows in detail.
* *Sitemaps.* `listed[p]` is the edition (the date) a page has in the sitemap now, `crawled[p]` the latest
  one that was stored. `SitemapBatches(since)` is what `SitemapCrawler::crawl` may return for the watermark
  it *read* (`ReadWatermark`) before the fetch (`FetchListing`). Ranking takes the latest
  `MaxItems`, the filter keeps what is after the watermark and the last cap takes `MaxArticles`.
* `SameDay`, `MissesPages` and the caps are constants, because `CaughtUp` depends on them: with dates that
  are bare days, a child that fails, or more new entries than a crawl takes, the watermark does
  pass entries that were never crawled. The instance excludes the three, and the property says so.

### ArticleFetch

`fetches[c]` is where the future of a candidate is: queued in its group, waiting for the host's permit, then
for one of the process, requesting, following a redirect or the data of its framework, done. Groups
are by host (`buffer_unordered`), a group hands over results in order (`buffered`), permits are
taken host first and given back before the next hop, and a batch is reported when all groups have arrived
(`CollectReport`), in the order of the listing: the first candidate of a canonical URL keeps it.
`JudgeReport` is what a recipe crawl then moves from the articles to the failures.

### CrawlGates

`registry` holds what no crawl changes (kind, company, issuer, publication, verification order, whether the
scope is required), `live` the outlets still approved with a healthy recipe, `articles[o][s]` whether an
article of the outlet is absent, public, withdrawn for a releasable reason, or held. A crawl (`gates[o]`) goes through stages,
each a query or a decision of `handle_recipe_crawl` or of the feed branch of `handle`:

* `BeginFetch`, `FetchRecipe` / `FetchFeed`: who else has the publication (read before the fetch, counted after
  it), what the page brings, the thresholds of the contract (`Shortfalls`), the company scope, the
  dominant namespace, the topic;
* `ReadClaims`, `SettleClaims`: which of the articles outlets of other issuers have in public, read first and judged
  later; whoever does not name its company against its rivals gives way, the crawl or the others;
* `WeighRecipe`, `WeighFeed`: overlaps with approved feeds and preferred recipes, and the share of a feed's
  articles that name the company;
* `WithdrawArtifacts`, `Publish`, `Fail`: the quarantine of earlier items, `complete_crawl_run`, and the failure
  path (blocked by transient fetches, superseded, retired, or counted, which may or may not wear the recipe out). A
  recipe retired for the ownership of its articles withdraws them all.

`report` is what the crawl believes: what became of each article, and the reasons for refusal.
`Recompute` is `recompute_recipe_report_correctness`: it drops the reasons that are thresholds and states
them again, which each gate that takes articles out has to end with. It drops the reason of the company
scope (`Recomputed` has "relevance") and does not judge it anew, as the code: the contract that
`PublishedMeetsContract` speaks of is what the recomputation restores, and `scope_relevance` shows
what becomes of the rest. What names a company is
a table (`mentions`, `scoped`), and so is which articles an outlet brings under the title of another
(`repeats`: overlaps are counted by URL or by title, `Known`); `RatioBps` is the code's integer arithmetic. `Audit` is the ownership
audit with `--apply`, which withdraws articles while crawls run; `Decide` is everything that retires or
restores an outlet meanwhile.

### PayloadOffload

`rawItems[r]` says where the payload of a row is by the row; `objects` which payloads the store has. `ClaimBatch` is
the `FOR UPDATE SKIP LOCKED` select, whose locks last until `StampBatch` commits or `BatchFails`
rolls back; `PutObject` lies between them. `provenance` are rows that a feed item points at. `Retention` is
the nightly script: any subset of the rows that it may delete.

### ExportSelection and ExportRuns

* The selection is three ranked stages, each an operator on the rows that the last one left
  (`CanonicalRows`, `TitleRows`, `EntityRows`); stories are re-crawled, hydrated, shown and withdrawn in
  between. `DocumentId` is what the exporter refuses to have twice. The generation depends on
  documents and contents only, so that a re-crawl that found nothing new changes nothing.
* `ExportRuns` has one thread for each attempt; `held` is FALSE once the handler that awaits it has lost
  the job, and the thread goes on. It writes the files of v2 one after the other, articles, indexes, then
  the head: a file that is right is left alone (`SkipFile`), any other is truncated and then written
  (`TruncateFile`, `WriteFile`), and a write that is cut short leaves it "torn". The main repository holds v2
  unless a mirror does; v1 is written first where the target says so.
* `v2` is that tree in five places: the working copy, the new index `git add` builds under its lock, the
  index, the last commit, and the remote. The git commands are steps of their own, in the main
  repository and then in the mirror: `Status`, `BeginAdd`, `StageFile` for one file at a time, `EndAdd`, `Commit`, `Push`.
  Of two threads in one working copy the second finds the index locked and fails (`GitRefuses`), or adds
  what the first has half written.
* `staleLocks` are the repositories in which a git command died and left its `index.lock`: no code removes it, and every
  later export fails there. A failed push of the main repository fails the run and is made up for by
  the next one, which pushes whether or not it commits; one of the mirror is only logged
  (`MirrorPushFails`), and `MirrorUnchanged` returns before the push.
* `alone` and `overlap` are history variables: which exporter has had the working copy to itself, and which of commit and remote
  was made by one that had not. What two exporters mix up is not undone by anything in the code, so that the claims about whole
  generations are made for the others.

### Candidates

`candidates`, `feeds`, `decisions`, `validations` are the rows; `queue` and `validators` a job table and
handlers of its own, since what matters is the budget of *these* jobs (`MaxTries`), their stale
attempts and the unique running validation. Candidates are numbered by confidence, as the refill orders them.
`EnqueueUnvalidated` is the refill or the operators' command; `JudgeFeed` the fetch with the policy
(any of its outcomes that `FeedOutcomes` derives from what may be observed), where the claim of another
company is read; `CompleteValidation`, `Activate`, `Refuse` and `KeepForReview` are the four writes, each with
its own test of the status by then; `EnqueueFirstCrawl` a transaction of its own. Operators decide at any moment.

### Recipes

`recipes[r]` is a version with its health. A build lists recipes, then activates under the source's lock
(`ActivationLock`, `LookUpRecipe`, `ActivateRecipe`), then supersedes what it found redundant one by one; a
crawl reads its recipe, compares it with others, is judged, and closes its run
(`CloseRecipeRun`), each time with what it had read. Two recipes may be duplicates in two orders,
by verification time and by public item counts; both are there (`Before`, `MayOverlap`).

### UniverseImport

`companies[c]` has the row with its curation (`owner`, text, schedule, release), `externals` the mapping of
source ids. An import reads and classifies (`ReadUniverse`, under the lock of its document) and commits
later; a wave locks what it chooses (`SelectWave`, SKIP LOCKED) and releases it (`CommitWave`);
`SyncSeeds` is what every worker writes at its start. A revision stands for the text it brings, so
that "who wrote this" can be told from the value. Names and homepages of a seeded company are left alone by an import
(`Upserted`); its primary listing is not (`Listed`, which is `sync_listings`), nor is its schedule fixed: `SyncSeeds`
may bring it forward. `DecisionsStand` says exactly what does stand, and `seed_listing` is about the listing.

## Runs

| Run | Instance | Shows |
|---|---|---|
| `queue` | 2 company-news keys with cap 1 and a crawl key, 2 runners that both serve the first, which has 2 attempts, lease 2, heartbeat 1, claims up to 1 late, any delay | types and budget, `OneHolder`, `NoStrandedRow`, `LockedRowIsOwned`, `NewsWithinCap`, `OnlyHolderSettles`, the refinements of `JobLifecycle` and `JobAttempts`, and `Drains`: unless a runner is stuck, every active job is eventually settled |
| `crawl_fences` | 1 source, 2 runners, 2 attempts, crashes, any delay | `ClosedRunsAreFinal`, `CompletedJobHasResult` and the types |
| `crawl_timely` | a source and a news key, 2 priorities, lease 3, heartbeat 1, claims up to 1 late, crashes, timely heartbeats | `NoOverlap`: two handlers never execute one job; `OneOpenAttempt`, `RecipeRunFollowsCrawl`, `NoOpenRunLeft` |
| `crawl_cleanup` | 1 source, 2 runners, no crashes, with fairness | *violation* of `CleanupFinishes` |
| `content_records` | 1 item, a job with two attempts and one with one, target 1, 2 producers, 2 tries, crashes, lost leases | the types, `RunningTogether`, `ClosedRecordsAreFinal`, `SucceededIsHydrated`, `JobsWithinTarget` |
| `content_stranded` | 2 items, 1 job with two attempts, no crashes | *violation* of `ItemsReturn` |
| `publication` | six parts, see below | the types; `NoBatchIsRejected`; `NoSourceForgotten`, `CaughtUp`; `BatchSettles`; `NoPayloadLost`; `OneRowPerDocument`; `GenerationCatchesUp`, `ReadersFindArticles` |
| `onboarding` | six parts, see below | the types; `VetoIsFinal`, `ApprovedHasCandidate`, `EveryCandidateHasItsTurn`; `ActiveIsTrusted`; `CompletedExtractionHasRun`; `FoundAtItsBest`; `DecisionsStand`; `PublishedMeetsContract` |
| `extraction_retry` | 1 extraction job with two attempts, crashes | *violation* of `RetriesAskAnew` |
| `mirror_push` | 2 articles, an index and a head, 1 exporter, 1 fault: a push of the mirror | *violation* of `MirrorCatchesUp` |
| `scope_relevance` | 5 articles, a recipe that 2 of them are about, another issuer's feed | *violation* of `IrrelevantBatchIsRefused` |
| `seed_listing` | 2 companies, one seeded with a primary listing, 2 revisions | *violation* of `SeedPrimaryStands` |

*Why the bounds are enough.* Everything that protects a job is about a stale
holder and a current one, hence two runners. Two attempts are one that can be
retried and a final one, the two cases every branch of the queue tells apart. A
lease of 2 with a heartbeat of 1 has the heartbeat before, at and after
expiry; 3 is the smallest lease that leaves room for a claim that is one unit
late. The runs have one row for each key; that a
settled row and its successors never make two active ones is proved (`OneActiveRow`), for any number of them. What depends on larger numbers (more runners, keys,
attempts) is what the theorems are for. Items of the content crawl interact only through the
limit of a batch, so one item with three attempts of two jobs has every overlap of a
stale, a current and a foreign attempt; two tries are one that may be repeated and the last;
two producers are the worker's and the operator's.

*The parts of `publication`.*

| Part | Instance | Why it is enough |
|---|---|---|
| feed items | 2 external ids, 2 canonical URLs, 2 URL identities, 3 rows | two values of each key make every row agree or disagree with an item in each of them; three rows let an item point at three different ones |
| source | 2 attempts, 2 pages of which one is in a child sitemap, 2 dates, backoff up to 2 | one attempt reads a watermark that the other one moves; the backoff is reached, capped and reset |
| fetches | 2 batches, 3 candidates on 2 hosts, 2 slots, 1 for each host, 1 redirect | a redirect leads to the host another fetch holds, and both batches compete for the slots |
| offload | 3 rows, 2 workers, objects of 2 rows, 1 fault | disjoint and competing batches, a crash before or after the upload, retention in between |
| selection | 4 stories, 2 share classes of one entity, 3 URLs of which two are one | a pair that each of the three stages has to merge, and one that none may |
| export | 1 article and the head, 2 exporters, 1 fault, a target that is dual-written and pushed and one that is mirrored | a thread left behind by its handler beside its successor; a file cut short; a git command that dies; a failed push; a change between listing and commit |

*The parts of `onboarding`.*

| Part | Instance | Why it is enough |
|---|---|---|
| candidates | 2 candidates of one feed, one a sitemap, 2 validators, 2 jobs with budgets of 2 and 1, queue target 1, 1 fault | two candidates share a source row; the one with the larger budget is retried, the other is at its last attempt |
| recipes | 2 sources of one publication, 2 contents, 2 versions, 1 builder, 1 crawl, 1 failure allowed | a verdict about a recipe that was refreshed, superseded or replaced since it was read |
| extraction, discovery | 1 job each with two attempts; 1 origin; 3 addresses of which two are one source and the third is ignored, of unlike scores, met as link, probe and redirect | two attempts on one run; sightings of one source in every order |
| universe | 3 companies, 2 revisions of which the second gives an id to another company, 2 importers, 2 waves of up to 2, 3 days, 1 seed | overlapping waves and imports of rows that the seed sync rewrites |
| gates | 2 outlets, recipe against recipe of one company, recipe of a rival, feed of a rival; 2 articles that each name one; two pages, one with failures; thresholds of 1, ratio of one half | each outlet withdraws what the other has judged by; a threshold is met before a gate and missed after it |

*Fairness.* `LiveQueueSpec` assumes that the clock runs, that a queue statement that can
run finishes (weak fairness), and that a runner which
is stopped is restarted. Polling needs strong fairness: a runner may be stopped and restarted
again and again, but it polls infinitely often (`run_until_cancelled` claims first thing
in its loop, and a runner is operated to run). Crashes are not fair and not
bounded. That handlers and cleanups return is *not* assumed as fairness, because nothing in the code ensures it:
`crawl_cleanup` is a cleanup that waits for ever, and the next attempt's handler can wait behind it while its heartbeats
keep the job (`begin_company_news_extraction_run` may wait like that too, `news_extraction.rs:318`). It is the hypothesis of `Drains`, by name: `RunnersReturn`. `LiveCrawlSpec` makes the statements of handlers and cleanups
fair where no lock stops them, which is what makes its counterexample one.

`PublicationFairness` and `OnboardingFairness` are the conditions of the parts' own specifications, each
weak fairness: the producers scan periodically (`EnqueueCrawl`, `EnqueueExport`, `EnqueueUnvalidated`), the
clock runs, the queue settles what it was given (`SettleCrawlJob`: that is `Drains` of `queue`, for crawls whose
runner is not stuck; `NoSourceForgotten` is satisfied by a job that stays queued, too), handlers that
can go on do (`ValidatorStep`, the offloader's three
steps), workers claim and sweep (`BeginExport`), a slot that stays free is taken and a request ends, by its timeout at the
latest. An exporter's thread is not fair, since nothing limits the time of a git command: that all of them return is `ExportsEnd`,
a hypothesis of `GenerationCatchesUp` beside the one that no index is left locked. Faults (`ExporterFault`, `ExporterCrash`, interruptions, lost leases)
are not fair and are bounded, as are the
publisher's and operators' changes: the properties speak of what happens once they leave off.

*Violations.* `crawl_cleanup` is a runner that is told to stop, or
loses its lease, while its handler is suspended inside a transaction that has
locked the run row: the future is neither polled nor dropped while the cleanup
waits for that row. A runner in that state never moves again, and the cleanup of a later
attempt of the same job waits behind it; the run therefore does not check for
deadlock, because without crashes two runners can end like that.
`content_stranded` is an attempt whose lease runs out before it takes its batch: nothing in the transaction notices, the
current attempt completes the job, and the cleanup of the late one is refused by the token it no longer has. The items stay
"running", a status no selection picks. (The sweep of a job whose last attempt
lost its lease ends the same way.) `RunningTogether` still holds: the records stay open too. The cleanup of crawls has the same
fence, and leaves crawl runs open in the same way, against `docs/database.md:141-145`.
`extraction_retry` is an attempt that asked the web adapter and was lost with its run open: the next one is handed the same run,
hence the same idempotency key, for a request of its own, which a conforming adapter refuses for good.
`mirror_push` is one failed push of the mirror: every later export finds nothing to commit there and returns before its push, so
the remote stays behind until the archive changes, where the comment says that the next export makes up for it.
`scope_relevance` is a recipe of whose articles too few are about its company: the reason is recorded, a later gate takes out an
article that another issuer claims and judges the report anew, and what is left is published.
`seed_listing` is a worker that writes the primary listing of its seed configuration, and an import that commits another one.

## Proofs

The parameters are arbitrary within the assumptions their modules name. `QueueAssumption`: any finite number of
runners and keys, any budgets, delays, and a lease longer than the heartbeat, as
`JobRunnerConfig::validate` demands. `ContentAssumption`, `CandidatesAssumption`, `DiscoveryAssumption`,
`GatesAssumption`, `SourceAssumption`, `SelectionAssumption`, `ExportAssumption` and `AdapterAssumption` say that sets are finite,
limits natural numbers, and tables have the shape of what they stand for; `ArticleLimitsAssumption` adds
that a host has at least one slot and at most as many as the process, as `HtmlArticleCrawler::new` demands. Three groups of theorems have
hypotheses of their own, which the configuration does not imply: those about timely heartbeats
(`Timely`, `MaxStale + Heartbeat < Lease`) and `WatermarkIsSound`. They are named where they come up below.

*The inductive invariant* `QueueInv` (in `JobQueueProofs`) has six parts. The types; a token a
runner remembers is positive and at most the attempt count of its row
(`TokenBound`); a row not inserted has no attempts (`AbsentUntouched`); the shape of
pending and running rows (`NoStrandedRow`); `OneHolder`; and `LockedRowIsOwned`.
`OneHolder` alone is not inductive: a claim could hand out a token that another
runner remembers, which `TokenBound` with `NoStrandedRow` (a running row's token is its
attempt count) excludes. `LockedRowIsOwned` keeps a failure transaction from
reviving a row, and rests on the claim and the sweep respecting the row lock.

*The table* (`JobTableProofs`): the lemma `TableFate` reduces the eighteen actions to five
things that can happen to the table (kept, inserted, started, released, cancelled, or swept),
and each property of rows is proved from that list:
`OneActiveRow`, `NewsStaysWithinCap`, `HolderSettles`, `SettledStays` and
`QueueRefinesLifecycle`. `NoOverlapWhenTimely` needs the additional assumption
`MaxStale + Heartbeat < Lease`: the runner's configuration check does not
imply it, since the wait for the advisory lock comes out of the lease.

*Attempts* (`JobAttemptsProofs`): `QueueRefinesAttempts` shows that `JobQueue` implements
`JobAttempts`, so what is proved over `JobAttempts` holds of handlers run by the queue.
The process of an attempt is the runner that remembers its token; there is one at
most (`DistinctAttempts`), since a claim stores a number above every number a runner
remembers. A move of a runner changes one process and no other (`RunnerMovesTo`). With
`Timely` the refinement needs `MaxStale + Heartbeat < Lease` again: only
then no lease runs out under a handler (`LeaseAhead`), which excludes both a
`LoseAttempt` and a claim or sweep of the handler's row.

*The chain of refinements* is closed at both ends. Below, every module with handlers implements the layer it is
built on: `CrawlRefinesQueue` and `CrawlRefinesAttempts`, `ContentRefinesAttempts`, `ExtractionRefinesAttempts` and
`DiscoveryRefinesAttempts`: none of their steps does to jobs and attempts what `JobAttempts` would not allow.
Above, `AttemptsRefineLifecycle` shows that the layer, with several attempts of a job alive at once, implements
`JobLifecycle`, where a job has one at a time: an attempt touches the job only when it begins and, as the
`Current` one, when it ends.

*The crawl records* (`CrawlRunsProofs`): every step of
`CrawlRuns` is a step of `JobQueue` or leaves its variables alone, so all of the above holds of
the handler with its runner. Its own invariant, `CrawlInv`, adds to `QueueInv` that
two runners never work on one attempt (`DistinctAttempts`, above), that attempts nobody
has claimed left no record (`UnopenedRuns`), that a row is locked by one transaction and
stays running while it is (`LocksExclusive`, `LockedAreRunning`), what a handler knows at each of its
steps (`HandlerInv`), and that a handler which returned `Ok` left its result
(`SuccessHasResult`). None of it mentions the lease, because the handler's statements do not.
`ClosedRunsAreFinal` alone is not inductive: a commit overwrites its row without
testing it again, which is right only because the row was locked while running. `RecordFate`
says once what a step can do to a record; the proofs have one lemma for each
action that shows its fate and one that shows it keeps `CrawlInv`. From these follow
`ClosedRunsStay` and `ResultRecorded`; the latter needs in addition that only `Complete`
under a valid lease makes a job completed (`CompletedFate`), and that the token
it is valid for is the attempt whose result the handler wrote.

*Open records under timely heartbeats* (`CrawlRunsProofs`): `OneOpenAttemptHolds`, `RecipeRunsFollow` and
`NothingLeftOpen` do rest on the lease, and assume `Timely` and `MaxStale + Heartbeat < Lease`. Without them they
are false: nothing in `begin_crawl_run` asks for the lease, and the cleanup of a late attempt is refused
(`crawling.rs:981`), as `content_stranded` shows of the content crawl. `begin_crawl_run` closes the open records of a job in two
statements and opens its own in a third, so it is wrong to say that there is one record at most *because it
closed the others*: somebody could open one in between. `TimelyInv` adds to
`CrawlInv` and `LeaseAhead` what the runner that holds the job knows of all open records of that job, statement by statement
(`HolderSees`): before its own it sees every recipe row in the first snapshot, then every crawl row in the second,
then none; afterwards its own only; in its cleanup what its two reads found. That knowledge is kept because only the holder opens
records (under timely heartbeats nobody else's handler is polled while it holds the job), and the others can only
close some, at which these sets shrink. A job nobody holds has either let go of all of its
records (`ReleasedAreClosed`) or was abandoned on its last attempt, where a record may stay open and no property says otherwise.

*The content crawl* (`ContentCrawlProofs`): `ContentInv` adds to the types and to
`RunningTogether` that an attempt which has not begun its batch has no record
(`UnopenedRecords`), which rests on attempts being numbered by claims
(`UnclaimedAttempts`); otherwise `BeginBatch` could overwrite a closed record. And it
replaces "succeeded items are hydrated" by "hydrated and stamped"
(`SucceededIsStamped`): without the stamp the next `Observe` would undo it. Each
action has a lemma that it keeps the invariant; `CancelKeepsTables` is the shared
step of superseding and cancelling. The theorems `ContentTypeCorrect`, `RecordsAgree`,
`HydratedStays`, `ClosedRecordsStay` and `PrivateUntouched` follow, for any
number of items, jobs, attempts and producers. `TargetIsKept` counts: active jobs and producers that have counted and not yet
inserted are together less than target and producers. `CountJobs` adds one producer when fewer jobs are active than the
target, `InsertJob` trades a producer for a job, and nothing else makes a job active (`OnlyInsertActivates`: a
retried job was active before).

*Candidates* (`OnboardingProofs`): `CandidateInv` has `VetoIsFinal` and `ApprovedHasCandidate` with the types of what decisions read. All
that can happen to statuses and sources is listed once (`DecisionStep`), and the two are proved from that
list; `ApprovedHasCandidate` needs that rejecting an accepted candidate disables the source two candidates may share.
`CandidatesAreTyped` has the budgets: `ValidationInv` adds that tokens stay within a job's tries (`JobTokens`) and that a validator works
under a token some claim has handed out (`AttemptTokens`).

*Recipes*: `RecipeInv` is the types with the unique index, `ActiveIsTrusted`, and that what a builder or
crawl has read is a recipe that exists. No assumption relates what was read to what is there: each of the writes
tests for itself, which is why the theorem holds for any number of late verdicts.

*Extraction*: `ExtractionInv` adds that a job has at most one running run, that a handler past its beginning has a run, and
that a handler which returned `Ok` leaves a run completed by its own attempt (`SucceededHasCompleted`): it closed it
itself, and nobody rewrites a closed one. A completed job is one whose last attempt returned `Ok`.

*Discovery*: `SearchInv` says that each source a search holds is the best of the observations seen of it. It is kept because
`Replaces` is a total preorder by score and plainness: the lemmas show that for any finite set of addresses. `KnownInv` is that what
is stored has one row for each URL and kind, which names a completed run. `complete_discovery_run` rewrites a closed
run, so closed runs are *not* final here, and `DiscoveriesAreDone` cannot be had like that of extraction. `DoneInv` has instead that a run which
is completed stays so (`RunsStayCompleted`: the other transactions do test the status), that an attempt which succeeded has its own run completed,
and that the last attempt of a completed job is one that exists (`LastAttempts`).

*Universe*: `UniverseInv` is the types, `WavesHold` (what a wave has locked is staged still, and no two waves hold one
company) and `OriginsAgree` (a curated row has its seed's text). `DecisionsStand` alone is not inductive: without `WavesHold` a commit
could release what another wave has released before, and put it off. The theorem is about what the formula lists: releases and their
days, the names and homepages of seeds, source ids. The primary listing is not among them, and cannot be (`seed_listing`).

*Gates*: `GatesInv` says of each crawl, by the stage it has reached, that the thresholds it misses are among its reasons, that
articles out of the company's scope are gone, that kept articles are uncontested against the claims *it has read*, and that a crawl that
is about to publish has no reasons. The reason of relevance is no part of it, since it is not judged anew. It is per crawl and mentions no other, so that it stands whatever the other outlets do
meanwhile; each gate has a lemma that taking articles out and recomputing restores it.

*The onboarding instance*: `OnboardingIsTyped` joins these. `OnboardingInv` is the conjunction of the parts' invariants, save
that `ExtractionInv`, which speaks of all jobs, is claimed only where extraction is the part that works.

*The watermark* (`ArchiveProofs`): `WatermarkIsSound` is `CaughtUp` for any pages, child sitemaps, attempts and caps under
two hypotheses, `DatesMoveForward` (what the publisher lists anew has a date later than all that is listed) and `NothingIsMissed` (no child fails, and
no cap is met). Neither can be dropped: with `SameDay`, with `MissesPages` or with a single item for a crawl TLC refutes
`CaughtUp` in a few steps, which is what the code does with such sitemaps. `WatermarkInv` says of *every* mark, the stored one and the one
each attempt has read or reached, that it is `Sound`: a date that was listed, with all that is listed up to it at home or
among the items of the crawl that has it. That it is said of each attempt's own mark is what makes overlapping
attempts harmless, in whatever order they commit. `LatestIsAll` is the lemma on the
ranked selection: the latest n of a set no larger than n are all of it.

*Articles*: `SlotsBoundRequests` is `SlotsAreHeld`, that no host and no process has more requests under way than slots.
`FetchesDoNotBlock` is the safety half of `BatchSettles`: while a candidate is not done, some fetch can take its next step (`SomeFetchGoesOn`).
Whoever holds one of the process's slots can go on, whoever holds only a host's waits for nothing but those, and when no fetch is
under way the first open candidate of the first open group may start (`FirstOfFirstGroup`). `EveryCandidateIsReported` is that a drawn-up report has each candidate of
its batch once, as an article or as a failure, and two articles never have one URL (`ReportInv`).

*The selection*: `DocumentsAreDistinct` is `OneRowPerDocument`, for any stories, whatever is shown, hydrated or re-crawled. Rows with
one document id have one URL of one entity, and the last stage keeps only the first of those in an
order which is total because the last key is the row's id.

*Storage and export*: `FeedTypeOK` contains the three unique indexes and implies `NoBatchIsRejected` by the order of the lookup
alone (`MatchedRowTakesItem`). `OffloadInv` adds that what a worker has uploaded is stored before it is stamped. `ExportInv`
has, for an exporter that has been alone since it began (`Sole`), that nobody else is at work and how far its files have got,
stage by stage (`Progress`): what it has written is in the working copy, whole; what it has added is in the index under its lock;
what it has committed is what it wrote. A commit it makes is therefore `Complete`, and so is what is pushed of it, whatever
torn files and half-made indexes earlier exporters have left: each file is compared and written again, and `git add` reads all of
them. Of exporters that overlap nothing of this holds, and nothing is claimed: `overlap` remembers which of commit and remote is
theirs, until an exporter that is alone replaces it.
`ArchiveIsReadable` and `CheckpointsArePublished` follow.

*Only model-checked:* liveness (`Drains`, `NoSourceForgotten`, `BatchSettles`, `GenerationCatchesUp`,
`EveryCandidateHasItsTurn`), since fairness and `ENABLED` are outside what these proofs cover. Every other property of
a passing run is stated by a theorem. The reverse are the theorems that no run spends a property on: `OneActiveRow`, `SettledStays`, `PrivateUntouched`, `HeldRowsStay`,
`CheckpointsArePublished`, `SlotsBoundRequests`, `FetchesDoNotBlock`, `EveryCandidateIsReported`, `DiscoveriesAreDone` and the refinements by the handlers.
`WebAdapter` has only operators: what its answers lead to is checked and proved where they are used.

## Where to go on

1. The reasons of `WatermarkIsSound`'s hypotheses turned round: which entries exactly a crawl that meets a cap leaves behind,
   as a bound that holds without them.
2. `CrawlRuns` over `JobAttempts` instead of `JobQueue`, and `Recipes`, `SourceCrawl` and `Candidates` as refinements over the same layer,
   which would let one behaviour follow an article from its source to the archive.
3. The two orders of preference among overlapping recipes: `Recipes` has behaviours in which
   each of two recipes retires for the other, where `docs/database.md:194-197` says "Runtime HTML-to-HTML checks compare only
   against an older preferred recipe, preventing symmetric retirement". A run of `Recipes` with that as its one property.

## Not modelled

* Feed, HTML, sitemap and robots parsing, sanitising, URL normalisation, HTTP and rendering are transformations of data
  without shared state, covered by the repository's example-based tests. Where a decision
  depends on them, the model has a table or any of the outcomes.
* The text heuristics of the policies (topic, scope, editorial quality) are likewise observations that may come out either
  way, or tables of which article names which company.
* The read API and its pages are queries without state of their own; the operators' decisions that go through
  it are actions of `Candidates`. The admin command line is thin calls of database operations; those on modelled
  tables are actions of the modules of these tables. The worker binaries are wiring.
* The web adapter (any reply of it, see `WebAdapter`), model services, publishers, git remotes and object stores are external; a call
  of one has any result.
* Statement-level details that no property tells apart: revisions, hashes, statistics, error texts, times no guard reads.
