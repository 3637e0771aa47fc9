---------------------------- MODULE SourceCrawl ----------------------------
(***************************************************************************)
(* How often one approved source is crawled and what its crawls bring      *)
(* home: the row of source_state, the producer that queues crawls          *)
(* (crates/feed-db/src/crawling.rs), the handler up to the gates           *)
(* (crates/feed-jobs/src/lib.rs), and the sitemap crawler with its         *)
(* watermark (crates/feed-crawler/src/lib.rs, sitemap.rs).                 *)
(*                                                                         *)
(* Attempts overlap, as JobQueue shows they may.  The clock is relative:   *)
(* what matters is the time since the last attempt and what is left of     *)
(* the backoff, the backoff unit being two minutes.                        *)
(***************************************************************************)
EXTENDS Integers, FiniteSets, FiniteSetsExt

CONSTANTS
    CrawlAttempt,   \* attempts of crawl_source jobs that may exist at a time
    FreshnessSlo,   \* freshness_slo_seconds, in units of the clock
    MaxBackoff,     \* 3600 s, in units of two minutes
    MaxExponent,    \* 5, the exponent at which the delay stops doubling
    Page,           \* pages the publisher may list in the sitemap
    Undated,        \* those listed with a date in their URL only
    PathDate,       \* that date
    ChildOf,        \* [Page -> Nat]: the child sitemap that lists it, 0 for the root
    MaxChildren,    \* max_child_sitemaps
    MaxItems,       \* max_items
    MaxArticles,    \* max_articles
    MaxSignal,      \* bound: dates the publisher gets to
    SameDay,        \* the publisher's dates may repeat: <lastmod> is often a bare day
    MissesPages     \* a child sitemap or an article may fail while the crawl goes on

ASSUME SourceAssumption ==
    /\ FreshnessSlo \in Nat /\ MaxBackoff \in Nat /\ MaxExponent \in Nat
    /\ MaxChildren \in Nat /\ MaxItems \in Nat /\ MaxArticles \in Nat
    /\ IsFiniteSet(Page) /\ Undated \subseteq Page /\ ChildOf \in [Page -> Nat]
    /\ MaxSignal \in Nat \ {0} /\ SameDay \in BOOLEAN /\ MissesPages \in BOOLEAN
    /\ \A k \in 0..MaxExponent : 2 ^ k \in Nat     \* which the provers do not know of powers

VARIABLES
    sourceRow,      \* sources: approved, kind, and whether its recipe may run
    sourceState,    \* source_state
    crawlJob,       \* whether an active crawl_source job exists
    openRuns,       \* attempts whose crawl_runs row is running
    crawlers,       \* [CrawlAttempt -> Crawler]
    listed,         \* [Page -> 0..MaxSignal]: edition in the sitemap, 0 if not listed
    crawled         \* [Page -> 0..MaxSignal]: latest edition brought home, 0 if none

sourceVars == <<sourceRow, sourceState, crawlJob, openRuns, crawlers, listed, crawled>>

NoMark == 0

SourceRow == [approved : BOOLEAN, kind : {"feed", "sitemap", "recipe"}, ready : BOOLEAN]

\* age has reached the objective also when there was no attempt; failures counts to one
\* beyond the exponent cap: the code makes no difference after that.
SourceState == [age : 0..FreshnessSlo, wait : 0..MaxBackoff, failures : 0..MaxExponent + 1,
                mark : NoMark..MaxSignal]

Batch == [Page -> 0..MaxSignal]
Empty == [p \in Page |-> 0]
\* mark: the watermark that was read, then the one that was reached.
Crawler == [at : {"idle", "started", "begun", "fetching", "fetched", "failed"},
            mark : NoMark..MaxSignal, items : Batch]
IdleCrawler == [at |-> "idle", mark |-> NoMark, items |-> Empty]

SourceInit ==
    /\ sourceRow \in {row \in SourceRow : row.approved /\ (row.ready => row.kind = "recipe")}
    /\ sourceState = [age |-> FreshnessSlo, wait |-> 0, failures |-> 0, mark |-> NoMark]
    /\ crawlJob = FALSE
    /\ openRuns = {}
    /\ crawlers = [a \in CrawlAttempt |-> IdleCrawler]
    /\ listed = Empty
    /\ crawled = Empty

-----------------------------------------------------------------------------
\* Sitemaps.

Signal(p, edition) == IF p \in Undated THEN NoMark ELSE edition
PublishedAt(p, edition) == IF p \in Undated THEN PathDate ELSE edition

\* Entries of the root and of the child sitemaps that could be fetched.
Entries(children) == {p \in Page : listed[p] > 0 /\ ChildOf[p] \in children \cup {0}}

\* The n latest of a set of entries; among equal dates the document's order decides.
Latest(n, S) ==
    {T \in SUBSET S :
        /\ Cardinality(T) = IF Cardinality(S) < n THEN Cardinality(S) ELSE n
        /\ \A p \in T, q \in S \ T : PublishedAt(p, listed[p]) >= PublishedAt(q, listed[q])}

Eligible(p, since) ==
    \/ Signal(p, listed[p]) = NoMark
    \/ since = NoMark
    \/ Signal(p, listed[p]) > since

NewWatermark(ranked) == Max({Signal(p, listed[p]) : p \in ranked} \cup {NoMark})

\* SitemapCrawler::crawl: what it may return for a watermark.
SitemapBatches(since) ==
    LET chosen == 1..MaxChildren
    IN  UNION {UNION {{[mark |-> NewWatermark(ranked),
                        items |-> [p \in Page |-> IF p \in got THEN listed[p] ELSE 0]] :
                       got \in UNION {IF MissesPages THEN SUBSET taken ELSE {taken} :
                           taken \in Latest(MaxArticles, {p \in ranked : Eligible(p, since)})}} :
                  ranked \in Latest(MaxItems, Entries(children))} :
              children \in IF MissesPages THEN SUBSET chosen ELSE {chosen}}

-----------------------------------------------------------------------------
\* The schedule.

Crawlable ==
    /\ sourceRow.approved
    /\ sourceRow.kind \in {"feed", "sitemap"} \/ sourceRow.ready
\* Mutant: a source that keeps failing is given up.
DueUnlessGivenUp ==
    sourceState.age = FreshnessSlo /\ sourceState.wait = 0 /\ sourceState.failures <= MaxExponent

DueForCrawl == sourceState.age = FreshnessSlo /\ sourceState.wait = 0

\* enqueue_due_crawl_jobs
EnqueueCrawl ==
    /\ Crawlable /\ DueForCrawl
    /\ ~crawlJob
    /\ crawlJob' = TRUE
    /\ UNCHANGED <<sourceRow, sourceState, openRuns, crawlers, listed, crawled>>

\* The delay after a failure when there have been n before it.
Backoff(n) == Min({MaxBackoff, 2 ^ Min({n, MaxExponent})})

CrawlClock ==
    /\ sourceState.age < FreshnessSlo \/ sourceState.wait > 0
    /\ sourceState' = [sourceState EXCEPT !.age = Min({@ + 1, FreshnessSlo}),
                                          !.wait = Max({@ - 1, 0})]
    /\ UNCHANGED <<sourceRow, crawlJob, openRuns, crawlers, listed, crawled>>

-----------------------------------------------------------------------------
\* The handler.

At(a, where) == crawlers[a].at = where
Goto(a, where) == crawlers' = [crawlers EXCEPT ![a].at = where]
Leave(a) == crawlers' = [crawlers EXCEPT ![a] = IdleCrawler]

\* A claim of the job, and handle up to the checks of the source.
StartAttempt(a) ==
    /\ crawlJob /\ At(a, "idle")
    /\ IF Crawlable THEN Goto(a, "started") /\ UNCHANGED crawlJob
                    ELSE crawlJob' = FALSE /\ UNCHANGED crawlers
    /\ UNCHANGED <<sourceRow, sourceState, openRuns, listed, crawled>>

\* begin_crawl_run closes the running rows of its own job, which is that of some of the
\* attempts there are.
BeginRun(a) ==
    /\ At(a, "started")
    /\ \E superseded \in SUBSET openRuns : openRuns' = (openRuns \ superseded) \cup {a}
    /\ Goto(a, "begun")
    /\ UNCHANGED <<sourceRow, sourceState, crawlJob, listed, crawled>>

ReadWatermark(a) ==
    /\ At(a, "begun")
    /\ crawlers' = [crawlers EXCEPT ![a].at = "fetching", ![a].mark = sourceState.mark]
    /\ UNCHANGED <<sourceRow, sourceState, crawlJob, openRuns, listed, crawled>>

\* Other kinds of source bring no watermark.
FetchListing(a) ==
    /\ At(a, "fetching")
    /\ \E batch \in IF sourceRow.kind = "sitemap" THEN SitemapBatches(crawlers[a].mark)
                    ELSE {[mark |-> NoMark, items |-> Empty]} :
          crawlers' = [crawlers EXCEPT ![a].at = "fetched", ![a].mark = batch.mark,
                                       ![a].items = batch.items]
    /\ UNCHANGED <<sourceRow, sourceState, crawlJob, openRuns, listed, crawled>>

\* The document cannot be fetched or parsed, or a gate refuses the batch.
CrawlRefused(a) ==
    /\ At(a, "fetching") \/ At(a, "fetched")
    /\ crawlers' = [crawlers EXCEPT ![a] = [IdleCrawler EXCEPT !.at = "failed"]]
    /\ UNCHANGED <<sourceRow, sourceState, crawlJob, openRuns, listed, crawled>>

\* complete_crawl_run: items, run and source_state in one transaction, which a run that
\* is no longer running rolls back.
CompletedState(a) == [age |-> 0, wait |-> 0, failures |-> 0, mark |-> crawlers[a].mark]

RunIsOpen(a) == a \in openRuns
\* Mutant: the cursor is written although the items were rolled back.
CompleteCrawlKeepingCursor(a) ==
    /\ At(a, "fetched")
    /\ openRuns' = openRuns \ {a}
    /\ crawled' = IF RunIsOpen(a)
                  THEN [p \in Page |-> Max({crawled[p], crawlers[a].items[p]})] ELSE crawled
    /\ sourceState' = CompletedState(a)
    /\ Leave(a)
    /\ UNCHANGED <<sourceRow, crawlJob, listed>>

CompleteCrawl(a) ==
    /\ At(a, "fetched")
    /\ IF RunIsOpen(a)
       THEN /\ openRuns' = openRuns \ {a}
            /\ crawled' = [p \in Page |-> Max({crawled[p], crawlers[a].items[p]})]
            /\ sourceState' = CompletedState(a)
       ELSE UNCHANGED <<openRuns, crawled, sourceState>>
    /\ Leave(a)
    /\ UNCHANGED <<sourceRow, crawlJob, listed>>

\* fail_crawl_run
FailedState == [sourceState EXCEPT !.age = 0, !.wait = Backoff(sourceState.failures),
                                   !.failures = Min({@ + 1, MaxExponent + 1})]

FailCrawl(a) ==
    /\ At(a, "failed")
    /\ IF RunIsOpen(a)
       THEN openRuns' = openRuns \ {a} /\ sourceState' = FailedState
       ELSE UNCHANGED <<openRuns, sourceState>>
    /\ Leave(a)
    /\ UNCHANGED <<sourceRow, crawlJob, listed, crawled>>

\* Crash, database error, shutdown or lost lease; the runner closes the run or cannot.
Abandon(a) ==
    /\ ~At(a, "idle")
    /\ openRuns' \in {openRuns, openRuns \ {a}}
    /\ Leave(a)
    /\ UNCHANGED <<sourceRow, sourceState, crawlJob, listed, crawled>>

\* The queue decides the job, at the latest after its budget.
SettleCrawlJob ==
    /\ crawlJob
    /\ crawlJob' = FALSE
    /\ UNCHANGED <<sourceRow, sourceState, openRuns, crawlers, listed, crawled>>

-----------------------------------------------------------------------------
\* The publisher lists a page or edits one: with a date no older than any before.
Publish(p) ==
    LET newest == Max({listed[q] : q \in Page \ Undated} \cup {0})
    IN  /\ sourceRow.kind = "sitemap"
        /\ \E edition \in (IF p \in Undated THEN {1} ELSE newest..MaxSignal) \ {0} :
            /\ p \in Undated \/ SameDay \/ edition > newest
            /\ listed[p] # edition
            /\ listed' = [listed EXCEPT ![p] = edition]
        /\ UNCHANGED <<sourceRow, sourceState, crawlJob, openRuns, crawlers, crawled>>

\* Operators approve and pause a source; recipes become stale and are rebuilt.
OperateSource ==
    /\ \/ sourceRow' = [sourceRow EXCEPT !.approved = ~@]
       \/ sourceRow.kind = "recipe" /\ sourceRow' = [sourceRow EXCEPT !.ready = ~@]
    /\ UNCHANGED <<sourceState, crawlJob, openRuns, crawlers, listed, crawled>>

CrawlerStep(a) ==
    \/ StartAttempt(a) \/ BeginRun(a) \/ ReadWatermark(a) \/ FetchListing(a)
    \/ CrawlRefused(a) \/ CompleteCrawl(a) \/ FailCrawl(a) \/ Abandon(a)

SourceNext ==
    \/ EnqueueCrawl \/ CrawlClock \/ SettleCrawlJob \/ OperateSource
    \/ \E a \in CrawlAttempt : CrawlerStep(a)
    \/ \E p \in Page : Publish(p)

\* The producer's scan, the clock, and the queue that settles every job unless a runner is stuck
\* (JobQueue!Drains).
ScheduleFairness == WF_sourceVars(EnqueueCrawl) /\ WF_sourceVars(CrawlClock)
                    /\ WF_sourceVars(SettleCrawlJob)

SourceSpec == SourceInit /\ [][SourceNext]_sourceVars /\ ScheduleFairness

-----------------------------------------------------------------------------
SourceTypeOK ==
    /\ sourceRow \in SourceRow /\ sourceState \in SourceState
    /\ crawlJob \in BOOLEAN /\ openRuns \subseteq CrawlAttempt
    /\ crawlers \in [CrawlAttempt -> Crawler]
    /\ listed \in Batch /\ crawled \in Batch

(* The watermark never hides an article: what the sitemap lists with a date up to it has been
   crawled in that edition, however attempts overlap, fail and are abandoned
   (complete_crawl_run writes items and cursor together; SitemapCrawler::crawl filters by a
   watermark it read earlier).  It takes dates that only move forward and crawls that
   miss no page and no cap. *)
CaughtUp ==
    \A p \in Page \ Undated :
        (sourceRow.kind = "sitemap" /\ listed[p] > 0 /\ listed[p] <= sourceState.mark)
            => crawled[p] >= listed[p]

(* An approved source that may be crawled gets a job again and again, whatever failures and
   backoffs it has had (enqueue_due_crawl_jobs, fail_crawl_run). *)
NoSourceForgotten == []<>(crawlJob \/ ~Crawlable)
=============================================================================
