--------------------------- MODULE NewsExtraction ---------------------------
(***************************************************************************)
(* The extraction of a company's news: company_news_extraction_runs        *)
(* (crates/feed-db/src/news_extraction.rs) and the handler of              *)
(* extract_company_news jobs (crates/feed-jobs/src/lib.rs), on             *)
(* JobAttempts.  A run belongs to the job, not to the attempt: an attempt  *)
(* that finds the job's run open goes on with it.  What the handler does   *)
(* to recipes is in Recipes, what it imports goes through FeedItems.       *)
(***************************************************************************)
EXTENDS JobAttempts, WebAdapter

CONSTANTS
    ExtractionKey,   \* keys of the extract_company_news jobs
    Origin,          \* origins of the articles that an adapter suggests
    IncludeCovered   \* keys of the jobs that ask for companies with a feed too

VARIABLES
    extractions,     \* [ExtractionAttempt -> Extraction]: the run that the attempt has begun
    extractors,      \* [ExtractionAttempt -> Extractor], the handler futures
    requested,       \* [ExtractionAttempt -> attempts that asked the adapter under that run's id]
    seeded           \* jobs whose publications were handed to discovery

extractionVars == <<attemptVars, extractions, extractors, requested, seeded>>

ExtractionJob == {j \in Job : KeyOf(j) \in ExtractionKey}
ExtractionAttempt == {a \in Attempt : JobOf(a) \in ExtractionJob}

\* by: the attempt that closed the run.
Extraction == [status : {"none", "running", "completed", "failed", "cancelled"},
               by : ExtractionAttempt \cup {<<>>}]
NoExtraction == [status |-> "none", by |-> <<>>]

\* refusal: "permanent" or "transient", of the error that the run is going to be closed with.
Extractor == [at : {"none", "begun", "answered", "read", "imported", "built", "refused"},
              run : ExtractionAttempt \cup {<<>>}, left : SUBSET Origin,
              refusal : {"none", "permanent", "transient"}]
NoExtractor == [at |-> "none", run |-> <<>>, left |-> {}, refusal |-> "none"]

ExtractionInit ==
    /\ AttemptsInit
    /\ extractions = [a \in ExtractionAttempt |-> NoExtraction]
    /\ extractors = [a \in ExtractionAttempt |-> NoExtractor]
    /\ requested = [a \in ExtractionAttempt |-> {}]
    /\ seeded = {}

-----------------------------------------------------------------------------
Handles(a, at) == attempts[a].phase = "handling" /\ extractors[a].at = at

RunningExtractions(j) == {r \in ExtractionAttempt : JobOf(r) = j /\ extractions[r].status = "running"}

\* begin_company_news_extraction_run: the unique index leaves a job one running run, and the
\* insert that conflicts returns it.
ExtractionOf(a) ==
    LET running == RunningExtractions(JobOf(a))
    IN  IF running = {} THEN a ELSE CHOOSE r \in running : TRUE

BeginExtraction(a) ==
    /\ Handles(a, "none")
    /\ LET r == ExtractionOf(a)
       IN  /\ extractions' = [extractions EXCEPT ![r].status = "running"]
           /\ extractors' = [extractors EXCEPT ![a].at = "begun", ![a].run = r]
    /\ UNCHANGED <<attemptVars, requested, seeded>>

\* Mutant: the run is closed whatever its status is.
ClosableAnyhow(r) == TRUE

\* complete_ and fail_company_news_extraction_run: only a running run is closed.
ClosableExtraction(r) == extractions[r].status = "running"

\* A run that is not found to be running is an error that is retried.
CloseAndReturn(a) ==
    LET r == extractors[a].run
    IN  IF ClosableExtraction(r)
        THEN /\ extractions' = [extractions EXCEPT ![r] = [status |-> "completed", by |-> a]]
             /\ HandlerReturns(a)
        ELSE HandlerStops(a, TRUE) /\ UNCHANGED extractions

SkipCovered(a) ==
    /\ Handles(a, "begun") /\ KeyOf(JobOf(a)) \notin IncludeCovered
    /\ CloseAndReturn(a)
    /\ extractors' = [extractors EXCEPT ![a] = NoExtractor]
    /\ UNCHANGED <<requested, seeded>>

\* The id of the run is the id of the request.
RequestId(a) == extractors[a].run

RefuseWith(a, refusal) ==
    extractors' = [extractors EXCEPT ![a].at = "refused", ![a].refusal = refusal, ![a].left = {}]

\* The adapter fails or answers.  It may well reject another request under an id it knows, and
\* such a refusal is permanent.
AskAdapter(a) ==
    /\ Handles(a, "begun")
    /\ requested' = [requested EXCEPT ![RequestId(a)] = @ \cup {a}]
    /\ \E refusal \in Outcomes("extract_news") :
          IF refusal = "none" THEN extractors' = [extractors EXCEPT ![a].at = "answered"]
                              ELSE RefuseWith(a, refusal)
    /\ UNCHANGED <<attemptVars, extractions, seeded>>

\* The articles are fetched: the crawler fails, no article is there for a transient reason and
\* no publication makes up for them, or there is something to import.
ReadArticles(a) ==
    /\ Handles(a, "answered")
    /\ \/ \E refusal \in {"permanent", "transient"} : RefuseWith(a, refusal)
       \/ \E origins \in SUBSET Origin :
            extractors' = [extractors EXCEPT ![a].at = "read", ![a].left = origins]
    /\ UNCHANGED <<attemptVars, extractions, requested, seeded>>

\* One crawl run for each origin; an origin whose source is disabled is passed over.
ImportOrigin(a) ==
    /\ Handles(a, "read")
    /\ \E o \in extractors[a].left :
        \/ extractors' = [extractors EXCEPT ![a].left = @ \ {o}]
        \/ RefuseWith(a, "transient")
    /\ UNCHANGED <<attemptVars, extractions, requested, seeded>>

\* The publications are tried and recipes activated (Recipes).
BuildRecipes(a) ==
    /\ Handles(a, "read") /\ extractors[a].left = {}
    /\ extractors' = [extractors EXCEPT ![a].at = "imported"]
    /\ UNCHANGED <<attemptVars, extractions, requested, seeded>>

\* A discover_company job of the run's own key, when the company has no healthy feed.
SeedDiscovery(a) ==
    /\ Handles(a, "imported")
    /\ \/ KeyOf(JobOf(a)) \notin IncludeCovered /\ UNCHANGED seeded
       \/ seeded' = seeded \cup {extractors[a].run}
    /\ extractors' = [extractors EXCEPT ![a].at = "built"]
    /\ UNCHANGED <<attemptVars, extractions, requested>>

CompleteExtraction(a) ==
    /\ Handles(a, "built")
    /\ CloseAndReturn(a)
    /\ extractors' = [extractors EXCEPT ![a] = NoExtractor]
    /\ UNCHANGED <<requested, seeded>>

\* The run fails with the error that is returned, if it can be closed.
FailExtraction(a) ==
    /\ Handles(a, "refused")
    /\ LET r == extractors[a].run
       IN  IF ClosableExtraction(r)
           THEN /\ extractions' = [extractions EXCEPT ![r] = [status |-> "failed", by |-> a]]
                /\ HandlerStops(a, extractors[a].refusal = "transient")
           ELSE HandlerStops(a, TRUE) /\ UNCHANGED extractions
    /\ extractors' = [extractors EXCEPT ![a] = NoExtractor]
    /\ UNCHANGED <<requested, seeded>>

-----------------------------------------------------------------------------
\* A database call of the handler fails, the worker shuts down or finds the lease lost.
InterruptExtraction(a) ==
    /\ HandlerStops(a, TRUE) \/ LoseAttempt(a)
    /\ extractors' = [extractors EXCEPT ![a] = NoExtractor]
    /\ UNCHANGED <<extractions, requested, seeded>>

\* cancel_running_company_news_extractions_for_job, fenced by the token.
CancelExtractions(a) ==
    /\ CleanedUp(a)
    /\ extractions' = [r \in ExtractionAttempt |->
           IF Current(a) /\ r \in RunningExtractions(JobOf(a))
           THEN [status |-> "cancelled", by |-> a] ELSE extractions[r]]
    /\ UNCHANGED <<extractors, requested, seeded>>

ExtractorDies(a) ==
    /\ Die(a)
    /\ extractors' = [extractors EXCEPT ![a] = NoExtractor]
    /\ UNCHANGED <<extractions, requested, seeded>>

\* Operators and campaigns queue jobs and withdraw them; the queue does the rest.
ExtractionQueueStep ==
    /\ \/ \E a \in ExtractionAttempt : BeginAttempt(a) \/ CompleteJob(a) \/ FailJob(a)
       \/ \E j \in ExtractionJob : JobStep(j)
       \/ \E J \in SUBSET ExtractionJob : J # {} /\ SweepJobs(J)
    /\ UNCHANGED <<extractions, extractors, requested, seeded>>

ExtractorStep(a) ==
    \/ BeginExtraction(a) \/ SkipCovered(a) \/ AskAdapter(a) \/ ReadArticles(a) \/ ImportOrigin(a)
    \/ BuildRecipes(a) \/ SeedDiscovery(a) \/ CompleteExtraction(a) \/ FailExtraction(a)
    \/ InterruptExtraction(a) \/ CancelExtractions(a) \/ ExtractorDies(a)

ExtractionNext == ExtractionQueueStep \/ \E a \in ExtractionAttempt : ExtractorStep(a)

ExtractionSpec == ExtractionInit /\ [][ExtractionNext]_extractionVars

-----------------------------------------------------------------------------
\* Types, and the unique index on the running run of a job.
ExtractionTypeOK ==
    /\ extractions \in [ExtractionAttempt -> Extraction]
    /\ extractors \in [ExtractionAttempt -> Extractor]
    /\ requested \in [ExtractionAttempt -> SUBSET ExtractionAttempt]
    /\ seeded \subseteq ExtractionAttempt
    /\ \A q, r \in ExtractionAttempt :
          /\ JobOf(q) = JobOf(r) /\ q # r /\ extractions[q].status = "running"
          => extractions[r].status # "running"

(* A job that is completed has a run that its last attempt has completed itself: an attempt
   whose run was closed under it, by an earlier attempt that was taken for dead or by a
   cleanup, does not pass for the one that did the work
   (complete_company_news_extraction_run). *)
CompletedExtractionHasRun ==
    \A j \in ExtractionJob : status[j] = "completed" =>
        \E r \in ExtractionAttempt : /\ JobOf(r) = j /\ extractions[r].status = "completed"
                           /\ extractions[r].by = <<j, started[j]>>

(* docs/manual-company-news-import.md:132-134: "an extraction-attempt UUID, reused as the
   idempotency key for that attempt; durable job retries receive a new request UUID because
   their known public URLs may have changed since the preceding attempt". *)
RetriesAskAnew == \A r, a, b \in ExtractionAttempt : a \in requested[r] /\ b \in requested[r] => a = b
=============================================================================
