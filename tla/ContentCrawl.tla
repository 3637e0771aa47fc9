---------------------------- MODULE ContentCrawl ----------------------------
(***************************************************************************)
(* The article-content crawl: content_crawl_attempts and                   *)
(* content_crawl_state (crates/feed-db/src/content_crawling.rs), the       *)
(* handler that fetches a batch of articles and the producer that queues   *)
(* batches (crates/feed-jobs/src/lib.rs), and what the source crawl does   *)
(* to the same feed items meanwhile (crates/feed-db/src/crawling.rs).      *)
(*                                                                         *)
(* It runs on JobAttempts: every claim of a crawl_content job is an        *)
(* attempt whose handler takes a batch of its own.  Every transaction is   *)
(* one action, except the cleanup, whose fence is evaluated before the     *)
(* rows it waits for.  What else its handlers' row locks can do to it is   *)
(* the subject of CrawlRuns.                                               *)
(***************************************************************************)
EXTENDS JobAttempts, FiniteSets

CONSTANTS
    Item,          \* feed items
    BatchSize,     \* CONTENT_CRAWL_BATCH_SIZE
    MaxTries,      \* CONTENT_CRAWL_MAX_ATTEMPTS
    Concurrency,   \* CONTENT_CRAWL_JOB_CONCURRENCY; the admin command always asks for 1
    Producer       \* processes that enqueue: the worker's producer, the admin command

VARIABLES
    feed,          \* [Item -> FeedItem], the feed_items table
    states,        \* [Item -> State], the content_crawl_state table
    records,       \* [Record -> RecordStatus], the content_crawl_attempts table
    handlers,      \* [Attempt -> Handler], the crawl_content handler futures
    cleanups,      \* [Attempt -> Cleanup], the runners' cancelling transactions
    counted        \* the producers whose count found a slot and that have not inserted yet

tableVars == <<feed, states, records>>
contentVars == <<attemptVars, tableVars, handlers, cleanups, counted>>

\* The key of a content job is a fresh uuid.
ASSUME ContentAssumption ==
    /\ MaxOcc = 1
    /\ IsFiniteSet(Item) /\ IsFiniteSet(Producer) /\ IsFiniteSet(Key)
    /\ MaxAttempts \in [Key -> Nat \ {0}]
    /\ BatchSize \in Nat \ {0} /\ MaxTries \in Nat \ {0} /\ Concurrency \in Nat \ {0}
    /\ Timely \in BOOLEAN /\ MayCrash \in BOOLEAN

\* private: is_private, set by a quarantine.  stamped: content_processing has the
\* key content_crawl.
FeedItem == [private : BOOLEAN, body : {"observed", "hydrated"}, stamped : BOOLEAN]

\* tries is attempt_count; the code only asks whether it has reached MaxTries.
State == [status : {"none", "running", "succeeded", "failed", "permanent_failure"},
          tries : 0..MaxTries]

Record == Attempt \X Item
RecordStatus == {"none", "running", "succeeded", "failed", "cancelled"}

Handler == [begun : BOOLEAN, todo : SUBSET Item]
NoHandler == [begun |-> FALSE, todo |-> {}]

Cleanup == [open : BOOLEAN, found : SUBSET Record]
NoCleanup == [open |-> FALSE, found |-> {}]

ContentInit ==
    /\ AttemptsInit
    /\ feed = [i \in Item |-> [private |-> FALSE, body |-> "observed", stamped |-> FALSE]]
    /\ states = [i \in Item |-> [status |-> "none", tries |-> 0]]
    /\ records = [r \in Record |-> "none"]
    /\ handlers = [a \in Attempt |-> NoHandler]
    /\ cleanups = [a \in Attempt |-> NoCleanup]
    /\ counted = {}

-----------------------------------------------------------------------------
(* The producer *)

\* The candidates of a batch, apart from what may keep any of them out at the
\* moment: next_attempt_at or the refresh has not come, the source is not approved
\* or its recipe not active, the article is dated in the future.
CandidatesAnyStatus(table) == {i \in Item : ~feed[i].private}
CandidatesIn(table) ==
    {i \in Item : ~feed[i].private /\ table[i].status \in {"none", "failed", "succeeded"}}

ActiveJobs == {j \in Job : status[j] \in {"pending", "running"}}
AtMostTarget == Cardinality(ActiveJobs) <= Concurrency
BelowTarget == Cardinality(ActiveJobs) < Concurrency

\* enqueue_due_content_crawl_job is one INSERT ... SELECT, but nothing locks what its
\* snapshot has counted, and the random key conflicts with nothing.
CountJobs(p) ==
    /\ p \notin counted
    /\ BelowTarget
    /\ CandidatesIn(states) # {}
    /\ counted' = counted \cup {p}
    /\ UNCHANGED <<attemptVars, tableVars, handlers, cleanups>>

InsertJob(p) ==
    /\ p \in counted
    /\ counted' = counted \ {p}
    /\ \E j \in Job : Submit(j)
    /\ UNCHANGED <<attempts, tableVars, handlers, cleanups>>

-----------------------------------------------------------------------------
(* begin_content_crawl_batch *)

Working(a) == attempts[a].phase = "handling"

RunningRecords(j) == {r \in Record : JobOf(r[1]) = j /\ records[r] = "running"}
ItemsOf(rows) == {r[2] : r \in rows}

\* An item that was interrupted is due again at once.
Interrupted(table, items) ==
    [i \in Item |-> IF i \in items /\ table[i].status = "running"
                    THEN [table[i] EXCEPT !.status = "failed"] ELSE table[i]]

Cancelled(rows) == [r \in Record |-> IF r \in rows THEN "cancelled" ELSE records[r]]

Rank(state) == CASE state.status = "none" -> 0 [] state.status = "failed" -> 1 [] OTHER -> 2

\* LIMIT of the ordered candidates whose rows nobody else has locked.  The order
\* by date within a rank is not represented.
Batch(items, table, candidates) ==
    /\ items \subseteq candidates
    /\ \/ Cardinality(items) = BatchSize
       \/ Cardinality(items) < BatchSize /\ items = candidates
    /\ \A i \in items, k \in candidates \ items : Rank(table[i]) <= Rank(table[k])

Tried(state) ==
    [state EXCEPT !.status = "running", !.tries = IF @ < MaxTries THEN @ + 1 ELSE @]

\* The advisory lock serialises these transactions.  No statement looks at the lease.
\* `out` are the items that are not due, not listed, or locked by somebody else.
BeginBatch(a) ==
    /\ Working(a)
    /\ ~handlers[a].begun
    /\ LET superseded == RunningRecords(JobOf(a))
           table == Interrupted(states, ItemsOf(superseded))
       IN  \E out \in SUBSET Item : \E items \in SUBSET Item :
              /\ Batch(items, table, CandidatesIn(table) \ out)
              /\ states' = [i \in Item |-> IF i \in items THEN Tried(table[i]) ELSE table[i]]
              /\ records' = [r \in Record |-> IF r[1] = a /\ r[2] \in items
                                              THEN "running" ELSE Cancelled(superseded)[r]]
              /\ handlers' = [handlers EXCEPT ![a] = [begun |-> TRUE, todo |-> items]]
    /\ UNCHANGED <<attemptVars, feed, cleanups, counted>>

-----------------------------------------------------------------------------
(* The results, one transaction for each item of the batch *)

\* run_once stops polling the handler, and drops it when it returns.
Keep(a) == UNCHANGED handlers
Forget(a) == handlers' = [handlers EXCEPT ![a] = NoHandler]

HandlerError(a) ==
    /\ HandlerStops(a, TRUE)
    /\ Forget(a)
    /\ UNCHANGED <<tableVars, cleanups, counted>>

Unconditional(a, i) == TRUE
AttemptRuns(a, i) == records[<<a, i>>] = "running" /\ states[i].status = "running"
TakesAlways(i) == TRUE
ItemTakesContent(i) == ~feed[i].private

Close(a, i, outcome) ==
    /\ records' = [records EXCEPT ![<<a, i>>] = outcome]
    /\ handlers' = [handlers EXCEPT ![a].todo = @ \ {i}]
    /\ UNCHANGED <<attemptVars, cleanups, counted>>

\* complete_content_crawl_success.  A row that is not as expected rolls the
\* transaction back, and the handler returns a retryable error.
SucceedItem(a, i) ==
    /\ Working(a) /\ i \in handlers[a].todo
    /\ IF AttemptRuns(a, i) /\ ItemTakesContent(i)
       THEN /\ feed' = [feed EXCEPT ![i].body = "hydrated", ![i].stamped = TRUE]
            /\ states' = [states EXCEPT ![i].status = "succeeded"]
            /\ Close(a, i, "succeeded")
       ELSE HandlerError(a)

\* content_failure decides on the count that begin_content_crawl_batch returned;
\* while the attempt runs nobody else has changed it.
FailedState(state, retryable) ==
    IF retryable /\ state.tries < MaxTries
    THEN [state EXCEPT !.status = "failed"]
    ELSE [state EXCEPT !.status = "permanent_failure"]

\* complete_content_crawl_failure: the page was not fetched, or not usable.
FailItem(a, i, retryable) ==
    /\ Working(a) /\ i \in handlers[a].todo
    /\ IF AttemptRuns(a, i)
       THEN /\ states' = [states EXCEPT ![i] = FailedState(@, retryable)]
            /\ UNCHANGED feed
            /\ Close(a, i, "failed")
       ELSE HandlerError(a)

\* The crawler as a whole reports an error, or a database call fails; both
\* are retryable.
BatchFails(a) == Working(a) /\ HandlerError(a)

FinishBatch(a) ==
    /\ handlers[a].begun /\ handlers[a].todo = {}
    /\ HandlerReturns(a)
    /\ Forget(a)
    /\ UNCHANGED <<tableVars, cleanups, counted>>

-----------------------------------------------------------------------------
(* The runner: cancel_running_content_crawl_attempts_for_job, and the rest of run_once *)

Fenced(a) == IF Current(a) THEN RunningRecords(JobOf(a)) ELSE {}

FindRunning(a) ==
    /\ attempts[a].phase \in {"lost", "cancelling"}
    /\ ~cleanups[a].open
    /\ cleanups' = [cleanups EXCEPT ![a] = [open |-> TRUE, found |-> Fenced(a)]]
    /\ UNCHANGED <<attemptVars, tableVars, handlers, counted>>

CancelRunning(a) ==
    /\ cleanups[a].open
    /\ LET rows == {r \in cleanups[a].found : records[r] = "running"}
       IN  /\ records' = Cancelled(rows)
           /\ states' = Interrupted(states, ItemsOf(rows))
    /\ cleanups' = [cleanups EXCEPT ![a] = NoCleanup]
    /\ CleanedUp(a)
    /\ UNCHANGED <<feed, handlers, counted>>

Interrupt(a) ==
    /\ HandlerStops(a, TRUE) \/ LoseAttempt(a)
    /\ Forget(a)
    /\ UNCHANGED <<tableVars, cleanups, counted>>

RunnerDies(a) ==
    /\ Die(a)
    /\ Forget(a)
    /\ cleanups' = [cleanups EXCEPT ![a] = NoCleanup]
    /\ UNCHANGED <<tableVars, counted>>

QueueStep ==
    /\ \/ \E a \in Attempt : BeginAttempt(a) \/ CompleteJob(a) \/ FailJob(a)
       \/ \E J \in SUBSET Job : J # {} /\ SweepJobs(J)
    /\ UNCHANGED <<tableVars, handlers, cleanups, counted>>

-----------------------------------------------------------------------------
(* The source crawl *)

PreservesNothing(item) == FALSE
PreservesHydrated(item) == item.stamped

\* complete_crawl_run meets an item that is stored already: the observed body
\* replaces the stored one unless the item carries the content crawl's stamp, and an
\* item is released from a quarantine whose policy allows it.
Observe(i, releases) ==
    /\ feed' = [feed EXCEPT
                  ![i].body = IF PreservesHydrated(feed[i]) THEN @ ELSE "observed",
                  ![i].private = @ /\ ~releases]
    /\ UNCHANGED <<attemptVars, states, records, handlers, cleanups, counted>>

\* The quarantines of the source crawl and of the audits.
Quarantine(i) ==
    /\ ~feed[i].private
    /\ feed' = [feed EXCEPT ![i].private = TRUE]
    /\ UNCHANGED <<attemptVars, states, records, handlers, cleanups, counted>>

ItemStep(i) == Quarantine(i) \/ \E releases \in BOOLEAN : Observe(i, releases)

HandlerStepOf(a) ==
    \/ BeginBatch(a) \/ BatchFails(a) \/ FinishBatch(a)
    \/ \E i \in Item : SucceedItem(a, i) \/ \E retryable \in BOOLEAN : FailItem(a, i, retryable)

RunnerStep(a) == FindRunning(a) \/ CancelRunning(a) \/ Interrupt(a) \/ RunnerDies(a)

ContentNext ==
    \/ QueueStep
    \/ \E p \in Producer : CountJobs(p) \/ InsertJob(p)
    \/ \E a \in Attempt : HandlerStepOf(a) \/ RunnerStep(a)
    \/ \E i \in Item : ItemStep(i)

ContentSpec == ContentInit /\ [][ContentNext]_contentVars

-----------------------------------------------------------------------------
(* Properties *)

\* The tables and processes have the shapes the code gives them.
ContentTypeOK ==
    /\ feed \in [Item -> FeedItem]
    /\ states \in [Item -> State]
    /\ records \in [Record -> RecordStatus]
    /\ handlers \in [Attempt -> Handler]
    /\ cleanups \in [Attempt -> Cleanup]
    /\ counted \subseteq Producer
    /\ \A a \in Attempt : /\ handlers[a].begun => attempts[a].phase = "handling"
                          /\ cleanups[a].open => attempts[a].phase \in {"lost", "cancelling"}

\* The two tables agree: an item is in the running state exactly while one attempt
\* record for it runs, whichever of superseding, cancelling, completing and failing
\* came in between, from whichever of the overlapping attempts.
RunningTogether ==
    \A i \in Item :
        /\ states[i].status = "running" <=> \E a \in Attempt : records[<<a, i>>] = "running"
        /\ \A a, b \in Attempt :
              records[<<a, i>>] = "running" /\ records[<<b, i>>] = "running" => a = b

\* A closed attempt record stays as it is: a late handler does not rewrite the
\* record its successor superseded.
ClosedRecordsAreFinal ==
    [][\A r \in Record :
         records[r] \in {"succeeded", "failed", "cancelled"} => records'[r] = records[r]]_contentVars

\* An item that counts as succeeded has the fetched article for its body, through
\* any number of re-observations by the source crawl (docs/content-crawling.md:10-12).
SucceededIsHydrated ==
    \A i \in Item : states[i].status = "succeeded" => feed[i].body = "hydrated"

\* An item that is quarantined after a batch has selected it is not published by
\* that batch: its body changes only while it is not private.
PrivateIsNotWritten ==
    [][\A i \in Item : feed[i].private /\ feed[i].body = "observed" =>
                           feed'[i].body = "observed"]_contentVars

\* The target of active jobs holds up to the inserts that were counted before the
\* others committed.
JobsWithinTarget == Cardinality(ActiveJobs) + Cardinality(counted) < Concurrency + Cardinality(Producer)

\* docs/content-crawling.md:72-73: "Lease loss or shutdown cancels running attempt
\* records and returns their items to retryable state": once a job is settled and
\* its attempts are over, none of its items is left running.
ItemsReturn ==
    \A r \in Record :
        /\ status[JobOf(r[1])] \in Settled
        /\ \A a \in Attempt : JobOf(a) = JobOf(r[1]) => attempts[a].phase \notin Alive
        => records[r] # "running"
=============================================================================
