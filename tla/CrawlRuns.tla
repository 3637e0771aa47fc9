----------------------------- MODULE CrawlRuns -----------------------------
(***************************************************************************)
(* The audit records of crawl attempts: crawl_runs and                     *)
(* company_news_recipe_runs (crates/feed-db/src/crawling.rs, recipes.rs),  *)
(* written by the crawl_source handler (crates/feed-jobs/src/lib.rs) while *)
(* the runner of JobQueue drives the job it works for.                     *)
(*                                                                         *)
(* Every step is a step of JobQueue joined with what the handler does in   *)
(* it, or a step of the handler alone.  A transaction is one action unless *)
(* it holds row locks that another session can wait for: those are taken   *)
(* in one action and released in the next.                                 *)
(***************************************************************************)
EXTENDS JobQueue

CONSTANT
    MayCrash       \* FALSE: no process dies and no database call fails

VARIABLES
    crawlRuns,     \* [Run -> CrawlStatus], the crawl_runs table
    recipeRuns,    \* [Run -> RecipeRun], the company_news_recipe_runs table
    handlers,      \* [Worker -> Handler], the crawl_source handler futures
    cleanups       \* [Worker -> Cleanup], the runners' own transactions on the records

recordVars == <<crawlRuns, recipeRuns>>
runVars == <<recordVars, handlers, cleanups>>
crawlVars == <<queueVars, runVars>>

\* This module follows the runners that serve crawl_source.
ASSUME CrawlAssumption ==
    /\ CrawlKey = Key
    /\ MayCrash \in BOOLEAN

\* One claim starts at most one run, so a run is named by its job and attempt.
Run == UNION {{j} \X (1..Budget(j)) : j \in Job}
JobOf(r) == r[1]
RunOf(w) == <<workers[w].job, workers[w].token>>

CrawlStatus == {"none", "running", "completed", "failed", "cancelled"}
RecipeStatus == {"none", "running", "decided", "cancelled"}
RecipeRun == [status : RecipeStatus, crawlRun : Nat]

\* A row of either table, as a lockable thing.
Row == {"crawl", "recipe"} \X Run

HandlerStep == {"none", "start", "superseding", "widening", "opening", "preparing", "crawling",
                "closing", "closed", "deciding", "returned"}

\* `rows` are the rows the open transaction has matched or locked, see LockedRows;
\* recipe says that the source is crawled with a recipe; recipeRun is the attempt
\* number of the recipe run the handler was given.
Handler == [step : HandlerStep, rows : SUBSET Row, recipe : BOOLEAN, recipeRun : Nat,
            outcome : {"none", "completed", "failed", "error"}]

NoHandler == [step |-> "none", rows |-> {}, recipe |-> FALSE, recipeRun |-> 0, outcome |-> "none"]
NewHandler == [NoHandler EXCEPT !.step = "start"]

Cleanup == [step : {"none", "superseding", "widening"}, rows : SUBSET Row]
NoCleanup == [step |-> "none", rows |-> {}]

CrawlInit ==
    /\ QueueInit
    /\ crawlRuns = [r \in Run |-> "none"]
    /\ recipeRuns = [r \in Run |-> [status |-> "none", crawlRun |-> 0]]
    /\ handlers = [w \in Worker |-> NoHandler]
    /\ cleanups = [w \in Worker |-> NoCleanup]

-----------------------------------------------------------------------------
(* Rows and locks *)

StillRunning(row) ==
    IF row[1] = "crawl" THEN crawlRuns[row[2]] = "running"
                        ELSE recipeRuns[row[2]].status = "running"

RunningRows(j) == {row \in Row : JobOf(row[2]) = j /\ StillRunning(row)}
RunningCrawlRows(j) == {row \in RunningRows(j) : row[1] = "crawl"}
RunningRecipeRows(j) == {row \in RunningRows(j) : row[1] = "recipe"}

\* The rows an open transaction has locked: those of the statements it has
\* finished.  begin_crawl_run and the cleanup update the recipe runs first, then the
\* crawl runs; a statement matches rows, waits for the locks of others, and goes on
\* with those that are still running.
LockingStep == {"opening", "closing", "deciding"}
LockedRows(txn) ==
    {row \in txn.rows : txn.step \in LockingStep \/ (txn.step = "widening" /\ row[1] = "recipe")}

\* The handler future is pinned for the whole of run_once: a runner that has
\* stopped polling it, to shut down or because the lease is lost, has not dropped it.
RowLocked(row) ==
    \E w \in Worker : row \in LockedRows(handlers[w]) \/ row \in LockedRows(cleanups[w])
Free(rows) == \A row \in rows : ~RowLocked(row)

CrawlRowsOf(rows) == {row \in rows : row[1] = "crawl"}
StillRunningOf(rows) == {row \in rows : StillRunning(row)}

CrawlsCancelled(rows) ==
    [r \in Run |-> IF <<"crawl", r>> \in rows THEN "cancelled" ELSE crawlRuns[r]]
RecipesCancelled(rows) ==
    [r \in Run |-> IF <<"recipe", r>> \in rows
                   THEN [recipeRuns[r] EXCEPT !.status = "cancelled"] ELSE recipeRuns[r]]
CancelRows(rows) == crawlRuns' = CrawlsCancelled(rows) /\ recipeRuns' = RecipesCancelled(rows)

At(w, step) == workers[w].pc = "handling" /\ handlers[w].step = step

-----------------------------------------------------------------------------
(* begin_crawl_run: no statement of it looks at the lease *)

NoRows(j) == {}
AbandonedRecipeRuns(j) == RunningRecipeRows(j)
AbandonedCrawlRuns(j) == RunningCrawlRows(j)

\* The handler has read the source's kind (recipe activation may have changed it
\* since the last attempt).
FindAbandoned(w, recipe) ==
    /\ At(w, "start")
    /\ handlers' = [handlers EXCEPT ![w].step = "superseding",
                                    ![w].recipe = recipe,
                                    ![w].rows = AbandonedRecipeRuns(workers[w].job)]
    /\ UNCHANGED <<queueVars, recordVars, cleanups>>

LockRecipeRuns(w) ==
    /\ At(w, "superseding")
    /\ Free(handlers[w].rows)
    /\ handlers' = [handlers EXCEPT ![w].step = "widening",
                                    ![w].rows = StillRunningOf(@)
                                                    \cup AbandonedCrawlRuns(workers[w].job)]
    /\ UNCHANGED <<queueVars, recordVars, cleanups>>

LockCrawlRuns(w) ==
    /\ At(w, "widening")
    /\ Free(CrawlRowsOf(handlers[w].rows))
    /\ handlers' = [handlers EXCEPT ![w].step = "opening", ![w].rows = StillRunningOf(@)]
    /\ UNCHANGED <<queueVars, recordVars, cleanups>>

\* The INSERT and the commit.  Its foreign key waits for a job row that is locked
\* FOR UPDATE.
OpenRun(w) ==
    /\ At(w, "opening")
    /\ ~Locked(workers[w].job)
    /\ crawlRuns' = [CrawlsCancelled(handlers[w].rows) EXCEPT ![RunOf(w)] = "running"]
    /\ recipeRuns' = RecipesCancelled(handlers[w].rows)
    /\ handlers' = [handlers EXCEPT ![w].step = IF handlers[w].recipe THEN "preparing" ELSE "crawling",
                                    ![w].rows = {}]
    /\ UNCHANGED <<queueVars, cleanups>>

\* begin_company_news_recipe_run.  A job has one running recipe run
\* (company_news_recipe_runs_one_running_job_idx): if there is one already it is
\* pointed at this attempt's crawl run and handed to this handler too.
BeginRecipeRun(w) ==
    /\ At(w, "preparing")
    /\ ~Locked(workers[w].job)
    /\ LET running == {r \in Run : JobOf(r) = workers[w].job /\ recipeRuns[r].status = "running"}
       IN  \E r \in IF running = {} THEN {RunOf(w)} ELSE running :
              /\ ~RowLocked(<<"recipe", r>>)
              /\ recipeRuns' = [recipeRuns EXCEPT
                                  ![r] = [status |-> "running", crawlRun |-> workers[w].token]]
              /\ handlers' = [handlers EXCEPT ![w].step = "crawling", ![w].recipeRun = r[2]]
    /\ UNCHANGED <<queueVars, crawlRuns, cleanups>>

-----------------------------------------------------------------------------
(* complete_crawl_run, fail_crawl_run, complete_company_news_recipe_run *)

Unchecked(row) == TRUE
Closable(row) == StillRunning(row)

\* UPDATE ... WHERE id = $1 AND status = 'running'; a row that is not running any
\* more is reported as NotFound, which the handler returns as a retryable error.
LockToClose(w, row, step, outcome) ==
    /\ ~RowLocked(row)
    /\ handlers' = [handlers EXCEPT
                      ![w] = IF Closable(row)
                             THEN [@ EXCEPT !.step = step, !.rows = {row}, !.outcome = outcome]
                             ELSE [@ EXCEPT !.step = "returned", !.outcome = "error"]]
    /\ UNCHANGED <<queueVars, recordVars, cleanups>>

\* The crawl has ended and its result is written.
CloseCrawl(w, outcome) ==
    /\ At(w, "crawling")
    /\ LockToClose(w, <<"crawl", RunOf(w)>>, "closing", outcome)

CommitCrawl(w) ==
    /\ At(w, "closing")
    /\ crawlRuns' = [crawlRuns EXCEPT ![RunOf(w)] = handlers[w].outcome]
    /\ handlers' = [handlers EXCEPT ![w].step = IF handlers[w].recipe THEN "closed" ELSE "returned",
                                    ![w].rows = {}]
    /\ UNCHANGED <<queueVars, recipeRuns, cleanups>>

\* The recipe's verdict is a transaction of its own, after the crawl's.
DecideRecipe(w) ==
    /\ At(w, "closed")
    /\ LockToClose(w, <<"recipe", <<workers[w].job, handlers[w].recipeRun>>>>,
                   "deciding", handlers[w].outcome)

CommitRecipe(w) ==
    /\ At(w, "deciding")
    /\ recipeRuns' = [recipeRuns EXCEPT
                        ![<<workers[w].job, handlers[w].recipeRun>>].status = "decided"]
    /\ handlers' = [handlers EXCEPT ![w].step = "returned", ![w].rows = {}]
    /\ UNCHANGED <<queueVars, crawlRuns, cleanups>>

-----------------------------------------------------------------------------
(* The steps of run_once, with what they do to the handler and its records *)

KeepHandler(w) == UNCHANGED runVars

\* When a runner leaves run_once its handler is dropped, and an open transaction
\* with it.
Leave(w) ==
    /\ handlers' = [handlers EXCEPT ![w] = NoHandler]
    /\ cleanups' = [cleanups EXCEPT ![w] = NoCleanup]
    /\ UNCHANGED recordVars

ClaimCrawl(w) ==
    /\ ClaimAny(w)
    /\ handlers' = [handlers EXCEPT ![w] = NewHandler]
    /\ UNCHANGED <<recordVars, cleanups>>

\* Ok(()): the items were published, or a recipe crawl was recorded as failing
\* its correctness gates.
Succeeds(w) ==
    /\ handlers[w].step = "returned"
    /\ \/ handlers[w].outcome = "completed"
       \/ handlers[w].outcome = "failed" /\ handlers[w].recipe
    /\ HandlerSucceeds(w) /\ Leave(w)

\* Permanent errors: the source, its recipe or its company is gone or not
\* approved, or the crawl failed for a reason that a retry will not cure.
\* Retryable: the crawl failed, or the record it had to close was closed already.
ReturnsError(w, retry) ==
    /\ \/ handlers[w].step \in {"start", "preparing"} /\ retry = "never"
       \/ handlers[w].step = "crawling" /\ ~handlers[w].recipe /\ retry = "never"
       \/ handlers[w].step = "returned" /\ handlers[w].outcome = "failed"
       \/ handlers[w].step = "returned" /\ handlers[w].outcome = "error" /\ retry = "later"
    /\ HandlerFails(w, retry) /\ Leave(w)

\* A database call of the handler fails, before or after its effect; every such
\* error is retryable, and an open transaction rolls back.
DatabaseFails(w) == MayCrash /\ HandlerFails(w, "later") /\ Leave(w)

\* The cleanup's fence has no expiry test.
HoldsToken(w) ==
    LET row == jobs[workers[w].job]
    IN  row.status = "running" /\ row.token = workers[w].token

NothingToCancel(w) == {}

\* cancel_running_crawl_runs_for_job: each of its UPDATEs has the fence.
RecipeRunsToCancel(w) == IF HoldsToken(w) THEN RunningRecipeRows(workers[w].job) ELSE {}
CrawlRunsToCancel(w) == IF HoldsToken(w) THEN RunningCrawlRows(workers[w].job) ELSE {}

FindRecipeRuns(w) ==
    /\ workers[w].pc \in {"lost", "cancelling"} /\ cleanups[w].step = "none"
    /\ cleanups' = [cleanups EXCEPT ![w] = [step |-> "superseding", rows |-> RecipeRunsToCancel(w)]]
    /\ UNCHANGED <<queueVars, recordVars, handlers>>

\* It waits for locked rows, those of its own handler's open transaction included.
FindCrawlRuns(w) ==
    /\ cleanups[w].step = "superseding"
    /\ Free(cleanups[w].rows)
    /\ cleanups' = [cleanups EXCEPT
                      ![w] = [step |-> "widening",
                              rows |-> StillRunningOf(@.rows) \cup CrawlRunsToCancel(w)]]
    /\ UNCHANGED <<queueVars, recordVars, handlers>>

CancelCrawlRuns(w) ==
    /\ cleanups[w].step = "widening"
    /\ Free(CrawlRowsOf(cleanups[w].rows))
    /\ CancelRows(StillRunningOf(cleanups[w].rows))
    /\ CancelRuns(w)
    /\ cleanups' = [cleanups EXCEPT ![w] = NoCleanup]
    /\ handlers' = IF workers[w].pc = "lost" THEN [handlers EXCEPT ![w] = NoHandler] ELSE handlers

CleanUp(w) == FindRecipeRuns(w) \/ FindCrawlRuns(w) \/ CancelCrawlRuns(w)

\* complete_job and the two ends of record_job_failure.
Finish(w) == (Complete(w) \/ LeaseError(w) \/ RecordFailure(w)) /\ Leave(w)

CrashCrawl(w) == MayCrash /\ Crash(w) /\ Leave(w)

QueueOnly(w) ==
    /\ \/ Sweep(w) \/ ClaimNothing(w) \/ Renew(w) \/ LoseLease(w)
       \/ ShutDown(w) \/ LockForFailure(w) \/ Restart(w)
    /\ UNCHANGED runVars

HandlerStepOf(w) ==
    \/ LockRecipeRuns(w) \/ LockCrawlRuns(w) \/ OpenRun(w) \/ BeginRecipeRun(w)
    \/ \E recipe \in BOOLEAN : FindAbandoned(w, recipe)
    \/ \E outcome \in {"completed", "failed"} : CloseCrawl(w, outcome)
    \/ CommitCrawl(w) \/ DecideRecipe(w) \/ CommitRecipe(w)

Returns(w) == Succeeds(w) \/ \E retry \in Retry : ReturnsError(w, retry)

CrawlStep(w) ==
    \/ QueueOnly(w) \/ ClaimCrawl(w) \/ HandlerStepOf(w) \/ Returns(w)
    \/ DatabaseFails(w) \/ CleanUp(w) \/ Finish(w) \/ CrashCrawl(w)

Around == (Produce \/ Withdraw \/ Tick) /\ UNCHANGED runVars

CrawlNext == Around \/ \E w \in Worker : CrawlStep(w)

CrawlSpec == CrawlInit /\ [][CrawlNext]_crawlVars

\* A statement that is not blocked finishes, a handler that is polled goes on and
\* returns, and time passes.
LiveCrawlSpec ==
    /\ CrawlSpec
    /\ WF_crawlVars(Around)
    /\ \A w \in Worker :
        /\ WF_crawlVars(CleanUp(w))
        /\ WF_crawlVars(HandlerStepOf(w) \/ Returns(w))
        /\ WF_crawlVars(Finish(w) \/ (LockForFailure(w) /\ UNCHANGED runVars))

-----------------------------------------------------------------------------
(* Properties *)

\* Records and handlers have the shapes the code gives them; a handler exists
\* only inside run_once.
CrawlTypeOK ==
    /\ crawlRuns \in [Run -> CrawlStatus]
    /\ recipeRuns \in [Run -> RecipeRun]
    /\ handlers \in [Worker -> Handler]
    /\ cleanups \in [Worker -> Cleanup]
    /\ \A w \in Worker :
        /\ handlers[w].step # "none" => workers[w].pc \in Holding /\ RunOf(w) \in Run
        /\ cleanups[w].step # "none" => workers[w].pc \in {"lost", "cancelling"}

ClosedCrawl == {"completed", "failed", "cancelled"}

\* A record that was closed is never rewritten: a stale attempt cannot complete
\* after its crawl run has been closed (docs/crawling.md:695), whoever closed it.
ClosedRunsAreFinal ==
    [][\A r \in Run :
         /\ crawlRuns[r] \in ClosedCrawl => crawlRuns'[r] = crawlRuns[r]
         /\ recipeRuns[r].status \in {"decided", "cancelled"} =>
                recipeRuns'[r] = recipeRuns[r]]_crawlVars

\* A completed job has a finished crawl to show for the attempt that completed
\* it, a failed one only if a recipe's verdict says so: a late handler of an
\* earlier attempt never completes the job under its successor.
CompletedJobHasResult ==
    \A j \in Job :
        jobs[j].status = "completed" =>
            LET status == crawlRuns[<<j, jobs[j].attempts>>]
            IN  \/ status = "completed"
                \/ status = "failed" /\ \E r \in Run : JobOf(r) = j /\ recipeRuns[r].status = "decided"

\* One audit record per attempt (docs/database.md:143-145): with timely heartbeats
\* a recipe run is about the crawl of its own attempt, and its verdict is recorded
\* only after that crawl was closed with a result.
RecipeRunFollowsCrawl ==
    \A r \in Run :
        /\ recipeRuns[r].status # "none" => recipeRuns[r].crawlRun = r[2]
        /\ recipeRuns[r].status = "decided" => crawlRuns[r] \in {"completed", "failed"}

\* "A reclaimed job cancels any abandoned attempt before opening its replacement"
\* (docs/crawling.md:694): with timely heartbeats a job has one open record of
\* each kind at most, however its earlier attempts ended.
OneOpenAttempt ==
    \A j \in Job : /\ Cardinality(RunningCrawlRows(j)) <= 1
                   /\ Cardinality(RunningRecipeRows(j)) <= 1

\* With timely heartbeats a job that went back to the queue, or that completed,
\* has left no record open behind it.
NoOpenRunLeft ==
    \A j \in Job :
        jobs[j].status \in {"pending", "completed", "cancelled"} => RunningRows(j) = {}

\* docs/crawling.md:692: "shutdown, lease loss, and handler errors close in-flight
\* crawl and recipe audit rows": the runner gets through that cleanup.
CleanupFinishes ==
    \A w \in Worker : workers[w].pc \in {"lost", "cancelling"} ~>
                          workers[w].pc \notin {"lost", "cancelling"}
=============================================================================
