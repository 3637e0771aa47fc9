------------------------------ MODULE JobQueue ------------------------------
(***************************************************************************)
(* The durable job table (crates/feed-db/src/jobs.rs) and the runner loop  *)
(* that claims from it (crates/feed-scheduler/src/lib.rs).                 *)
(*                                                                         *)
(* One SQL statement or one transaction on a single row is one action; a   *)
(* transaction that other sessions can interleave with (the failure        *)
(* transaction, which selects the row FOR UPDATE before it writes it) is   *)
(* two actions with the row lock held in between.                          *)
(*                                                                         *)
(* Time is kept as countdowns: `wait` is run_after - now and `lease` is    *)
(* lease_until - now, both 0 once passed, so that only the comparisons the *)
(* SQL makes with CURRENT_TIMESTAMP are represented and time is unbounded. *)
(***************************************************************************)
EXTENDS Integers, FiniteSets

CONSTANTS
    Worker,        \* runner loops; each handles one job at a time
    Key,           \* (job_type, job_key) pairs
    NewsKey,       \* the keys of type extract_company_news, in the queue or not
    CrawlKey,      \* the keys of type crawl_source
    Supports,      \* [Worker -> SUBSET Key], supported_job_types of the handler
    MaxAttempts,   \* [Key -> Nat \ {0}], max_attempts of the key's job rows
    MaxOcc,        \* bound: rows ever inserted for one key
    Priority,      \* job priorities in use
    MaxWait,       \* bound: how far ahead an enqueuer sets run_after
    Lease,         \* JobRunnerConfig.lease_duration
    Heartbeat,     \* JobRunnerConfig.heartbeat_interval
    RetryDelay,    \* [attempt -> delay], retry_delay under the configured bounds
    NewsCap,       \* JobRunnerConfig.max_company_news_in_flight
    MaxStale,      \* bound: time a claim waits for the company-news advisory lock
    Timely,        \* TRUE: a due heartbeat is sent before time passes
    NoJob          \* the job of a worker that holds none

VARIABLES
    jobs,          \* [Job -> JobRow], the jobs table
    workers        \* [Worker -> Runner], the runner loops

queueVars == <<jobs, workers>>

Job == Key \X (1..MaxOcc)
KeyOf(j) == j[1]
Budget(j) == MaxAttempts[KeyOf(j)]

ASSUME QueueAssumption ==
    /\ IsFiniteSet(Worker) /\ IsFiniteSet(Key) /\ MaxOcc \in Nat \ {0}
    /\ CrawlKey \subseteq Key
    /\ Supports \in [Worker -> SUBSET (Key \cup NewsKey)]
    /\ MaxAttempts \in [Key -> Nat \ {0}]
    /\ Priority \subseteq Int
    /\ MaxWait \in Nat /\ MaxStale \in Nat
    /\ Heartbeat \in Nat \ {0} /\ Lease \in Nat /\ Heartbeat < Lease
    /\ MaxStale <= Lease
    /\ \A k \in Key : \A n \in 1..MaxAttempts[k] : RetryDelay[n] \in Nat
    /\ NewsCap \in Nat \ {0}
    /\ Timely \in BOOLEAN
    /\ NoJob \notin Job
-----------------------------------------------------------------------------
(* Rows and runners *)

Settled == {"completed", "failed", "cancelled"}
Status == {"absent", "pending", "running"} \cup Settled

\* The lease token is a fresh uuid per claim; the attempt number a claim stores
\* is just as fresh within its row, and 0 stands for NULL.
JobRow == [status : Status, priority : Int, wait : Nat,
           attempts : Nat, token : Nat, lease : Nat]

Phase == {"idle", "claiming", "handling", "succeeded", "cancelling",
          "failing", "recording", "lost", "stopped"}

\* What the failure path asks for: no retry, a retry now (shutdown), a retry
\* after the exponential delay.
Retry == {"never", "now", "later"}

Runner == [pc : Phase, job : Job \cup {NoJob}, token : Nat, beat : Nat, retry : Retry]

AbsentRow == [status |-> "absent", priority |-> 0, wait |-> 0,
              attempts |-> 0, token |-> 0, lease |-> 0]
IdleRunner == [pc |-> "idle", job |-> NoJob, token |-> 0, beat |-> 0, retry |-> "never"]

Holding == {"handling", "succeeded", "cancelling", "failing", "recording", "lost"}

Active(j) == jobs[j].status \in {"pending", "running"}
Running(j) == jobs[j].status = "running"
Expired(j) == Running(j) /\ jobs[j].lease = 0
Exhausted(j) == jobs[j].attempts >= Budget(j)

\* Rows that an open failure transaction has selected FOR UPDATE.
LocksNothing(j) == FALSE
Locked(j) == \E w \in Worker : workers[w].pc = "recording" /\ workers[w].job = j

OwnsRow(w) ==
    LET row == jobs[workers[w].job] IN row.status = "running" /\ row.lease > 0

\* The WHERE clause every holder's statement carries: id, token, status, expiry.
OwnsLease(w) ==
    LET row == jobs[workers[w].job]
    IN  row.status = "running" /\ row.token = workers[w].token /\ row.lease > 0

QueueInit ==
    /\ jobs = [j \in Job |-> AbsentRow]
    /\ workers = [w \in Worker |-> IdleRunner]

-----------------------------------------------------------------------------
(* Producers and operators *)

\* The conflict target of enqueue_job is the key's pending or running row.
KeyIsActive(k) == \E n \in 1..MaxOcc : Active(<<k, n>>)

\* enqueue_job inserts a pending row, or meets the active row of the key.
Insert(j, p, d) ==
    /\ jobs[j].status = "absent"
    /\ \A n \in 1..MaxOcc : n < j[2] => jobs[<<KeyOf(j), n>>].status # "absent"
    /\ ~KeyIsActive(KeyOf(j))
    /\ jobs' = [jobs EXCEPT ![j] =
                    [AbsentRow EXCEPT !.status = "pending", !.priority = p, !.wait = d]]
    /\ UNCHANGED workers

\* ON CONFLICT DO UPDATE: the earlier run_after and the higher priority win, but
\* only on a pending row; a running row is left as it is.
Upsert(j, p, d) ==
    /\ jobs[j].status = "pending"
    /\ jobs' = [jobs EXCEPT ![j].wait = IF d < @ THEN d ELSE @,
                            ![j].priority = IF p > @ THEN p ELSE @]
    /\ UNCHANGED workers

Enqueue(j, p, d) == Insert(j, p, d) \/ Upsert(j, p, d)

\* Disabling a source, or superseding the recipe of its activation crawl,
\* cancels its pending crawl job; a running one is left alone.  (Nothing looks at
\* the run_after of a settled row, so its countdown is dropped.)
CancelPending(j) ==
    /\ KeyOf(j) \in CrawlKey
    /\ jobs[j].status = "pending"
    /\ jobs' = [jobs EXCEPT ![j].status = "cancelled", ![j].wait = 0]
    /\ UNCHANGED workers

-----------------------------------------------------------------------------
(* claim_job: the sweep statement, then the claim transaction *)

NoneLost(j) == FALSE
FinalAttemptLost(j) == Expired(j) /\ Exhausted(j)

FailedRow(row) == [row EXCEPT !.status = "failed", !.token = 0, !.lease = 0]

\* fail_exhausted_expired_jobs, over every job type.  The statement waits for
\* rows that are locked.
Sweep(w) ==
    /\ workers[w].pc = "idle"
    /\ Supports[w] # {}
    /\ \A j \in Job : FinalAttemptLost(j) => ~Locked(j)
    /\ jobs' = [j \in Job |-> IF FinalAttemptLost(j) THEN FailedRow(jobs[j]) ELSE jobs[j]]
    /\ workers' = [workers EXCEPT ![w].pc = "claiming"]

RunningNews == {j \in Job : KeyOf(j) \in NewsKey /\ Running(j)}

UnderLiveNewsCap(j) ==
    KeyOf(j) \in NewsKey => Cardinality({i \in RunningNews \ {j} : ~Expired(i)}) < NewsCap

\* The subquery counts the other running company-news jobs.
UnderNewsCap(j) == KeyOf(j) \in NewsKey => Cardinality(RunningNews \ {j}) < NewsCap

DueAnyStatus(j) ==
    \/ jobs[j].status \notin {"absent", "running"} /\ jobs[j].wait = 0
    \/ Expired(j)

DueEarly(j) ==
    \/ jobs[j].status = "pending" /\ jobs[j].wait = 0
    \/ Running(j) /\ jobs[j].lease <= Heartbeat

Due(j) ==
    \/ jobs[j].status = "pending" /\ jobs[j].wait = 0
    \/ Expired(j)

ClaimableBeyondBudget(w) ==
    {j \in Job : KeyOf(j) \in Supports[w] /\ Due(j) /\ UnderNewsCap(j) /\ ~Locked(j)}

Claimable(w) ==
    {j \in Job : /\ KeyOf(j) \in Supports[w]
                 /\ ~Exhausted(j)
                 /\ Due(j)
                 /\ UnderNewsCap(j)
                 /\ ~Locked(j)}

\* CURRENT_TIMESTAMP is the start of the transaction.  A worker that serves
\* company news may have waited for the advisory lock since then, and the lease
\* it writes is shorter by that much.
ClaimAge(w) == IF Supports[w] \cap NewsKey = {} THEN {0} ELSE 0..MaxStale

\* Uuid::new_v4 for every claim.
TokenPerProcess(row) == 1
FreshToken(row) == row.attempts + 1

ClaimedRow(row, age) ==
    [row EXCEPT !.status = "running", !.attempts = @ + 1,
                !.token = FreshToken(row), !.lease = Lease - age]

\* The claim transaction, from the advisory lock to its commit.  Among claimable
\* rows of one priority the order (run_after, created_at) is not represented.
Claim(w, j, age) ==
    /\ workers[w].pc = "claiming"
    /\ j \in Claimable(w)
    /\ \A i \in Claimable(w) : jobs[i].priority <= jobs[j].priority
    /\ jobs' = [jobs EXCEPT ![j] = ClaimedRow(@, age)]
    /\ workers' = [workers EXCEPT ![w] =
                     [IdleRunner EXCEPT !.pc = "handling", !.job = j,
                                        !.token = FreshToken(jobs[j]), !.beat = Heartbeat]]

ClaimNothing(w) ==
    /\ workers[w].pc = "claiming"
    /\ Claimable(w) = {}
    /\ workers' = [workers EXCEPT ![w] = IdleRunner]
    /\ UNCHANGED jobs
-----------------------------------------------------------------------------
(* run_once: the select loop around the handler *)

Goto(w, phase) == workers' = [workers EXCEPT ![w].pc = phase]

\* The heartbeat timer has fired; heartbeat_job renews the lease or reports it lost.
Renew(w) ==
    /\ workers[w].pc = "handling" /\ workers[w].beat = 0
    /\ OwnsLease(w)
    /\ jobs' = [jobs EXCEPT ![workers[w].job].lease = Lease]
    /\ workers' = [workers EXCEPT ![w].beat = Heartbeat]

LoseLease(w) ==
    /\ workers[w].pc = "handling" /\ workers[w].beat = 0
    /\ ~OwnsLease(w)
    /\ Goto(w, "lost")
    /\ UNCHANGED jobs

HandlerSucceeds(w) ==
    /\ workers[w].pc = "handling"
    /\ Goto(w, "succeeded")
    /\ UNCHANGED jobs

HandlerFails(w, retry) ==
    /\ workers[w].pc = "handling"
    /\ retry \in {"never", "later"}
    /\ workers' = [workers EXCEPT ![w].pc = "cancelling", ![w].retry = retry]
    /\ UNCHANGED jobs

\* The shutdown token is cancelled: the handler is dropped, an idle loop ends.
ShutDown(w) ==
    /\ \/ /\ workers[w].pc = "handling"
          /\ workers' = [workers EXCEPT ![w].pc = "cancelling", ![w].retry = "now"]
       \/ /\ workers[w].pc = "idle"
          /\ Goto(w, "stopped")
    /\ UNCHANGED jobs

\* cancel_running_*_for_job: the run rows it closes belong to other modules; here
\* it is the step between losing or failing the attempt and settling the job.
CancelRuns(w) ==
    /\ \/ workers[w].pc = "lost" /\ workers' = [workers EXCEPT ![w] = IdleRunner]
       \/ workers[w].pc = "cancelling" /\ Goto(w, "failing")
    /\ UNCHANGED jobs

\* complete_job; when the fence does not hold nothing is written.
CompletedRow(row) == [row EXCEPT !.status = "completed", !.token = 0, !.lease = 0]

Complete(w) ==
    /\ workers[w].pc = "succeeded"
    /\ jobs' = IF OwnsLease(w) THEN [jobs EXCEPT ![workers[w].job] = CompletedRow(@)] ELSE jobs
    /\ workers' = [workers EXCEPT ![w] = IdleRunner]

\* A runner that was told to shut down leaves its loop after this job.
AfterFailure(w) == IF workers[w].retry = "now" THEN [IdleRunner EXCEPT !.pc = "stopped"] ELSE IdleRunner

\* record_job_failure, SELECT ... FOR UPDATE under the fence, or JobLeaseError.
LockForFailure(w) ==
    /\ workers[w].pc = "failing"
    /\ OwnsLease(w)
    /\ Goto(w, "recording")
    /\ UNCHANGED jobs

LeaseError(w) ==
    /\ workers[w].pc = "failing"
    /\ ~OwnsLease(w)
    /\ workers' = [workers EXCEPT ![w] = AfterFailure(w)]
    /\ UNCHANGED jobs

RetryWait(row, retry) == IF retry = "later" THEN RetryDelay[row.attempts] ELSE 0

RequeuedRow(row, retry) ==
    [row EXCEPT !.status = "pending", !.token = 0, !.lease = 0,
                !.wait = RetryWait(row, retry)]

\* retry_at.filter(|_| attempt.0 < attempt.1)
RetriesOnRequest(w) == workers[w].retry # "never"
Retries(w) == workers[w].retry # "never" /\ ~Exhausted(workers[w].job)

\* record_job_failure, the update and the commit.  The row is locked, so the
\* token the update tests is still the one the select saw.
RecordFailure(w) ==
    /\ workers[w].pc = "recording"
    /\ LET j == workers[w].job
       IN  jobs' = [jobs EXCEPT ![j] =
                      IF Retries(w)
                      THEN RequeuedRow(@, workers[w].retry)
                      ELSE FailedRow(@)]
    /\ workers' = [workers EXCEPT ![w] = AfterFailure(w)]

\* The process dies and is restarted, or a database error leaves run_once through
\* `?`: the handler is dropped, an open transaction rolls back, the row stays.
Crash(w) ==
    /\ workers[w].pc \in Holding
    /\ workers' = [workers EXCEPT ![w] = IdleRunner]
    /\ UNCHANGED jobs

Restart(w) ==
    /\ workers[w].pc = "stopped"
    /\ workers' = [workers EXCEPT ![w] = IdleRunner]
    /\ UNCHANGED jobs

-----------------------------------------------------------------------------
(* Time *)

Less(n) == IF n > 0 THEN n - 1 ELSE 0

\* Any statement may be slow and any loop may be stalled, unless Timely: then the
\* loop reaches its heartbeat when it is due.
Tick ==
    /\ \/ \E j \in Job : jobs[j].wait > 0 \/ jobs[j].lease > 0
       \/ \E w \in Worker : workers[w].beat > 0
    /\ Timely => \A w \in Worker : workers[w].pc = "handling" => workers[w].beat > 0
    /\ jobs' = [j \in Job |-> [jobs[j] EXCEPT !.wait = Less(@), !.lease = Less(@)]]
    /\ workers' = [w \in Worker |-> [workers[w] EXCEPT !.beat = Less(@)]]

-----------------------------------------------------------------------------
(* The specification *)

Produce == \E j \in Job, p \in Priority, d \in 0..MaxWait : Enqueue(j, p, d)
Withdraw == \E j \in Job : CancelPending(j)
ClaimAny(w) == \E j \in Job, age \in ClaimAge(w) : Claim(w, j, age)
FailAny(w) == \E retry \in Retry : HandlerFails(w, retry)

Step(w) ==
    \/ Sweep(w) \/ ClaimAny(w) \/ ClaimNothing(w)
    \/ Renew(w) \/ LoseLease(w)
    \/ HandlerSucceeds(w) \/ FailAny(w) \/ ShutDown(w)
    \/ CancelRuns(w) \/ Complete(w)
    \/ LockForFailure(w) \/ LeaseError(w) \/ RecordFailure(w)
    \/ Crash(w) \/ Restart(w)

QueueNext == Produce \/ Withdraw \/ Tick \/ \E w \in Worker : Step(w)

QueueSpec == QueueInit /\ [][QueueNext]_queueVars

\* Statements finish, timers fire and time passes; that handlers and cleanups end is no more
\* than a hypothesis of Drains.  Sweep needs strong fairness: a runner may be stopped and
\* restarted for ever, but not always before it polls.
WorkerFairness(w) ==
    /\ SF_queueVars(Sweep(w))
    /\ WF_queueVars(ClaimAny(w) \/ ClaimNothing(w))
    /\ WF_queueVars(Renew(w) \/ LoseLease(w))
    /\ WF_queueVars(Complete(w))
    /\ WF_queueVars(LockForFailure(w) \/ LeaseError(w))
    /\ WF_queueVars(RecordFailure(w))
    /\ WF_queueVars(Restart(w))

LiveQueueSpec == QueueSpec /\ WF_queueVars(Tick) /\ \A w \in Worker : WorkerFairness(w)

-----------------------------------------------------------------------------
(* Properties *)

\* Rows and runners have the shapes the code gives them, and no row has been
\* claimed more often than its budget (jobs_attempt_count_bounded in the schema).
QueueTypeOK ==
    /\ jobs \in [Job -> JobRow]
    /\ workers \in [Worker -> Runner]
    /\ \A j \in Job : jobs[j].attempts <= Budget(j)
    /\ \A w \in Worker : workers[w].pc \in Holding => workers[w].job \in Job

\* Two runners never hold the current token of one row, however often the row
\* was abandoned, reclaimed, requeued or swept: a token a runner remembers dies
\* with the claim that replaced it.
Holds(w, j) ==
    /\ workers[w].pc \in Holding /\ workers[w].job = j
    /\ Running(j) /\ jobs[j].token = workers[w].token

OneHolder ==
    \A j \in Job : \A v, w \in Worker : Holds(v, j) /\ Holds(w, j) => v = w

\* Every queued row can still be claimed (a requeued row always has budget left),
\* and only running rows carry a lease: no row is stranded where neither the claim
\* nor the sweep would ever look at it.
NoStrandedRow ==
    \A j \in Job :
        /\ jobs[j].status = "pending" => ~Exhausted(j)
        /\ ~Running(j) => jobs[j].token = 0 /\ jobs[j].lease = 0
        /\ Running(j) => jobs[j].token = jobs[j].attempts /\ jobs[j].attempts > 0

\* The number of company-news jobs in flight never exceeds the configured width,
\* whoever claims, reclaims or requeues (max_company_news_in_flight).
NewsWithinCap == Cardinality(RunningNews) <= NewsCap

\* One active row per key (jobs_one_active_key_idx), over enqueue, requeue,
\* reclaim and cancellation.
OneActivePerKey ==
    \A i, j \in Job : KeyOf(i) = KeyOf(j) /\ Active(i) /\ Active(j) => i = j

\* A failure transaction that holds the row lock still owns the row when it
\* commits, even if the lease ran out while it was open: the claim skips the
\* locked row and the sweep waits for it.
LockedRowIsOwned ==
    \A w \in Worker : workers[w].pc = "recording" => Holds(w, workers[w].job)

\* With heartbeats on time and claims that do not wait long for the advisory
\* lock, two handlers never run for one job: no lease expires under a live runner.
Executing(w, j) == workers[w].pc = "handling" /\ workers[w].job = j

NoOverlap ==
    \A j \in Job : \A v, w \in Worker : Executing(v, j) /\ Executing(w, j) => v = w

\* A row leaves "running" only through the runner that holds it, or by the sweep
\* after its last attempt expired: no stale runner decides a reclaimed job.
OnlyHolderSettles ==
    [][\A j \in Job :
         Running(j) /\ ~Running(j)' =>
            \/ FinalAttemptLost(j) /\ jobs'[j].status = "failed"
            \/ \E w \in Worker : Holds(w, j) /\ workers'[w].job # j]_queueVars

\* A settled row never changes: a late completion, failure, claim or sweep cannot
\* resurrect or rewrite it.
SettledIsFinal ==
    [][\A j \in Job : jobs[j].status \in Settled => jobs'[j] = jobs[j]]_queueVars

\* No runner stays in a handler or in a cleanup for ever.  Nothing in the code ensures it: a
\* handler's statement may wait for a row that another session keeps locked, and so may a
\* cleanup, for a row of its own handler (CleanupFinishes of CrawlRuns).
RunnersReturn ==
    \A w \in Worker : []<>(workers[w].pc \notin {"handling", "cancelling", "lost"})

\* Unless a runner is stuck, every job that is queued is eventually decided, whatever crashes,
\* expired leases, shutdowns and retries happen on the way.
Drains == RunnersReturn => \A j \in Job : Active(j) ~> jobs[j].status \in Settled

-----------------------------------------------------------------------------
(* The abstract specification *)

Lifecycle == INSTANCE JobLifecycle
    WITH status <- [j \in Job |-> jobs[j].status],
         started <- [j \in Job |-> jobs[j].attempts]

\* The job table and its runners keep the promises of JobLifecycle.
ImplementsLifecycle == Lifecycle!LifecycleSpec

\* What a runner's process means to the records its handler writes: its phase, and
\* after it has left run_once that the attempt is over.
RunnerOf(a) == {w \in Worker : workers[w].pc \in Holding /\ workers[w].job = a[1]
                                                       /\ workers[w].token = a[2]}
ProcessOf(a) ==
    IF RunnerOf(a) = {}
    THEN [phase |-> IF a[2] <= jobs[a[1]].attempts THEN "gone" ELSE "none",
          retryable |-> FALSE]
    ELSE LET w == CHOOSE w \in RunnerOf(a) : TRUE
         IN  [phase |-> IF workers[w].pc = "recording" THEN "failing" ELSE workers[w].pc,
              retryable |-> workers[w].retry # "never"]

Attempts == INSTANCE JobAttempts
    WITH status <- [j \in Job |-> jobs[j].status],
         started <- [j \in Job |-> jobs[j].attempts],
         attempts <- [a \in UNION {{j} \X (1..Budget(j)) : j \in Job} |-> ProcessOf(a)],
         MayCrash <- TRUE

\* Handlers and their records may rely on JobAttempts: an attempt outlives its
\* lease, but only the attempt whose token is in the row settles the job.
ImplementsAttempts == Attempts!AttemptsSpec
=============================================================================
