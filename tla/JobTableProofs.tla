--------------------------- MODULE JobTableProofs ---------------------------
(***************************************************************************)
(* What one step of the queue can do to the job table, and what follows:   *)
(* one active row per key, the company-news width, who may settle a row,   *)
(* the finality of settled rows, and the refinement of JobLifecycle.       *)
(*                                                                         *)
(* Every action of JobQueue changes the table in one of the ways below;    *)
(* TableFate says so once, and each property is proved from that short     *)
(* list instead of from the eighteen actions.                              *)
(***************************************************************************)
EXTENDS JobQueueProofs

\* A settled row that no clock runs for.
AtRest(i) == jobs[i].status \in Settled /\ jobs[i].wait = 0 /\ jobs[i].lease = 0

\* The heartbeat, an enqueue that meets a pending row, the passing of time: no
\* row changes its status or its attempt count, and settled rows do not change.
TableKept ==
    \A i \in Job :
        /\ jobs'[i].status = jobs[i].status /\ jobs'[i].attempts = jobs[i].attempts
        /\ AtRest(i) => jobs'[i] = jobs[i]

OthersKept(j) == \A i \in Job : i # j => jobs'[i] = jobs[i]

Inserted(j) ==
    /\ jobs[j].status = "absent" /\ ~KeyIsActive(KeyOf(j))
    /\ jobs'[j].status = "pending" /\ jobs'[j].attempts = jobs[j].attempts

Started(j) ==
    /\ Active(j) /\ ~Exhausted(j) /\ UnderNewsCap(j)
    /\ jobs'[j].status = "running" /\ jobs'[j].attempts = jobs[j].attempts + 1

\* The holder decides its row and forgets it.
Released(j) ==
    /\ Running(j) /\ \E w \in Worker : Holds(w, j) /\ workers'[w].job # j
    /\ \/ jobs'[j].status = "pending" /\ ~Exhausted(j)
       \/ jobs'[j].status \in {"completed", "failed"}
    /\ jobs'[j].attempts = jobs[j].attempts

Cancelled(j) ==
    /\ jobs[j].status = "pending"
    /\ jobs'[j].status = "cancelled" /\ jobs'[j].attempts = jobs[j].attempts

TableSwept ==
    \A i \in Job :
        /\ FinalAttemptLost(i) => jobs'[i].status = "failed" /\ jobs'[i].attempts = jobs[i].attempts
        /\ ~FinalAttemptLost(i) => jobs'[i] = jobs[i]

LEMMA ProduceFate ==
    ASSUME QueueInv, NEW j \in Job, NEW p \in Priority, NEW d \in 0..MaxWait, Enqueue(j, p, d)
    PROVE  TableKept \/ (OthersKept(j) /\ Inserted(j))
<1>1. jobs \in [Job -> JobRow]
  BY DEF QueueInv, QueueTypeOK
<1>2. CASE Insert(j, p, d)
  <2>1. jobs[j].attempts = 0
    BY <1>2 DEF Insert, QueueInv, AbsentUntouched
  <2> QED
    BY <1>1, <1>2, <2>1 DEF Insert, OthersKept, Inserted, AbsentRow
<1>3. CASE Upsert(j, p, d)
  BY <1>1, <1>3 DEF Upsert, TableKept, JobRow, AtRest, Settled
<1> QED
  BY <1>2, <1>3 DEF Enqueue

LEMMA WithdrawFate ==
    ASSUME QueueInv, NEW j \in Job, CancelPending(j)
    PROVE  OthersKept(j) /\ Cancelled(j)
<1>1. jobs \in [Job -> JobRow] /\ jobs[j] \in JobRow
  BY DEF QueueInv, QueueTypeOK
<1> QED
  BY <1>1 DEF CancelPending, OthersKept, Cancelled, JobRow

LEMMA ClaimFate ==
    ASSUME QueueInv, NEW w \in Worker, NEW j \in Job, NEW age \in ClaimAge(w), Claim(w, j, age)
    PROVE  OthersKept(j) /\ Started(j)
<1>1. jobs \in [Job -> JobRow] /\ jobs[j] \in JobRow /\ Lease - age \in Nat
  BY QueueAssumption DEF QueueInv, QueueTypeOK, ClaimAge
<1>2. jobs' = [jobs EXCEPT ![j] = ClaimedRow(jobs[j], age)]
  BY DEF Claim
<1>3. /\ \A i \in Job : i # j => jobs'[i] = jobs[i]
      /\ jobs'[j].status = "running" /\ jobs'[j].attempts = jobs[j].attempts + 1
  BY <1>1, <1>2, ClaimedRowType
<1>4. Active(j) /\ ~Exhausted(j) /\ UnderNewsCap(j)
  BY DEF Claim, Claimable, Due, Expired, Active, Running
<1> QED
  BY <1>3, <1>4 DEF OthersKept, Started

LEMMA CompleteFate ==
    ASSUME QueueInv, NEW w \in Worker, Complete(w)
    PROVE  TableKept \/ \E j \in Job : OthersKept(j) /\ Released(j)
<1> DEFINE j == workers[w].job
<1>1. /\ jobs \in [Job -> JobRow] /\ j \in Job /\ jobs[j] \in JobRow
      /\ workers[w].pc \in Holding /\ workers' = [workers EXCEPT ![w] = IdleRunner]
      /\ w \in DOMAIN workers
  BY DEF QueueInv, QueueTypeOK, Complete, Holding
<1>2. CASE ~OwnsLease(w)
  BY <1>2 DEF Complete, TableKept
<1>3. CASE OwnsLease(w)
  <2>1. Running(j) /\ Holds(w, j)
    BY <1>1, <1>3 DEF OwnsLease, Holds, Running
  <2>2. workers'[w].job # j
    BY <1>1, QueueAssumption DEF IdleRunner
  <2>3. jobs' = [jobs EXCEPT ![j] = CompletedRow(jobs[j])]
    BY <1>3 DEF Complete
  <2>4. OthersKept(j) /\ jobs'[j].status = "completed" /\ jobs'[j].attempts = jobs[j].attempts
    BY <1>1, <2>3 DEF OthersKept, CompletedRow, JobRow
  <2> QED
    BY <1>1, <2>1, <2>2, <2>4 DEF Released
<1> QED
  BY <1>2, <1>3

LEMMA RecordFailureFate ==
    ASSUME QueueInv, NEW w \in Worker, RecordFailure(w)
    PROVE  \E j \in Job : OthersKept(j) /\ Released(j)
<1> DEFINE j == workers[w].job
           retry == workers[w].retry
<1>1. /\ jobs \in [Job -> JobRow] /\ j \in Job /\ jobs[j] \in JobRow /\ Holds(w, j)
      /\ workers' = [workers EXCEPT ![w] = AfterFailure(w)] /\ w \in DOMAIN workers
  BY DEF QueueInv, QueueTypeOK, RecordFailure, Holding, LockedRowIsOwned
<1>2. Running(j) /\ workers'[w].job # j
  BY <1>1, QueueAssumption DEF Holds, AfterFailure, IdleRunner
<1>3. CASE Retries(w)
  <2>1. jobs' = [jobs EXCEPT ![j] = RequeuedRow(jobs[j], retry)]
    BY <1>3 DEF RecordFailure
  <2>2. OthersKept(j) /\ jobs'[j].status = "pending" /\ jobs'[j].attempts = jobs[j].attempts
    BY <1>1, <2>1 DEF OthersKept, RequeuedRow, JobRow
  <2> QED
    BY <1>1, <1>2, <1>3, <2>2 DEF Released, Retries
<1>4. CASE ~Retries(w)
  <2>1. jobs' = [jobs EXCEPT ![j] = FailedRow(jobs[j])]
    BY <1>4 DEF RecordFailure
  <2>2. OthersKept(j) /\ jobs'[j].status = "failed" /\ jobs'[j].attempts = jobs[j].attempts
    BY <1>1, <2>1 DEF OthersKept, FailedRow, JobRow
  <2> QED
    BY <1>1, <1>2, <2>2 DEF Released
<1> QED
  BY <1>3, <1>4

LEMMA SweepFate == ASSUME QueueInv, NEW w \in Worker, Sweep(w) PROVE TableSwept
<1>1. jobs \in [Job -> JobRow]
  BY DEF QueueInv, QueueTypeOK
<1> QED
  BY <1>1 DEF Sweep, TableSwept, FailedRow, JobRow

LEMMA TickFate == ASSUME QueueInv, Tick \/ \E w \in Worker : Renew(w) PROVE TableKept
<1>1. jobs \in [Job -> JobRow]
  BY DEF QueueInv, QueueTypeOK
<1>2. CASE Tick
  <2> SUFFICES ASSUME NEW i \in Job
               PROVE  /\ jobs'[i].status = jobs[i].status /\ jobs'[i].attempts = jobs[i].attempts
                      /\ AtRest(i) => jobs'[i] = jobs[i]
    BY DEF TableKept
  <2>1. jobs'[i] = [jobs[i] EXCEPT !.wait = Less(@), !.lease = Less(@)] /\ jobs[i] \in JobRow
    BY <1>1, <1>2 DEF Tick
  <2>2. Less(0) = 0
    BY DEF Less
  <2> QED
    BY ZenonT(60), <2>1, <2>2 DEF JobRow, AtRest
<1>3. CASE \E w \in Worker : Renew(w)
  <2> PICK w \in Worker : Renew(w)
    BY <1>3
  <2>1. jobs[workers[w].job].status = "running"
    BY DEF Renew, OwnsLease
  <2> QED
    BY <1>1, <2>1 DEF Renew, TableKept, JobRow, AtRest, Settled
<1> QED
  BY <1>2, <1>3

LEMMA TableFate ==
    ASSUME QueueInv, [QueueNext]_queueVars
    PROVE  \/ TableKept
           \/ \E j \in Job : /\ OthersKept(j)
                             /\ Inserted(j) \/ Started(j) \/ Released(j) \/ Cancelled(j)
           \/ TableSwept
<1>1. CASE UNCHANGED queueVars
  BY <1>1 DEF queueVars, TableKept
<1>2. CASE Produce \/ Withdraw
  BY <1>2, ProduceFate, WithdrawFate DEF Produce, Withdraw
<1>3. CASE Tick
  BY <1>3, TickFate
<1>4. CASE \E w \in Worker : Step(w)
  <2> PICK w \in Worker : Step(w)
    BY <1>4
  <2>1. CASE \/ ClaimNothing(w) \/ LoseLease(w) \/ HandlerSucceeds(w) \/ FailAny(w)
             \/ ShutDown(w) \/ CancelRuns(w) \/ LockForFailure(w) \/ LeaseError(w)
             \/ Crash(w) \/ Restart(w)
    BY <2>1 DEF ClaimNothing, LoseLease, HandlerSucceeds, FailAny, HandlerFails, ShutDown,
                CancelRuns, LockForFailure, LeaseError, Crash, Restart, TableKept
  <2>2. CASE ClaimAny(w)
    BY <2>2, ClaimFate DEF ClaimAny
  <2> QED
    BY <2>1, <2>2, SweepFate, TickFate, CompleteFate, RecordFailureFate DEF Step
<1> QED
  BY <1>1, <1>2, <1>3, <1>4 DEF QueueNext
-----------------------------------------------------------------------------
(* One active row per key *)

LEMMA OneActiveStep ==
    ASSUME QueueInv, OneActivePerKey, [QueueNext]_queueVars
    PROVE  OneActivePerKey'
<1>1. CASE TableKept
  BY <1>1 DEF TableKept, OneActivePerKey, Active
<1>2. CASE \E j \in Job : OthersKept(j) /\ Inserted(j)
  <2> PICK j \in Job : OthersKept(j) /\ Inserted(j)
    BY <1>2
  <2>1. \A i \in Job : KeyOf(i) = KeyOf(j) => ~Active(i)
    BY DEF Inserted, KeyIsActive, KeyOf, Job
  <2>2. \A i \in Job : i # j => (Active(i)' <=> Active(i))
    BY DEF OthersKept, Active
  <2> QED
    BY <2>1, <2>2 DEF OneActivePerKey
<1>3. CASE \E j \in Job : OthersKept(j) /\ (Started(j) \/ Released(j) \/ Cancelled(j))
  <2>1. \A i \in Job : Active(i)' => Active(i)
    BY <1>3 DEF OthersKept, Started, Released, Cancelled, Active, Running
  <2> QED
    BY <2>1 DEF OneActivePerKey
<1>4. CASE TableSwept
  <2>1. \A i \in Job : Active(i)' => Active(i)
    BY <1>4 DEF TableSwept, Active
  <2> QED
    BY <2>1 DEF OneActivePerKey
<1> QED
  BY <1>1, <1>2, <1>3, <1>4, TableFate

\* A key never has two pending or running rows (jobs_one_active_key_idx): the
\* requeue, the reclaim and the sweep cannot bring a second one to life.
THEOREM OneActiveRow == QueueSpec => []OneActivePerKey
<1>1. QueueInit => OneActivePerKey
  BY DEF QueueInit, OneActivePerKey, Active, AbsentRow
<1> QED
  BY <1>1, QueueInvHolds, OneActiveStep, PTL DEF QueueSpec

-----------------------------------------------------------------------------
(* The company-news width *)

LEMMA JobsAreFinite == IsFiniteSet(Job)
<1>1. IsFiniteSet(Key) /\ IsFiniteSet(1..MaxOcc)
  BY QueueAssumption, FS_Interval
<1> QED
  BY <1>1, FS_Product DEF Job

LEMMA NewsIsFinite == /\ IsFiniteSet(RunningNews) /\ Cardinality(RunningNews) \in Nat
                      /\ IsFiniteSet(RunningNews') /\ Cardinality(RunningNews)' \in Nat
<1>1. RunningNews \subseteq Job /\ RunningNews' \subseteq Job
  BY DEF RunningNews
<1> QED
  BY <1>1, JobsAreFinite, FS_Subset, FS_CardinalityType

LEMMA NewsStep ==
    ASSUME QueueInv, NewsWithinCap, [QueueNext]_queueVars
    PROVE  NewsWithinCap'
<1>1. SUFFICES ASSUME ~(RunningNews' \subseteq RunningNews) PROVE NewsWithinCap'
  <2> SUFFICES ASSUME RunningNews' \subseteq RunningNews PROVE NewsWithinCap'
    OBVIOUS
  <2>1. Cardinality(RunningNews') <= Cardinality(RunningNews)
    BY NewsIsFinite, FS_Subset
  <2> QED
    BY <2>1, NewsIsFinite, QueueAssumption DEF NewsWithinCap
<1>2. PICK j \in Job : OthersKept(j) /\ Started(j) /\ KeyOf(j) \in NewsKey
  <2>1. CASE TableKept \/ TableSwept
    BY <1>1, <2>1 DEF TableKept, TableSwept, RunningNews, Running
  <2>2. ASSUME NEW j \in Job, OthersKept(j), Inserted(j) \/ Released(j) \/ Cancelled(j)
        PROVE  FALSE
    BY <1>1, <2>2 DEF OthersKept, Inserted, Released, Cancelled, RunningNews, Running
  <2>3. ASSUME NEW j \in Job, OthersKept(j), Started(j), KeyOf(j) \notin NewsKey
        PROVE  FALSE
    BY <1>1, <2>3 DEF OthersKept, RunningNews, Running
  <2> QED
    BY <2>1, <2>2, <2>3, TableFate
<1> DEFINE rest == RunningNews \ {j}
<1>3. RunningNews' = rest \cup {j}
  BY <1>2 DEF OthersKept, Started, RunningNews, Running
<1>4. IsFiniteSet(rest) /\ Cardinality(rest) \in Nat /\ j \notin rest
  BY NewsIsFinite, FS_Subset, FS_CardinalityType
<1>5. Cardinality(rest) < NewsCap
  BY <1>2 DEF Started, UnderNewsCap
<1>6. Cardinality(RunningNews') = Cardinality(rest) + 1
  BY <1>3, <1>4, FS_AddElement
<1> QED
  BY <1>4, <1>5, <1>6, QueueAssumption DEF NewsWithinCap

\* Company-news jobs in flight never exceed max_company_news_in_flight: the count
\* inside the claim, under the advisory lock, is enough for any number of workers.
THEOREM NewsStaysWithinCap == QueueSpec => []NewsWithinCap
<1>1. QueueInit => NewsWithinCap
  <2> SUFFICES ASSUME QueueInit PROVE NewsWithinCap
    OBVIOUS
  <2>1. RunningNews = {}
    BY DEF QueueInit, RunningNews, Running, AbsentRow
  <2> QED
    BY <2>1, FS_EmptySet, QueueAssumption DEF NewsWithinCap
<1> QED
  BY <1>1, QueueInvHolds, NewsStep, PTL DEF QueueSpec
-----------------------------------------------------------------------------
(* Who may settle a row *)

\* A running row leaves "running" only by the hand of the runner that holds its
\* token, or by the sweep after its last attempt expired; a stale runner decides
\* nothing.
THEOREM HolderSettles == QueueSpec => OnlyHolderSettles
<1> DEFINE Legal == \A j \in Job :
                       Running(j) /\ ~Running(j)' =>
                          \/ FinalAttemptLost(j) /\ jobs'[j].status = "failed"
                          \/ \E w \in Worker : Holds(w, j) /\ workers'[w].job # j
<1>1. QueueInv /\ [QueueNext]_queueVars => Legal
  <2> SUFFICES ASSUME QueueInv, [QueueNext]_queueVars,
                      NEW i \in Job, Running(i), ~Running(i)'
               PROVE  \/ FinalAttemptLost(i) /\ jobs'[i].status = "failed"
                      \/ \E w \in Worker : Holds(w, i) /\ workers'[w].job # i
    OBVIOUS
  <2>1. CASE TableKept
    BY <2>1 DEF TableKept, Running
  <2>2. CASE TableSwept
    BY <2>2 DEF TableSwept, Running
  <2>3. ASSUME NEW j \in Job, OthersKept(j), Inserted(j) \/ Started(j) \/ Cancelled(j)
        PROVE  FALSE
    BY <2>3 DEF OthersKept, Inserted, Started, Cancelled, Running
  <2>4. ASSUME NEW j \in Job, OthersKept(j), Released(j)
        PROVE  \E w \in Worker : Holds(w, i) /\ workers'[w].job # i
    BY <2>4 DEF OthersKept, Released, Running
  <2> QED
    BY <2>1, <2>2, <2>3, <2>4, TableFate
<1>2. QueueInv /\ [QueueNext]_queueVars => [Legal]_queueVars
  BY <1>1
<1> QED
  BY <1>2, QueueInvHolds, PTL DEF QueueSpec, OnlyHolderSettles

-----------------------------------------------------------------------------
(* Settled rows are final.  Time changes a row that waits or is leased, so the  *)
(* proof needs that only pending rows wait.                                     *)

OnlyPendingWaits == \A j \in Job : jobs[j].status # "pending" => jobs[j].wait = 0

LEMMA WaitStep ==
    ASSUME QueueInv, OnlyPendingWaits, [QueueNext]_queueVars
    PROVE  OnlyPendingWaits'
<1>1. jobs \in [Job -> JobRow]
  BY DEF QueueInv, QueueTypeOK
<1>2. CASE UNCHANGED jobs
  BY <1>2 DEF OnlyPendingWaits
<1>3. ASSUME NEW j \in Job, NEW row, jobs' = [jobs EXCEPT ![j] = row],
             row.status # "pending" => row.wait = 0
      PROVE  OnlyPendingWaits'
  BY <1>1, <1>3 DEF OnlyPendingWaits
<1>4. CASE Produce \/ Withdraw
  <2>1. ASSUME NEW j \in Job, NEW p \in Priority, NEW d \in 0..MaxWait, Insert(j, p, d)
        PROVE  OnlyPendingWaits'
    BY <1>1, <2>1 DEF Insert, OnlyPendingWaits, AbsentRow
  <2>2. ASSUME NEW j \in Job, NEW p \in Priority, NEW d \in 0..MaxWait, Upsert(j, p, d)
        PROVE  OnlyPendingWaits'
    BY <1>1, <2>2 DEF Upsert, OnlyPendingWaits, JobRow
  <2>3. ASSUME NEW j \in Job, CancelPending(j) PROVE OnlyPendingWaits'
    BY <1>1, <2>3 DEF CancelPending, OnlyPendingWaits, JobRow
  <2> QED
    BY <1>4, <2>1, <2>2, <2>3 DEF Produce, Withdraw, Enqueue
<1>5. CASE Tick
  <2>1. Less(0) = 0
    BY DEF Less
  <2> QED
    BY <1>1, <1>5, <2>1 DEF Tick, OnlyPendingWaits, JobRow
<1>6. CASE \E w \in Worker : Step(w)
  <2> PICK w \in Worker : Step(w)
    BY <1>6
  <2>1. CASE Sweep(w)
    BY <1>1, <2>1 DEF Sweep, FailedRow, OnlyPendingWaits, JobRow,
                      FinalAttemptLost, Expired, Running
  <2>2. CASE ClaimAny(w)
    <3> PICK j \in Job, age \in ClaimAge(w) : Claim(w, j, age)
      BY <2>2 DEF ClaimAny
    <3>1. jobs[j].wait = 0
      BY DEF Claim, Claimable, Due, Expired, Running, OnlyPendingWaits
    <3>2. ClaimedRow(jobs[j], age).wait = 0
      BY <1>1, <3>1 DEF ClaimedRow, JobRow
    <3> QED
      BY <1>3, <3>2 DEF Claim
  <2>3. CASE Renew(w)
    BY <1>1, <2>3 DEF Renew, OwnsLease, OnlyPendingWaits, JobRow
  <2>4. CASE Complete(w) \/ RecordFailure(w)
    <3> DEFINE j == workers[w].job
    <3>1. j \in Job
      BY <2>4 DEF Complete, RecordFailure, Holding, QueueInv, QueueTypeOK
    <3>2. Running(j) => /\ CompletedRow(jobs[j]).wait = 0 /\ FailedRow(jobs[j]).wait = 0
      BY <1>1, <3>1 DEF Running, CompletedRow, FailedRow, OnlyPendingWaits, JobRow
    <3>3. RequeuedRow(jobs[j], workers[w].retry).status = "pending"
      BY <1>1, <3>1 DEF RequeuedRow, JobRow
    <3>4. CASE Complete(w)
      BY <1>2, <1>3, <3>1, <3>2, <3>4 DEF Complete, OwnsLease, Running
    <3>5. CASE RecordFailure(w)
      <4>1. Running(j)
        BY <3>5 DEF RecordFailure, QueueInv, LockedRowIsOwned, Holds
      <4> QED
        BY <1>3, <3>1, <3>2, <3>3, <3>5, <4>1 DEF RecordFailure
    <3> QED
      BY <2>4, <3>4, <3>5
  <2>5. CASE \/ ClaimNothing(w) \/ LoseLease(w) \/ HandlerSucceeds(w) \/ FailAny(w)
             \/ ShutDown(w) \/ CancelRuns(w) \/ LockForFailure(w) \/ LeaseError(w)
             \/ Crash(w) \/ Restart(w)
    BY <1>2, <2>5 DEF ClaimNothing, LoseLease, HandlerSucceeds, FailAny, HandlerFails, ShutDown,
                CancelRuns, LockForFailure, LeaseError, Crash, Restart
  <2> QED
    BY <2>1, <2>2, <2>3, <2>4, <2>5 DEF Step
<1>7. CASE UNCHANGED queueVars
  BY <1>2, <1>7 DEF queueVars
<1> QED
  BY <1>4, <1>5, <1>6, <1>7 DEF QueueNext
\* A completed, failed or cancelled job is never resurrected or rewritten, by
\* late workers, sweeps, enqueues or cancellations.
THEOREM SettledStays == QueueSpec => SettledIsFinal
<1> DEFINE Final == \A j \in Job : jobs[j].status \in Settled => jobs'[j] = jobs[j]
<1>1. QueueInit => OnlyPendingWaits
  BY DEF QueueInit, OnlyPendingWaits, AbsentRow
<1>2. QueueInv /\ OnlyPendingWaits /\ [QueueNext]_queueVars => Final
  <2> SUFFICES ASSUME QueueInv, OnlyPendingWaits, [QueueNext]_queueVars,
                      NEW i \in Job, jobs[i].status \in Settled
               PROVE  jobs'[i] = jobs[i]
    OBVIOUS
  <2>1. AtRest(i)
    BY DEF AtRest, OnlyPendingWaits, QueueInv, NoStrandedRow, Running, Settled
  <2>2. CASE TableKept
    BY <2>1, <2>2 DEF TableKept
  <2>3. CASE TableSwept
    BY <2>3 DEF TableSwept, FinalAttemptLost, Expired, Running, Settled
  <2>4. ASSUME NEW j \in Job, OthersKept(j),
               Inserted(j) \/ Started(j) \/ Released(j) \/ Cancelled(j)
        PROVE  jobs'[i] = jobs[i]
    BY <2>4 DEF OthersKept, Inserted, Started, Released, Cancelled, Active, Running, Settled
  <2> QED
    BY <2>2, <2>3, <2>4, TableFate
<1>3. QueueInv /\ OnlyPendingWaits /\ [QueueNext]_queueVars => [Final]_queueVars
  BY <1>2
<1> QED
  BY <1>1, <1>3, QueueInvHolds, WaitStep, PTL DEF QueueSpec, SettledIsFinal

-----------------------------------------------------------------------------
(* Refinement *)

LEMMA LostOnLastAttempt ==
    ASSUME QueueInv, NEW j \in Job, FinalAttemptLost(j)
    PROVE  jobs[j].status = "running" /\ jobs[j].attempts = Budget(j)
<1>1. jobs[j].attempts \in Nat /\ jobs[j].attempts <= Budget(j) /\ Budget(j) \in Nat
  BY BudgetType DEF QueueInv, QueueTypeOK, JobRow
<1> QED
  BY <1>1 DEF FinalAttemptLost, Expired, Exhausted, Running

LEMMA LifecycleStep ==
    ASSUME QueueInv, [QueueNext]_queueVars
    PROVE  [Lifecycle!LifecycleNext]_(Lifecycle!lifecycleVars)
<1> USE DEF Lifecycle!Job, Lifecycle!KeyOf, Lifecycle!Budget, Job, KeyOf, Budget
<1>1. CASE TableKept
  BY <1>1 DEF TableKept, Lifecycle!lifecycleVars
<1>2. ASSUME NEW j \in Job, OthersKept(j), Inserted(j)
      PROVE  Lifecycle!Submit(j)
  <2>1. \A i \in Job : KeyOf(i) = KeyOf(j) => jobs[i].status \notin {"pending", "running"}
    BY <1>2 DEF Inserted, KeyIsActive, Active
  <2> QED
    BY <1>2, <2>1 DEF OthersKept, Inserted, Lifecycle!Submit
<1>3. ASSUME NEW j \in Job, OthersKept(j), Started(j)
      PROVE  Lifecycle!Start(j)
  <2>1. jobs[j].attempts < Budget(j)
    BY <1>3, BudgetType DEF Started, Exhausted, QueueInv, QueueTypeOK, JobRow
  <2> QED
    BY <1>3, <2>1 DEF OthersKept, Started, Active, Lifecycle!Start
<1>4. ASSUME NEW j \in Job, OthersKept(j), Released(j)
      PROVE  Lifecycle!Requeue(j) \/ \E outcome \in Settled : Lifecycle!Settle(j, outcome)
  <2>1. CASE jobs'[j].status = "pending" /\ ~Exhausted(j)
    <3>1. jobs[j].attempts < Budget(j)
      BY <2>1, BudgetType DEF Exhausted, QueueInv, QueueTypeOK, JobRow
    <3> QED
      BY <1>4, <2>1, <3>1 DEF OthersKept, Released, Running, Lifecycle!Requeue
  <2>2. CASE jobs'[j].status \in {"completed", "failed"}
    BY <1>4, <2>2 DEF OthersKept, Released, Running, Settled, Lifecycle!Settle
  <2> QED
    BY <1>4, <2>1, <2>2 DEF Released
<1>5. ASSUME NEW j \in Job, OthersKept(j), Cancelled(j)
      PROVE  Lifecycle!Withdraw(j)
  BY <1>5 DEF OthersKept, Cancelled, Lifecycle!Withdraw
<1>6. ASSUME TableSwept
      PROVE  Lifecycle!Exhaust({j \in Job : FinalAttemptLost(j)})
  <2>1. \A j \in Job : FinalAttemptLost(j) => /\ jobs[j].status = "running"
                                              /\ jobs[j].attempts = Budget(j)
    BY LostOnLastAttempt
  <2> QED
    BY <1>6, <2>1 DEF TableSwept, Lifecycle!Exhaust
<1>7. ASSUME NEW j \in Job, OthersKept(j), Inserted(j) \/ Started(j) \/ Released(j) \/ Cancelled(j)
      PROVE  Lifecycle!LifecycleNext
  BY <1>2, <1>3, <1>4, <1>5, <1>7 DEF Lifecycle!LifecycleNext, Lifecycle!Settled, Settled
<1>8. ASSUME TableSwept PROVE Lifecycle!LifecycleNext
  <2> DEFINE lost == {j \in Job : FinalAttemptLost(j)}
  <2>1. lost \in SUBSET Lifecycle!Job
    OBVIOUS
  <2>2. Lifecycle!Exhaust(lost)
    BY <1>6, <1>8
  <2>3. \E J \in SUBSET Lifecycle!Job : Lifecycle!Exhaust(J)
    <3> HIDE DEF lost, Lifecycle!Job
    <3> QED
      BY <2>1, <2>2, Zenon DEF Lifecycle!Exhaust
  <2> QED
    BY <2>3, Zenon DEF Lifecycle!LifecycleNext
<1> QED
  BY <1>1, <1>7, <1>8, TableFate

\* The job table and its runners implement JobLifecycle: without times, leases,
\* tokens and workers the code is a queue that starts a job at most max_attempts
\* times and settles it for good.
THEOREM QueueRefinesLifecycle == QueueSpec => ImplementsLifecycle
<1>1. QueueInit => Lifecycle!LifecycleInit
  BY DEF QueueInit, Lifecycle!LifecycleInit, Lifecycle!Job, Job, AbsentRow
<1> QED
  BY <1>1, QueueInvHolds, LifecycleStep, PTL
     DEF QueueSpec, ImplementsLifecycle, Lifecycle!LifecycleSpec
-----------------------------------------------------------------------------
(* When a lease cannot expire under a live runner *)

\* The lease of a running handler outlives its next heartbeat.
LeaseAhead ==
    \A w \in Worker :
        workers[w].pc = "handling" =>
            /\ Holds(w, workers[w].job)
            /\ jobs[workers[w].job].lease > workers[w].beat

\* Nobody else's step touches a row whose holder has a live lease.
LEMMA LiveRowUntouched ==
    ASSUME QueueInv, NEW v \in Worker, NEW j \in Job, Holds(v, j), jobs[j].lease > 0,
           \/ Produce \/ Withdraw
           \/ \E w \in Worker : w # v /\ Step(w)
    PROVE  jobs'[j] = jobs[j]
<1>1. /\ jobs \in [Job -> JobRow] /\ Running(j) /\ jobs[j].status = "running"
      /\ jobs[j].lease \in Nat
      /\ ~Expired(j) /\ ~FinalAttemptLost(j)
  BY DEF QueueInv, QueueTypeOK, Holds, Running, Expired, FinalAttemptLost, JobRow
<1>2. CASE Produce
  BY <1>1, <1>2 DEF Produce, Enqueue, Insert, Upsert
<1>3. CASE Withdraw
  BY <1>1, <1>3 DEF Withdraw, CancelPending
<1>4. CASE \E w \in Worker : w # v /\ Step(w)
  <2> PICK w \in Worker : w # v /\ Step(w)
    BY <1>4
  <2>1. \A i \in Job : Holds(w, i) => i # j
    BY DEF QueueInv, OneHolder
  <2>2. CASE Sweep(w)
    BY <1>1, <2>2 DEF Sweep
  <2>3. CASE ClaimAny(w)
    BY <1>1, <2>3 DEF ClaimAny, Claim, Claimable, Due
  <2>4. CASE Renew(w)
    <3>1. workers[w].job \in Job /\ Holds(w, workers[w].job)
      BY <2>4 DEF Renew, OwnsLease, Holds, Running, Holding, QueueInv, QueueTypeOK
    <3> QED
      BY <1>1, <2>1, <2>4, <3>1 DEF Renew
  <2>5. CASE Complete(w)
    <3>1. OwnsLease(w) => workers[w].job \in Job /\ Holds(w, workers[w].job)
      BY <2>5 DEF Complete, OwnsLease, Holds, Running, Holding, QueueInv, QueueTypeOK
    <3> QED
      BY <1>1, <2>1, <2>5, <3>1 DEF Complete
  <2>6. CASE RecordFailure(w)
    <3>1. workers[w].job \in Job /\ Holds(w, workers[w].job)
      BY <2>6 DEF RecordFailure, Holding, QueueInv, QueueTypeOK, LockedRowIsOwned
    <3> QED
      BY <1>1, <2>1, <2>6, <3>1 DEF RecordFailure
  <2>7. CASE \/ ClaimNothing(w) \/ LoseLease(w) \/ HandlerSucceeds(w) \/ FailAny(w)
             \/ ShutDown(w) \/ CancelRuns(w) \/ LockForFailure(w) \/ LeaseError(w)
             \/ Crash(w) \/ Restart(w)
    BY <2>7 DEF ClaimNothing, LoseLease, HandlerSucceeds, FailAny, HandlerFails, ShutDown,
                CancelRuns, LockForFailure, LeaseError, Crash, Restart
  <2> QED
    BY <2>2, <2>3, <2>4, <2>5, <2>6, <2>7 DEF Step
<1> QED
  BY <1>2, <1>3, <1>4

\* After a step of its own a runner handles a job only if it claimed it or renewed it.
LEMMA HandlingAfterStep ==
    ASSUME QueueInv, NEW w \in Worker, Step(w)
    PROVE  /\ \A v \in Worker : v # w => workers'[v] = workers[v]
           /\ workers'[w].pc = "handling" => ClaimAny(w) \/ Renew(w)
<1>1. workers \in [Worker -> Runner] /\ workers[w] \in Runner /\ AfterFailure(w).pc # "handling"
  BY IdleRunnerType DEF QueueInv, QueueTypeOK, Holding
<1>2. CASE \/ Sweep(w) \/ ClaimNothing(w) \/ LoseLease(w) \/ HandlerSucceeds(w)
           \/ ShutDown(w) \/ CancelRuns(w) \/ Complete(w) \/ LockForFailure(w)
           \/ Crash(w) \/ Restart(w)
  BY <1>1, <1>2 DEF Sweep, ClaimNothing, LoseLease, HandlerSucceeds, ShutDown, CancelRuns,
                    Complete, LockForFailure, Crash, Restart, Goto, IdleRunner, Runner
<1>3. CASE LeaseError(w) \/ RecordFailure(w)
  BY <1>1, <1>3 DEF LeaseError, RecordFailure
<1>4. CASE FailAny(w)
  BY <1>1, <1>4 DEF FailAny, HandlerFails, Runner
<1>5. CASE Renew(w)
  BY <1>1, <1>5 DEF Renew
<1>6. CASE ClaimAny(w)
  BY <1>1, <1>6 DEF ClaimAny, Claim
<1> QED
  BY <1>2, <1>3, <1>4, <1>5, <1>6 DEF Step
LEMMA LeaseStep ==
    ASSUME QueueInv, LeaseAhead, [QueueNext]_queueVars, Timely, MaxStale + Heartbeat < Lease
    PROVE  LeaseAhead'
<1>1. /\ jobs \in [Job -> JobRow] /\ workers \in [Worker -> Runner]
      /\ \A w \in Worker : workers[w].pc = "handling" => workers[w].job \in Job
  BY DEF QueueInv, QueueTypeOK, Holding
<1>2. ASSUME NEW v \in Worker, workers'[v] = workers[v], workers[v].pc = "handling",
             jobs'[workers[v].job] = jobs[workers[v].job]
      PROVE  Holds(v, workers[v].job)' /\ jobs'[workers[v].job].lease > workers'[v].beat
  BY <1>1, <1>2 DEF LeaseAhead, Holds, Running
<1>3. CASE UNCHANGED queueVars
  BY <1>2, <1>3 DEF queueVars, LeaseAhead
<1>4. CASE Produce \/ Withdraw
  <2> SUFFICES ASSUME NEW v \in Worker, workers'[v].pc = "handling"
               PROVE  /\ Holds(v, workers[v].job)' /\ jobs'[workers[v].job].lease > workers'[v].beat
                      /\ workers'[v] = workers[v]
    BY DEF LeaseAhead
  <2>1. workers' = workers
    BY <1>4 DEF Produce, Enqueue, Insert, Upsert, Withdraw, CancelPending
  <2>2. Holds(v, workers[v].job) /\ jobs[workers[v].job].lease > 0 /\ workers[v].job \in Job
    BY <1>1, <2>1 DEF LeaseAhead, JobRow, Runner
  <2> QED
    BY <1>2, <1>4, <2>1, <2>2, LiveRowUntouched
<1>5. CASE \E w \in Worker : Step(w)
  <2> PICK w \in Worker : Step(w)
    BY <1>5
  <2> SUFFICES ASSUME NEW v \in Worker, workers'[v].pc = "handling"
               PROVE  /\ Holds(v, workers[v].job)'
                      /\ jobs'[workers'[v].job].lease > workers'[v].beat
    BY DEF LeaseAhead
  <2>1. CASE v # w
    <3>1. workers'[v] = workers[v]
      BY <2>1, HandlingAfterStep
    <3>2. Holds(v, workers[v].job) /\ jobs[workers[v].job].lease > 0 /\ workers[v].job \in Job
      BY <1>1, <3>1 DEF LeaseAhead, JobRow, Runner
    <3>3. jobs'[workers[v].job] = jobs[workers[v].job]
      BY <2>1, <3>2, LiveRowUntouched
    <3> QED
      BY <1>2, <3>1, <3>3 DEF Holds
  <2>2. CASE v = w /\ ClaimAny(w)
    <3> PICK j \in Job, age \in ClaimAge(w) : Claim(w, j, age)
      BY <2>2 DEF ClaimAny
    <3>1. age \in Int /\ Lease - age \in Nat /\ Lease - age > Heartbeat /\ Heartbeat \in Nat
      BY QueueAssumption DEF ClaimAge
    <3>2. /\ jobs'[j].status = "running" /\ jobs'[j].token = FreshToken(jobs[j])
          /\ jobs'[j].lease = Lease - age
      BY <1>1 DEF Claim, ClaimedRow, JobRow
    <3>3. /\ workers'[w].pc = "handling" /\ workers'[w].job = j
          /\ workers'[w].token = FreshToken(jobs[j]) /\ workers'[w].beat = Heartbeat
      BY <1>1 DEF Claim, IdleRunner
    <3> QED
      BY <2>2, <3>1, <3>2, <3>3 DEF Holds, Running, Holding
  <2>3. CASE v = w /\ Renew(w)
    <3> DEFINE j == workers[w].job
    <3>1. j \in Job /\ Running(j) /\ jobs[j].token = workers[w].token /\ workers[w].pc = "handling"
      BY <1>1, <2>3 DEF Renew, OwnsLease, Running
    <3>2. jobs'[j].status = "running" /\ jobs'[j].token = jobs[j].token /\ jobs'[j].lease = Lease
      BY <1>1, <2>3, <3>1 DEF Renew, JobRow, Running
    <3>3. /\ workers'[w].pc = "handling" /\ workers'[w].job = j
          /\ workers'[w].token = workers[w].token /\ workers'[w].beat = Heartbeat
      BY <1>1, <2>3, <3>1 DEF Renew, Runner
    <3>4. Lease > Heartbeat
      BY QueueAssumption
    <3> QED
      BY <2>3, <3>1, <3>2, <3>3, <3>4 DEF Holds, Running, Holding
  <2> QED
    BY <2>1, <2>2, <2>3, HandlingAfterStep
<1>6. CASE Tick
  <2> SUFFICES ASSUME NEW v \in Worker, workers'[v].pc = "handling"
               PROVE  /\ Holds(v, workers[v].job)'
                      /\ jobs'[workers'[v].job].lease > workers'[v].beat
    BY DEF LeaseAhead
  <2>1. /\ workers'[v].job = workers[v].job /\ workers'[v].token = workers[v].token
        /\ workers[v].pc = "handling" /\ workers'[v].beat = Less(workers[v].beat)
        /\ workers[v].beat \in Nat /\ workers[v].beat > 0
    BY <1>1, <1>6 DEF Tick, Runner
  <2> DEFINE j == workers[v].job
  <2>2. /\ j \in Job /\ jobs'[j].status = jobs[j].status /\ jobs'[j].token = jobs[j].token
        /\ jobs'[j].lease = Less(jobs[j].lease) /\ jobs[j].lease \in Nat
    BY <1>1, <1>6, <2>1 DEF Tick, JobRow
  <2>3. Holds(v, j) /\ jobs[j].lease > workers[v].beat
    BY <2>1 DEF LeaseAhead
  <2>4. Holds(v, j)'
    BY <2>1, <2>2, <2>3 DEF Holds, Running
  <2>5. Less(jobs[j].lease) > Less(workers[v].beat)
    BY <2>1, <2>2, <2>3 DEF Less
  <2> QED
    BY <2>1, <2>2, <2>4, <2>5
<1> QED
  BY <1>3, <1>4, <1>5, <1>6 DEF QueueNext

\* If heartbeats are sent when due and the wait for the company-news lock together
\* with the heartbeat interval stays below the lease, two handlers never run for
\* one job.  The runner's configuration check (heartbeat < lease) does not by
\* itself give that: MaxStale is what it leaves out.
THEOREM NoOverlapWhenTimely ==
    ASSUME Timely, MaxStale + Heartbeat < Lease
    PROVE  QueueSpec => []NoOverlap
<1>1. QueueInit => LeaseAhead
  BY DEF QueueInit, LeaseAhead, IdleRunner
<1>2. QueueInv /\ LeaseAhead => NoOverlap
  <2> SUFFICES ASSUME QueueInv, LeaseAhead, NEW j \in Job, NEW v \in Worker, NEW w \in Worker,
                      Executing(v, j), Executing(w, j)
               PROVE  v = w
    BY DEF NoOverlap
  <2> QED
    BY DEF LeaseAhead, Executing, QueueInv, OneHolder
<1>3. QueueInv /\ LeaseAhead /\ [QueueNext]_queueVars => LeaseAhead'
  BY LeaseStep
<1> QED
  BY <1>1, <1>2, <1>3, QueueInvHolds, PTL DEF QueueSpec
=============================================================================
