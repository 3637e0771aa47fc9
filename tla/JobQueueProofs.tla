--------------------------- MODULE JobQueueProofs ---------------------------
(***************************************************************************)
(* Safety of the job queue for every number of workers, keys and attempts, *)
(* and the refinement of JobLifecycle.                                     *)
(*                                                                         *)
(* OneHolder is not inductive alone: a claim must be known to hand out a   *)
(* token that no runner remembers.  TokenBound gives that, NoStrandedRow   *)
(* ties the row's token to its attempt count, and LockedRowIsOwned is      *)
(* needed so that a failure transaction cannot revive a row that somebody  *)
(* else settled.                                                           *)
(***************************************************************************)
EXTENDS JobQueue, TLAPS, FiniteSetTheorems

\* A token a runner remembers was handed out by a claim of that row.
TokenBound ==
    \A w \in Worker :
        workers[w].pc \in Holding =>
            workers[w].token > 0 /\ workers[w].token <= jobs[workers[w].job].attempts

\* A row nobody has inserted yet has never been claimed.
AbsentUntouched == \A j \in Job : jobs[j].status = "absent" => jobs[j].attempts = 0

QueueInv ==
    /\ QueueTypeOK /\ TokenBound /\ AbsentUntouched
    /\ NoStrandedRow /\ OneHolder /\ LockedRowIsOwned

-----------------------------------------------------------------------------

LEMMA BudgetType == \A j \in Job : Budget(j) \in Nat \ {0} /\ KeyOf(j) \in Key
BY QueueAssumption DEF Job, Budget, KeyOf

LEMMA AbsentRowType == AbsentRow \in JobRow
BY DEF AbsentRow, JobRow, Status

LEMMA IdleRunnerType ==
    /\ IdleRunner \in Runner
    /\ IdleRunner.pc \notin Holding
    /\ \A w \in Worker : AfterFailure(w) \in Runner /\ AfterFailure(w).pc \notin Holding
BY DEF IdleRunner, Runner, Phase, Retry, Holding, AfterFailure

THEOREM InitQueueInv == QueueInit => QueueInv
<1> SUFFICES ASSUME QueueInit PROVE QueueInv
  OBVIOUS
<1>1. QueueTypeOK
  BY AbsentRowType, IdleRunnerType, BudgetType DEF QueueInit, QueueTypeOK, AbsentRow
<1>2. TokenBound /\ OneHolder /\ LockedRowIsOwned
  BY DEF QueueInit, TokenBound, OneHolder, LockedRowIsOwned, Holds, IdleRunner, Holding
<1>3. NoStrandedRow /\ AbsentUntouched
  BY DEF QueueInit, NoStrandedRow, AbsentUntouched, AbsentRow, Running
<1> QED
  BY <1>1, <1>2, <1>3 DEF QueueInv

-----------------------------------------------------------------------------
(* Steps that leave the table alone and keep, drop or move one runner. *)

LEMMA RunnerStep ==
    ASSUME QueueInv, UNCHANGED jobs, NEW w \in Worker,
           workers' \in [Worker -> Runner],
           \A v \in Worker : v # w => workers'[v] = workers[v],
           workers'[w].pc \in Holding =>
               /\ workers[w].pc \in Holding
               /\ workers'[w].job = workers[w].job
               /\ workers'[w].token = workers[w].token,
           workers'[w].pc = "recording" => OwnsLease(w)
    PROVE  QueueInv'
<1>1. QueueTypeOK'
  BY DEF QueueInv, QueueTypeOK
<1>2. TokenBound'
  BY DEF QueueInv, TokenBound
<1>3. NoStrandedRow' /\ AbsentUntouched'
  BY DEF QueueInv, NoStrandedRow, AbsentUntouched, Exhausted, Running
<1>4. OneHolder'
  <2>1. \A v \in Worker, j \in Job : Holds(v, j)' => Holds(v, j)
    BY DEF Holds, Running
  <2> QED
    BY <2>1 DEF QueueInv, OneHolder
<1>5. LockedRowIsOwned'
  BY DEF QueueInv, LockedRowIsOwned, Holds, Running, OwnsLease, Holding
<1> QED
  BY <1>1, <1>2, <1>3, <1>4, <1>5 DEF QueueInv

\* A change of phase, with or without a change of the retry choice.
LEMMA GotoFacts ==
    ASSUME QueueInv, NEW w \in Worker, NEW p \in Phase, NEW q \in Retry,
           \/ Goto(w, p)
           \/ workers' = [workers EXCEPT ![w].pc = p, ![w].retry = q],
           workers[w].pc \in Holding \/ p \notin Holding
    PROVE  /\ workers' \in [Worker -> Runner]
           /\ \A v \in Worker : v # w => workers'[v] = workers[v]
           /\ workers'[w].pc = p /\ workers'[w].job = workers[w].job
           /\ workers'[w].token = workers[w].token
<1>1. workers \in [Worker -> Runner] /\ workers[w] \in Runner
  BY DEF QueueInv, QueueTypeOK
<1>2. CASE Goto(w, p)
  BY <1>1, <1>2 DEF Goto, Runner
<1>3. CASE workers' = [workers EXCEPT ![w].pc = p, ![w].retry = q]
  BY <1>1, <1>3 DEF Runner
<1> QED
  BY <1>2, <1>3

LEMMA DropFacts ==
    ASSUME QueueInv, NEW w \in Worker, NEW r \in Runner,
           workers' = [workers EXCEPT ![w] = r]
    PROVE  /\ workers' \in [Worker -> Runner]
           /\ \A v \in Worker : v # w => workers'[v] = workers[v]
           /\ workers'[w] = r
BY DEF QueueInv, QueueTypeOK

\* Every action of a runner that does not touch the table is such a step.
LEMMA QuietStep ==
    ASSUME QueueInv, NEW w \in Worker,
           \/ ClaimNothing(w) \/ LoseLease(w) \/ HandlerSucceeds(w) \/ FailAny(w)
           \/ ShutDown(w) \/ CancelRuns(w) \/ LockForFailure(w) \/ LeaseError(w)
           \/ Crash(w) \/ Restart(w)
    PROVE  QueueInv'
<1>1. CASE ClaimNothing(w) \/ Crash(w) \/ Restart(w)
  BY <1>1, RunnerStep, IdleRunnerType, DropFacts DEF ClaimNothing, Crash, Restart, Holding
<1>2. CASE LoseLease(w)
  BY <1>2, RunnerStep, GotoFacts DEF LoseLease, Holding, Phase, Retry
<1>3. CASE HandlerSucceeds(w)
  BY <1>3, RunnerStep, GotoFacts DEF HandlerSucceeds, Holding, Phase, Retry
<1>4. CASE FailAny(w)
  BY ZenonT(60), <1>4, RunnerStep, GotoFacts DEF FailAny, HandlerFails, Holding, Phase
<1>5. CASE ShutDown(w)
  BY <1>5, RunnerStep, GotoFacts DEF ShutDown, Holding, Phase, Retry
<1>6. CASE CancelRuns(w)
  <2>1. CASE workers[w].pc = "lost" /\ workers' = [workers EXCEPT ![w] = IdleRunner]
    BY <2>1, <1>6, RunnerStep, IdleRunnerType, DropFacts DEF CancelRuns, Holding
  <2>2. CASE workers[w].pc = "cancelling" /\ Goto(w, "failing")
    BY <2>2, <1>6, RunnerStep, GotoFacts DEF CancelRuns, Holding, Phase, Retry
  <2> QED
    BY <1>6, <2>1, <2>2 DEF CancelRuns
<1>7. CASE LockForFailure(w)
  BY <1>7, RunnerStep, GotoFacts DEF LockForFailure, Holding, Phase, Retry
<1>8. CASE LeaseError(w)
  BY <1>8, RunnerStep, IdleRunnerType, DropFacts DEF LeaseError, Holding
<1> QED
  BY <1>1, <1>2, <1>3, <1>4, <1>5, <1>6, <1>7, <1>8

-----------------------------------------------------------------------------
(* Steps that write one row. *)

\* Rewriting a row that is not running, before and after, disturbs no holder.
LEMMA IdleRowStep ==
    ASSUME QueueInv, UNCHANGED workers,
           NEW j \in Job, NEW row \in JobRow,
           jobs' = [jobs EXCEPT ![j] = row],
           ~Running(j), row.status # "running", row.status # "absent",
           row.attempts = jobs[j].attempts, row.token = 0, row.lease = 0,
           row.status = "pending" => row.attempts < Budget(j)
    PROVE  QueueInv'
<1>1. /\ \A i \in Job : jobs'[i] = IF i = j THEN row ELSE jobs[i]
      /\ jobs' \in [Job -> JobRow]
  BY DEF QueueInv, QueueTypeOK
<1>2. QueueTypeOK' /\ TokenBound' /\ AbsentUntouched'
  BY <1>1 DEF QueueInv, QueueTypeOK, TokenBound, AbsentUntouched
<1>3. NoStrandedRow'
  BY <1>1, BudgetType DEF QueueInv, QueueTypeOK, NoStrandedRow, Exhausted, Running, JobRow
<1>4. OneHolder'
  <2>1. \A v \in Worker, i \in Job : Holds(v, i)' => Holds(v, i)
    BY <1>1 DEF Holds, Running
  <2> QED
    BY <2>1 DEF QueueInv, OneHolder
<1>5. LockedRowIsOwned'
  BY <1>1 DEF QueueInv, LockedRowIsOwned, Holds, Running
<1> QED
  BY <1>2, <1>3, <1>4, <1>5 DEF QueueInv

\* A holder settles or requeues its row and lets go of it.
LEMMA ReleaseStep ==
    ASSUME QueueInv, NEW w \in Worker, NEW j \in Job, NEW row \in JobRow, NEW r \in Runner,
           Holds(w, j),
           jobs' = [jobs EXCEPT ![j] = row],
           workers' = [workers EXCEPT ![w] = r], r.pc \notin Holding,
           row.status # "running", row.status # "absent",
           row.attempts = jobs[j].attempts, row.token = 0, row.lease = 0,
           row.status = "pending" => row.attempts < Budget(j)
    PROVE  QueueInv'
<1>1. /\ \A i \in Job : jobs'[i] = IF i = j THEN row ELSE jobs[i]
      /\ jobs' \in [Job -> JobRow]
      /\ \A v \in Worker : workers'[v] = IF v = w THEN r ELSE workers[v]
      /\ workers' \in [Worker -> Runner]
  BY DEF QueueInv, QueueTypeOK
<1>2. QueueTypeOK' /\ TokenBound' /\ AbsentUntouched'
  BY <1>1 DEF QueueInv, QueueTypeOK, TokenBound, AbsentUntouched
<1>3. NoStrandedRow'
  BY <1>1, BudgetType DEF QueueInv, QueueTypeOK, NoStrandedRow, Exhausted, Running, JobRow
<1>4. OneHolder'
  <2>1. \A v \in Worker, i \in Job : Holds(v, i)' => Holds(v, i)
    BY <1>1 DEF Holds, Running
  <2> QED
    BY <2>1 DEF QueueInv, OneHolder
<1>5. LockedRowIsOwned'
  <2> SUFFICES ASSUME NEW v \in Worker, workers'[v].pc = "recording"
               PROVE  Holds(v, workers[v].job)' /\ workers'[v] = workers[v]
    BY <1>1 DEF LockedRowIsOwned
  <2>1. v # w /\ workers'[v] = workers[v] /\ Holds(v, workers[v].job)
    BY <1>1 DEF QueueInv, LockedRowIsOwned, Holding
  <2>2. workers[v].job # j
    BY <2>1 DEF QueueInv, OneHolder
  <2> QED
    BY <1>1, <2>1, <2>2 DEF Holds, Running
<1> QED
  BY <1>2, <1>3, <1>4, <1>5 DEF QueueInv

LEMMA ProduceStep == ASSUME QueueInv, Produce PROVE QueueInv'
<1>1. PICK j \in Job, p \in Priority, d \in 0..MaxWait : Enqueue(j, p, d)
  BY DEF Produce
<1>2. p \in Int /\ d \in Nat /\ jobs[j] \in JobRow
  BY QueueAssumption DEF QueueInv, QueueTypeOK
<1>3. CASE Insert(j, p, d)
  <2> DEFINE row == [AbsentRow EXCEPT !.status = "pending", !.priority = p, !.wait = d]
  <2>1. /\ row \in JobRow /\ row.status = "pending"
        /\ row.attempts = 0 /\ row.token = 0 /\ row.lease = 0
    BY <1>2 DEF AbsentRow, JobRow, Status
  <2>2. jobs[j].attempts = 0 /\ ~Running(j)
    BY <1>3 DEF Insert, Running, QueueInv, AbsentUntouched
  <2>3. jobs' = [jobs EXCEPT ![j] = row] /\ UNCHANGED workers
    BY <1>3 DEF Insert
  <2>4. row.attempts < Budget(j)
    BY <2>1, BudgetType
  <2> QED
    BY <2>1, <2>2, <2>3, <2>4, IdleRowStep
<1>4. CASE Upsert(j, p, d)
  <2> DEFINE row == [jobs[j] EXCEPT !.wait = IF d < @ THEN d ELSE @,
                                    !.priority = IF p > @ THEN p ELSE @]
  <2>1. /\ row \in JobRow /\ row.status = jobs[j].status
        /\ row.attempts = jobs[j].attempts /\ row.token = jobs[j].token
        /\ row.lease = jobs[j].lease
    BY <1>2 DEF JobRow
  <2>2. jobs' = [jobs EXCEPT ![j] = row] /\ ~Running(j)
    BY <1>4, <1>2 DEF Upsert, JobRow, QueueInv, QueueTypeOK, Running
  <2>3. jobs[j].token = 0 /\ jobs[j].lease = 0 /\ jobs[j].attempts < Budget(j)
    BY <1>2, <1>4, <2>2, BudgetType DEF Upsert, QueueInv, NoStrandedRow, Exhausted, JobRow
  <2> QED
    BY <1>4, <2>1, <2>2, <2>3, IdleRowStep DEF Upsert
<1> QED
  BY <1>1, <1>3, <1>4 DEF Enqueue

LEMMA WithdrawStep == ASSUME QueueInv, Withdraw PROVE QueueInv'
<1>1. PICK j \in Job : CancelPending(j)
  BY DEF Withdraw
<1> DEFINE row == [jobs[j] EXCEPT !.status = "cancelled", !.wait = 0]
<1>2. jobs[j] \in JobRow
  BY DEF QueueInv, QueueTypeOK
<1>3. /\ row \in JobRow /\ row.status = "cancelled"
      /\ row.attempts = jobs[j].attempts /\ row.token = jobs[j].token
      /\ row.lease = jobs[j].lease
  BY <1>2 DEF JobRow, Status, Settled
<1>4. jobs' = [jobs EXCEPT ![j] = row] /\ ~Running(j)
  BY <1>1, <1>2 DEF CancelPending, JobRow, QueueInv, QueueTypeOK, Running
<1>5. jobs[j].token = 0 /\ jobs[j].lease = 0
  BY <1>4 DEF QueueInv, NoStrandedRow
<1> QED
  BY <1>1, <1>3, <1>4, <1>5, IdleRowStep DEF CancelPending

LEMMA CompleteStep == ASSUME QueueInv, NEW w \in Worker, Complete(w) PROVE QueueInv'
<1> DEFINE j == workers[w].job
<1>1. workers[w].pc \in Holding /\ j \in Job /\ jobs[j] \in JobRow
  BY DEF Complete, Holding, QueueInv, QueueTypeOK
<1>2. CASE OwnsLease(w)
  <2>1. /\ CompletedRow(jobs[j]) \in JobRow /\ CompletedRow(jobs[j]).status = "completed"
        /\ CompletedRow(jobs[j]).attempts = jobs[j].attempts
        /\ CompletedRow(jobs[j]).token = 0 /\ CompletedRow(jobs[j]).lease = 0
    BY <1>1 DEF CompletedRow, JobRow, Status, Settled
  <2>2. Holds(w, j)
    BY <1>1, <1>2 DEF OwnsLease, Holds, Running
  <2>3. jobs' = [jobs EXCEPT ![j] = CompletedRow(jobs[j])]
    BY <1>2 DEF Complete
  <2> QED
    BY <1>1, <2>1, <2>2, <2>3, ReleaseStep, IdleRunnerType DEF Complete
<1>3. CASE ~OwnsLease(w)
  BY <1>3, RunnerStep, IdleRunnerType, DropFacts DEF Complete, Holding
<1> QED
  BY <1>2, <1>3

LEMMA RecordFailureStep == ASSUME QueueInv, NEW w \in Worker, RecordFailure(w) PROVE QueueInv'
<1> DEFINE j == workers[w].job
           retry == workers[w].retry
<1>1. workers[w].pc \in Holding /\ j \in Job /\ jobs[j] \in JobRow /\ Holds(w, j)
  BY DEF RecordFailure, Holding, QueueInv, QueueTypeOK, LockedRowIsOwned
<1>2. jobs[j].attempts \in 1..Budget(j)
  BY <1>1, BudgetType DEF QueueInv, QueueTypeOK, NoStrandedRow, Holds, JobRow
<1>3. CASE retry # "never" /\ ~Exhausted(j)
  <2> DEFINE row == RequeuedRow(jobs[j], retry)
  <2>1. RetryWait(jobs[j], retry) \in Nat
    BY <1>2, <1>1, QueueAssumption, BudgetType DEF RetryWait, Budget
  <2>2. /\ row \in JobRow /\ row.status = "pending"
        /\ row.attempts = jobs[j].attempts /\ row.token = 0 /\ row.lease = 0
    BY <1>1, <2>1 DEF RequeuedRow, JobRow, Status
  <2>3. row.attempts < Budget(j)
    BY <1>1, <1>2, <1>3, <2>2, BudgetType DEF Exhausted, JobRow
  <2>4. jobs' = [jobs EXCEPT ![j] = row]
    BY <1>3 DEF RecordFailure, Retries
  <2> QED
    BY <1>1, <2>2, <2>3, <2>4, ReleaseStep, IdleRunnerType DEF RecordFailure
<1>4. CASE ~(retry # "never" /\ ~Exhausted(j))
  <2>1. /\ FailedRow(jobs[j]) \in JobRow /\ FailedRow(jobs[j]).status = "failed"
        /\ FailedRow(jobs[j]).attempts = jobs[j].attempts
        /\ FailedRow(jobs[j]).token = 0 /\ FailedRow(jobs[j]).lease = 0
    BY <1>1 DEF FailedRow, JobRow, Status, Settled
  <2>2. jobs' = [jobs EXCEPT ![j] = FailedRow(jobs[j])]
    BY <1>4 DEF RecordFailure, Retries
  <2> QED
    BY <1>1, <2>1, <2>2, ReleaseStep, IdleRunnerType DEF RecordFailure
<1> QED
  BY <1>3, <1>4

\* The heartbeat rewrites only the expiry of a row its runner owns.
LEMMA RenewStep == ASSUME QueueInv, NEW w \in Worker, Renew(w) PROVE QueueInv'
<1> DEFINE j == workers[w].job
<1>1. /\ workers[w].pc \in Holding /\ j \in Job
      /\ jobs \in [Job -> JobRow] /\ workers \in [Worker -> Runner]
      /\ Lease \in Nat /\ Heartbeat \in Nat
  BY QueueAssumption DEF Renew, Holding, QueueInv, QueueTypeOK
<1>2. /\ jobs' \in [Job -> JobRow]
      /\ \A i \in Job : /\ jobs'[i].status = jobs[i].status /\ jobs'[i].token = jobs[i].token
                        /\ jobs'[i].attempts = jobs[i].attempts
                        /\ i # j => jobs'[i] = jobs[i]
  BY <1>1 DEF Renew, JobRow
<1>3. /\ workers' \in [Worker -> Runner]
      /\ \A v \in Worker : /\ workers'[v].pc = workers[v].pc
                           /\ workers'[v].job = workers[v].job
                           /\ workers'[v].token = workers[v].token
  BY <1>1 DEF Renew, Runner
<1>4. QueueTypeOK' /\ TokenBound' /\ AbsentUntouched'
  BY <1>2, <1>3 DEF QueueInv, QueueTypeOK, TokenBound, AbsentUntouched
<1>5. Running(j)
  BY DEF Renew, OwnsLease, Running
<1>6. NoStrandedRow'
  BY <1>2, <1>5 DEF QueueInv, NoStrandedRow, Exhausted, Running
<1>7. \A v \in Worker, i \in Job : Holds(v, i)' <=> Holds(v, i)
  BY <1>2, <1>3 DEF Holds, Running
<1>8. OneHolder' /\ LockedRowIsOwned'
  BY <1>3, <1>7 DEF QueueInv, OneHolder, LockedRowIsOwned, QueueTypeOK, Holding
<1> QED
  BY <1>4, <1>6, <1>8 DEF QueueInv

\* The sweep settles rows whose lease ran out on the last attempt.  Their old
\* runners no longer hold them, and an open failure transaction keeps its row.
LEMMA SweepStep == ASSUME QueueInv, NEW w \in Worker, Sweep(w) PROVE QueueInv'
<1>1. /\ jobs \in [Job -> JobRow] /\ workers \in [Worker -> Runner]
      /\ workers[w].pc = "idle"
  BY DEF Sweep, QueueInv, QueueTypeOK
<1>2. /\ jobs' \in [Job -> JobRow]
      /\ \A i \in Job : /\ jobs'[i].attempts = jobs[i].attempts
                        /\ FinalAttemptLost(i) =>
                             /\ jobs'[i].status = "failed"
                             /\ jobs'[i].token = 0 /\ jobs'[i].lease = 0
                        /\ ~FinalAttemptLost(i) => jobs'[i] = jobs[i]
  BY <1>1 DEF Sweep, FailedRow, JobRow, Status, Settled
<1>3. /\ workers' \in [Worker -> Runner]
      /\ workers'[w].pc = "claiming"
      /\ \A v \in Worker : v # w => workers'[v] = workers[v]
  BY <1>1 DEF Sweep, Runner, Phase
<1>4. QueueTypeOK' /\ TokenBound' /\ AbsentUntouched'
  BY <1>1, <1>2, <1>3
     DEF QueueInv, QueueTypeOK, TokenBound, AbsentUntouched, Holding, FinalAttemptLost, Expired, Running
<1>5. NoStrandedRow'
  BY <1>2 DEF QueueInv, NoStrandedRow, Exhausted, Running
<1>6. \A v \in Worker, i \in Job : Holds(v, i)' => Holds(v, i)
  BY <1>1, <1>2, <1>3 DEF Holds, Running, Holding
<1>7. OneHolder'
  BY <1>6 DEF QueueInv, OneHolder
<1>8. LockedRowIsOwned'
  <2> SUFFICES ASSUME NEW v \in Worker, workers'[v].pc = "recording"
               PROVE  Holds(v, workers[v].job)' /\ workers'[v] = workers[v]
    BY DEF LockedRowIsOwned
  <2>1. v # w /\ workers'[v] = workers[v] /\ workers[v].pc = "recording"
    BY <1>3
  <2>2. Holds(v, workers[v].job) /\ workers[v].job \in Job
    BY <2>1 DEF QueueInv, LockedRowIsOwned, QueueTypeOK, Holding
  <2>3. ~FinalAttemptLost(workers[v].job)
    BY <2>1, <2>2 DEF Sweep, Locked
  <2> QED
    BY <1>2, <2>1, <2>2, <2>3 DEF Holds, Running
<1> QED
  BY <1>4, <1>5, <1>7, <1>8 DEF QueueInv

LEMMA ClaimedRowType ==
    ASSUME NEW row \in JobRow, NEW age, Lease - age \in Nat
    PROVE  /\ ClaimedRow(row, age) \in JobRow /\ ClaimedRow(row, age).status = "running"
           /\ ClaimedRow(row, age).attempts = row.attempts + 1
           /\ ClaimedRow(row, age).token = row.attempts + 1
<1>1. row.attempts \in Nat /\ row.attempts + 1 \in Nat
  BY DEF JobRow
<1> DEFINE n == row.attempts + 1
           d == Lease - age
<1>2. /\ ClaimedRow(row, age) = [row EXCEPT !.status = "running", !.attempts = n,
                                          !.token = n, !.lease = d]
      /\ n \in Nat /\ d \in Nat
  BY <1>1 DEF ClaimedRow, FreshToken
<1> HIDE DEF n, d
<1>3. /\ ClaimedRow(row, age) \in JobRow /\ ClaimedRow(row, age).status = "running"
      /\ ClaimedRow(row, age).attempts = n /\ ClaimedRow(row, age).token = n
  BY <1>2 DEF JobRow, Status
<1> QED
  BY <1>3 DEF n

\* A claim hands out a token above every remembered one, and skips locked rows.
LEMMA ClaimStep == ASSUME QueueInv, NEW w \in Worker, ClaimAny(w) PROVE QueueInv'
<1>1. PICK j \in Job, age \in ClaimAge(w) : Claim(w, j, age)
  BY DEF ClaimAny
<1>2. /\ jobs \in [Job -> JobRow] /\ workers \in [Worker -> Runner]
      /\ workers[w].pc = "claiming" /\ j \in Claimable(w)
      /\ jobs[j] \in JobRow
  BY <1>1 DEF Claim, QueueInv, QueueTypeOK
<1>3. Lease - age \in Nat
  BY QueueAssumption DEF ClaimAge
<1>4. /\ ~Locked(j) /\ ~Exhausted(j) /\ jobs[j].status \in {"pending", "running"}
  BY <1>2 DEF Claimable, Due, Expired, Running
<1> DEFINE row == ClaimedRow(jobs[j], age)
<1>5. /\ row \in JobRow /\ row.status = "running" /\ row.attempts = jobs[j].attempts + 1
      /\ row.token = jobs[j].attempts + 1
  BY <1>2, <1>3, ClaimedRowType
<1>6. /\ jobs' \in [Job -> JobRow] /\ jobs'[j] = row
      /\ \A i \in Job : i # j => jobs'[i] = jobs[i]
  BY <1>1, <1>2, <1>5 DEF Claim
<1> DEFINE r == [IdleRunner EXCEPT !.pc = "handling", !.job = j,
                                   !.token = jobs[j].attempts + 1, !.beat = Heartbeat]
<1>7. /\ r \in Runner /\ r.pc = "handling" /\ r.job = j /\ r.token = jobs[j].attempts + 1
  <2>1. jobs[j].attempts + 1 \in Nat /\ Heartbeat \in Nat
    BY <1>2, QueueAssumption DEF JobRow
  <2> QED
    BY <2>1 DEF IdleRunner, Runner, Phase, Retry
<1>8. /\ workers' \in [Worker -> Runner]
      /\ workers'[w].pc = "handling" /\ workers'[w].job = j
      /\ workers'[w].token = jobs[j].attempts + 1
      /\ \A v \in Worker : v # w => workers'[v] = workers[v]
  BY <1>1, <1>2, <1>7 DEF Claim, FreshToken
<1>9. QueueTypeOK'
  BY <1>2, <1>4, <1>5, <1>6, <1>8, BudgetType
     DEF QueueInv, QueueTypeOK, Exhausted, JobRow, Holding
<1>10. TokenBound' /\ AbsentUntouched'
  <2>1. \A i \in Job : jobs[i].attempts \in Nat /\ jobs'[i].attempts \in Nat
                        /\ jobs'[i].attempts >= jobs[i].attempts
    BY <1>2, <1>5, <1>6 DEF JobRow
  <2>2. \A v \in Worker : workers[v].token \in Nat
    BY <1>2 DEF Runner
  <2>3. TokenBound'
    <3> SUFFICES ASSUME NEW v \in Worker, workers'[v].pc \in Holding
                 PROVE  /\ workers'[v].token > 0
                        /\ workers'[v].token <= jobs'[workers'[v].job].attempts
      BY DEF TokenBound
    <3>1. CASE v = w
      BY <1>5, <1>6, <1>8, <2>1, <3>1
    <3>2. CASE v # w
      <4>1. workers'[v] = workers[v] /\ workers[v].job \in Job
        BY <1>8, <3>2 DEF QueueInv, QueueTypeOK
      <4>2. workers[v].token > 0 /\ workers[v].token <= jobs[workers[v].job].attempts
        BY <4>1 DEF QueueInv, TokenBound
      <4> QED
        BY <2>1, <2>2, <4>1, <4>2
    <3> QED
      BY <3>1, <3>2
  <2>4. AbsentUntouched'
    BY <1>5, <1>6 DEF QueueInv, AbsentUntouched
  <2> QED
    BY <2>3, <2>4
<1>11. NoStrandedRow'
  BY <1>2, <1>5, <1>6 DEF QueueInv, NoStrandedRow, Exhausted, Running, JobRow
<1>12. \A v \in Worker, i \in Job : Holds(v, i)' => (i = j /\ v = w) \/ (i # j /\ v # w /\ Holds(v, i))
  <2> SUFFICES ASSUME NEW v \in Worker, NEW i \in Job, Holds(v, i)'
               PROVE  (i = j /\ v = w) \/ (i # j /\ v # w /\ Holds(v, i))
    OBVIOUS
  <2>1. CASE v = w
    BY <1>8, <2>1 DEF Holds
  <2>2. CASE v # w /\ i = j
    <3>1. /\ workers[v].pc \in Holding /\ workers[v].job = j
          /\ workers[v].token = jobs[j].attempts + 1
      BY <1>5, <1>6, <1>8, <2>2 DEF Holds
    <3> QED
      BY <1>2, <3>1 DEF QueueInv, TokenBound, JobRow
  <2>3. CASE v # w /\ i # j
    BY <1>6, <1>8, <2>3 DEF Holds, Running
  <2> QED
    BY <2>1, <2>2, <2>3
<1>13. OneHolder'
  BY <1>12 DEF QueueInv, OneHolder
<1>14. LockedRowIsOwned'
  <2> SUFFICES ASSUME NEW v \in Worker, workers'[v].pc = "recording"
               PROVE  Holds(v, workers[v].job)' /\ workers'[v] = workers[v]
    BY DEF LockedRowIsOwned
  <2>1. v # w /\ workers'[v] = workers[v] /\ workers[v].pc = "recording"
    BY <1>8
  <2>2. Holds(v, workers[v].job) /\ workers[v].job \in Job /\ workers[v].job # j
    BY <1>4, <2>1 DEF QueueInv, LockedRowIsOwned, QueueTypeOK, Holding, Locked
  <2> QED
    BY <1>6, <2>1, <2>2 DEF Holds, Running
<1> QED
  BY <1>9, <1>10, <1>11, <1>13, <1>14 DEF QueueInv

LEMMA TickStep == ASSUME QueueInv, Tick PROVE QueueInv'
<1>1. jobs \in [Job -> JobRow] /\ workers \in [Worker -> Runner]
  BY DEF QueueInv, QueueTypeOK
<1>2. \A n \in Nat : Less(n) \in Nat /\ (n = 0 => Less(n) = 0)
  BY DEF Less
<1>3. /\ jobs' \in [Job -> JobRow]
      /\ \A i \in Job : /\ jobs'[i].status = jobs[i].status /\ jobs'[i].token = jobs[i].token
                        /\ jobs'[i].attempts = jobs[i].attempts
                        /\ jobs[i].lease = 0 => jobs'[i].lease = 0
  BY <1>1, <1>2 DEF Tick, JobRow
<1>4. /\ workers' \in [Worker -> Runner]
      /\ \A v \in Worker : /\ workers'[v].pc = workers[v].pc
                           /\ workers'[v].job = workers[v].job
                           /\ workers'[v].token = workers[v].token
  BY <1>1, <1>2 DEF Tick, Runner
<1>5. QueueTypeOK' /\ TokenBound' /\ AbsentUntouched'
  BY <1>3, <1>4 DEF QueueInv, QueueTypeOK, TokenBound, AbsentUntouched
<1>6. NoStrandedRow'
  BY <1>3 DEF QueueInv, NoStrandedRow, Exhausted, Running
<1>7. \A v \in Worker, i \in Job : Holds(v, i)' <=> Holds(v, i)
  BY <1>3, <1>4 DEF Holds, Running
<1>8. OneHolder' /\ LockedRowIsOwned'
  BY <1>4, <1>7 DEF QueueInv, OneHolder, LockedRowIsOwned, QueueTypeOK, Holding
<1> QED
  BY <1>5, <1>6, <1>8 DEF QueueInv

-----------------------------------------------------------------------------
(* The invariant, and what it gives. *)

LEMMA NextQueueInv == QueueInv /\ [QueueNext]_queueVars => QueueInv'
<1> SUFFICES ASSUME QueueInv, [QueueNext]_queueVars PROVE QueueInv'
  OBVIOUS
<1>1. CASE \E w \in Worker : Step(w)
  <2> PICK w \in Worker : Step(w)
    BY <1>1
  <2>1. CASE \/ ClaimNothing(w) \/ LoseLease(w) \/ HandlerSucceeds(w) \/ FailAny(w)
             \/ ShutDown(w) \/ CancelRuns(w) \/ LockForFailure(w) \/ LeaseError(w)
             \/ Crash(w) \/ Restart(w)
    BY <2>1, QuietStep
  <2> QED
    BY <2>1, SweepStep, ClaimStep, RenewStep, CompleteStep, RecordFailureStep DEF Step
<1>2. CASE UNCHANGED queueVars
  BY <1>2 DEF queueVars, QueueInv, QueueTypeOK, TokenBound, AbsentUntouched, NoStrandedRow,
              OneHolder, LockedRowIsOwned, Holds, Running, Exhausted
<1> QED
  BY <1>1, <1>2, ProduceStep, WithdrawStep, TickStep DEF QueueNext

\* The inductive invariant holds in every reachable state.
THEOREM QueueInvHolds == QueueSpec => []QueueInv
BY InitQueueInv, NextQueueInv, PTL DEF QueueSpec

\* Rows and runners stay well formed and no job exceeds max_attempts
\* (jobs_attempt_count_bounded), for any number of workers, keys and attempts.
THEOREM TypeCorrect == QueueSpec => []QueueTypeOK
BY QueueInvHolds, PTL DEF QueueInv

\* The lease token fences: two runners never hold the current token of a job.
THEOREM TokenFence == QueueSpec => []OneHolder
BY QueueInvHolds, PTL DEF QueueInv

\* Every pending row can still be claimed and only running rows carry a lease.
THEOREM NothingStranded == QueueSpec => []NoStrandedRow
BY QueueInvHolds, PTL DEF QueueInv

\* An open failure transaction still owns its row, whatever the clock did.
THEOREM LockProtects == QueueSpec => []LockedRowIsOwned
BY QueueInvHolds, PTL DEF QueueInv
=============================================================================
