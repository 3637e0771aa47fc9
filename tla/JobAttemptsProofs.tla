------------------------- MODULE JobAttemptsProofs --------------------------
(***************************************************************************)
(* JobQueue implements JobAttempts.  The process of an attempt is the      *)
(* runner that remembers its token, so the proof rests on an attempt       *)
(* having one runner at most (DistinctAttempts), and on the leases of      *)
(* live runners where Timely promises that none runs out (LeaseAhead).     *)
(***************************************************************************)
EXTENDS JobTableProofs

AttemptOf(w) == <<workers[w].job, workers[w].token>>

\* Two runners never work on one attempt of a job, current or not.
DistinctAttempts ==
    \A v, w \in Worker :
        workers[v].pc \in Holding /\ workers[w].pc \in Holding /\ AttemptOf(v) = AttemptOf(w)
            => v = w

-----------------------------------------------------------------------------
(* Attempt numbers *)

\* A runner inside run_once either is in the attempt it was in, or has just claimed.
Carried(v) ==
    /\ workers[v].pc \in Holding
    /\ workers'[v].job = workers[v].job /\ workers'[v].token = workers[v].token

JustClaimed(v) ==
    LET j == workers'[v].job IN
    /\ j \in Job
    /\ workers'[v].token = jobs[j].attempts + 1
    /\ jobs'[j].attempts = jobs[j].attempts + 1
    /\ \A u \in Worker : u # v => workers'[u] = workers[u]

LEMMA AttemptsGrow ==
    ASSUME QueueInv, [QueueNext]_queueVars
    PROVE  \A j \in Job : jobs'[j].attempts >= jobs[j].attempts
<1> SUFFICES ASSUME NEW i \in Job PROVE jobs'[i].attempts >= jobs[i].attempts
  OBVIOUS
<1>1. jobs[i].attempts \in Nat
  BY DEF QueueInv, QueueTypeOK, JobRow
<1>2. CASE TableKept
  BY <1>1, <1>2 DEF TableKept
<1>3. CASE \E j \in Job : /\ OthersKept(j)
                          /\ Inserted(j) \/ Started(j) \/ Released(j) \/ Cancelled(j)
  BY <1>1, <1>3 DEF OthersKept, Inserted, Started, Released, Cancelled
<1>4. CASE TableSwept
  BY <1>1, <1>4 DEF TableSwept
<1> QED
  BY <1>2, <1>3, <1>4, TableFate

LEMMA HolderFate ==
    ASSUME QueueInv, [QueueNext]_queueVars, NEW v \in Worker, workers'[v].pc \in Holding
    PROVE  Carried(v) \/ JustClaimed(v)
<1>1. workers \in [Worker -> Runner] /\ jobs \in [Job -> JobRow]
  BY DEF QueueInv, QueueTypeOK
<1>2. CASE UNCHANGED workers
  BY <1>2 DEF Carried
<1>3. CASE Tick
  BY <1>1, <1>3 DEF Tick, Carried, Runner
<1>4. CASE \E w \in Worker : Step(w)
  <2> PICK w \in Worker : Step(w)
    BY <1>4
  <2>1. CASE ClaimAny(w)
    <3> PICK j \in Job, age \in ClaimAge(w) : Claim(w, j, age)
      BY <2>1 DEF ClaimAny
    <3>1. CASE v # w
      BY <1>1, <3>1 DEF Claim, Carried
    <3>2. CASE v = w
      <4>1. /\ workers'[v].job = j /\ workers'[v].token = jobs[j].attempts + 1
            /\ \A u \in Worker : u # v => workers'[u] = workers[u]
        BY <1>1, <3>2 DEF Claim, FreshToken, IdleRunner
      <4>2. jobs'[j].attempts = jobs[j].attempts + 1
        BY ClaimFate DEF Started
      <4> QED
        BY <4>1, <4>2 DEF JustClaimed
    <3> QED
      BY <3>1, <3>2
  <2>2. CASE \/ ClaimNothing(w) \/ Complete(w) \/ LeaseError(w) \/ RecordFailure(w)
             \/ Crash(w) \/ Restart(w)
    BY <1>1, <2>2, IdleRunnerType DEF ClaimNothing, Complete, LeaseError, RecordFailure,
       Crash, Restart, Carried
  <2>3. CASE Sweep(w) \/ Renew(w) \/ LoseLease(w) \/ HandlerSucceeds(w) \/ FailAny(w)
    BY <1>1, <2>3 DEF Sweep, Renew, LoseLease, HandlerSucceeds, FailAny, HandlerFails, Goto,
       Carried, Holding, Runner
  <2>4. CASE ShutDown(w) \/ CancelRuns(w) \/ LockForFailure(w)
    BY <1>1, <2>4, IdleRunnerType DEF ShutDown, CancelRuns, LockForFailure, Goto, Carried,
       Holding, Runner
  <2> QED
    BY <2>1, <2>2, <2>3, <2>4 DEF Step
<1> QED
  BY <1>2, <1>3, <1>4 DEF QueueNext, Produce, Withdraw, Enqueue, Insert, Upsert, CancelPending,
                          queueVars

LEMMA DistinctStep ==
    ASSUME QueueInv, DistinctAttempts, [QueueNext]_queueVars
    PROVE  DistinctAttempts'
<1> SUFFICES ASSUME NEW v \in Worker, NEW w \in Worker, v # w,
                    workers'[v].pc \in Holding, workers'[w].pc \in Holding
             PROVE  AttemptOf(v)' # AttemptOf(w)'
  BY DEF DistinctAttempts
<1>1. CASE Carried(v) /\ Carried(w)
  BY <1>1 DEF DistinctAttempts, Carried, AttemptOf
<1>2. \A u, x \in Worker : u # x /\ workers'[x].pc \in Holding /\ JustClaimed(u)
         => AttemptOf(u)' # AttemptOf(x)'
  <2> SUFFICES ASSUME NEW u \in Worker, NEW x \in Worker, u # x, workers'[x].pc \in Holding,
                      JustClaimed(u)
               PROVE  AttemptOf(u)' # AttemptOf(x)'
    OBVIOUS
  <2>1. workers'[x] = workers[x] /\ workers[x].job \in Job /\ workers[x].token \in Nat
    BY DEF JustClaimed, QueueInv, QueueTypeOK, Runner
  <2>2. workers[x].token <= jobs[workers[x].job].attempts
    BY <2>1 DEF QueueInv, TokenBound
  <2>3. jobs[workers[x].job].attempts \in Nat
    BY <2>1 DEF QueueInv, QueueTypeOK, JobRow
  <2> QED
    BY <2>1, <2>2, <2>3 DEF JustClaimed, AttemptOf
<1>3. (Carried(v) \/ JustClaimed(v)) /\ (Carried(w) \/ JustClaimed(w))
  BY HolderFate
<1> QED
  BY <1>1, <1>2, <1>3

LEMMA InitDistinct == QueueInit => DistinctAttempts
BY DEF QueueInit, DistinctAttempts, IdleRunner, Holding

-----------------------------------------------------------------------------
(* The process of an attempt *)

Slot == UNION {{j} \X (1..Budget(j)) : j \in Job}

\* What the runner w makes of its attempt.
ProcessBy(w) ==
    [phase |-> IF workers[w].pc = "recording" THEN "failing" ELSE workers[w].pc,
     retryable |-> workers[w].retry # "never"]

Processes == [a \in Slot |-> ProcessOf(a)]

LEMMA SlotShape ==
    ASSUME NEW a \in Slot
    PROVE  a = <<a[1], a[2]>> /\ a[1] \in Job /\ a[2] \in Nat \ {0}
<1>1. PICK j \in Job : a \in {j} \X (1..Budget(j))
  BY DEF Slot
<1> QED
  BY <1>1, BudgetType

LEMMA SlotOfRunner ==
    ASSUME QueueInv, NEW w \in Worker, workers[w].pc \in Holding
    PROVE  AttemptOf(w) \in Slot
<1> DEFINE j == workers[w].job
<1>1. /\ j \in Job /\ jobs[j].attempts \in Nat /\ workers[w].token \in Nat
      /\ workers[w].token > 0 /\ workers[w].token <= jobs[j].attempts
      /\ jobs[j].attempts <= Budget(j) /\ Budget(j) \in Nat
  BY BudgetType DEF QueueInv, QueueTypeOK, TokenBound, JobRow, Runner
<1>2. workers[w].token \in 1..Budget(j)
  BY <1>1
<1>3. AttemptOf(w) \in {j} \X (1..Budget(j))
  BY <1>2 DEF AttemptOf
<1> QED
  BY <1>1, <1>3 DEF Slot

LEMMA ProcessOfRunner ==
    ASSUME DistinctAttempts, NEW w \in Worker, workers[w].pc \in Holding
    PROVE  ProcessOf(AttemptOf(w)) = ProcessBy(w)
<1>1. RunnerOf(AttemptOf(w)) = {w}
  BY DEF RunnerOf, AttemptOf, DistinctAttempts
<1> QED
  BY <1>1 DEF ProcessOf, ProcessBy

\* The processes a step leaves alone.
LEMMA ProcessKept ==
    ASSUME NEW a,
           \A v \in Worker :
               /\ v \in RunnerOf(a)' <=> v \in RunnerOf(a)
               /\ v \in RunnerOf(a) => /\ workers'[v].pc = workers[v].pc
                                       /\ workers'[v].retry = workers[v].retry,
           a[2] <= jobs'[a[1]].attempts <=> a[2] <= jobs[a[1]].attempts
    PROVE  ProcessOf(a)' = ProcessOf(a)
<1>1. RunnerOf(a)' = RunnerOf(a) /\ RunnerOf(a) \subseteq Worker
  BY DEF RunnerOf
<1>2. CASE RunnerOf(a) = {}
  BY <1>1, <1>2 DEF ProcessOf
<1>3. CASE RunnerOf(a) # {}
  <2> DEFINE w == CHOOSE w \in RunnerOf(a) : TRUE
  <2>1. w \in RunnerOf(a)
    BY <1>3
  <2> QED
    BY <1>1, <1>3, <2>1 DEF ProcessOf
<1> QED
  BY <1>2, <1>3

\* The runner w goes on with its attempt or leaves it.
Proceeds(w) ==
    /\ workers[w].pc \in Holding
    /\ \A v \in Worker : v # w => workers'[v] = workers[v]
    /\ \A j \in Job : jobs'[j].attempts = jobs[j].attempts
    /\ workers'[w].pc \in Holding => AttemptOf(w)' = AttemptOf(w)

LEMMA ProceedsMoves ==
    ASSUME QueueInv, DistinctAttempts, QueueInv', DistinctAttempts', NEW w \in Worker, Proceeds(w)
    PROVE  /\ AttemptOf(w) \in Slot
           /\ \A a \in Slot : a # AttemptOf(w) => ProcessOf(a)' = ProcessOf(a)
           /\ ProcessOf(AttemptOf(w)) = ProcessBy(w)
           /\ workers'[w].pc \in Holding =>
                 \A a \in Slot : a = AttemptOf(w) => ProcessOf(a)' = ProcessBy(w)'
           /\ workers'[w].pc \notin Holding =>
                 \A a \in Slot : a = AttemptOf(w) =>
                    ProcessOf(a)' = [phase |-> "gone", retryable |-> FALSE]
<1>1. AttemptOf(w) \in Slot /\ ProcessOf(AttemptOf(w)) = ProcessBy(w)
  BY SlotOfRunner, ProcessOfRunner DEF Proceeds
<1>2. ASSUME NEW a \in Slot, a # AttemptOf(w) PROVE ProcessOf(a)' = ProcessOf(a)
  <2>1. a = <<a[1], a[2]>> /\ a[1] \in Job
    BY SlotShape
  <2>2. w \notin RunnerOf(a) /\ w \notin RunnerOf(a)'
    BY <1>2, <2>1 DEF RunnerOf, AttemptOf, Proceeds
  <2>3. \A v \in Worker : v # w => (v \in RunnerOf(a)' <=> v \in RunnerOf(a))
    BY DEF RunnerOf, Proceeds
  <2> QED
    BY <2>1, <2>2, <2>3, ProcessKept DEF Proceeds
<1>3. ASSUME workers'[w].pc \in Holding, NEW a \in Slot, a = AttemptOf(w)
      PROVE  ProcessOf(a)' = ProcessBy(w)'
  <2>1. a = AttemptOf(w)'
    BY <1>3 DEF Proceeds
  <2>2. RunnerOf(a)' = {w}
    BY <1>3, <2>1 DEF RunnerOf, AttemptOf, DistinctAttempts
  <2> QED
    BY <2>2 DEF ProcessOf, ProcessBy
<1>4. ASSUME workers'[w].pc \notin Holding, NEW a \in Slot, a = AttemptOf(w)
      PROVE  ProcessOf(a)' = [phase |-> "gone", retryable |-> FALSE]
  <2>1. \A v \in Worker : v # w => v \notin RunnerOf(a)
    BY <1>4 DEF RunnerOf, AttemptOf, DistinctAttempts, Proceeds
  <2>2. RunnerOf(a)' = {}
    BY <1>4, <2>1 DEF RunnerOf, Proceeds
  <2>3. a[1] = workers[w].job /\ a[2] = workers[w].token /\ a[1] \in Job
    BY <1>4, SlotShape DEF AttemptOf
  <2>4. a[2] <= jobs'[a[1]].attempts
    BY <2>3 DEF Proceeds, QueueInv, TokenBound
  <2> QED
    BY <2>2, <2>4 DEF ProcessOf
<1> QED
  BY <1>1, <1>2, <1>3, <1>4

-----------------------------------------------------------------------------
(* The steps of JobAttempts *)

LEMMA SlotsAreAttempts ==
    /\ Attempts!Job = Job /\ Attempts!Attempt = Slot
    /\ \A j \in Job : Attempts!Budget(j) = Budget(j) /\ Attempts!KeyOf(j) = KeyOf(j)
BY DEF Attempts!Attempt, Attempts!Job, Attempts!Budget, Attempts!KeyOf, Slot, Job, Budget, KeyOf

\* One process changes.
LEMMA ProcessMoves ==
    ASSUME NEW a \in Slot, NEW p, ProcessOf(a)' = p,
           \A b \in Slot : b # a => ProcessOf(b)' = ProcessOf(b)
    PROVE  Processes' = [Processes EXCEPT ![a] = p]
<1>1. Processes' = [b \in Slot |-> ProcessOf(b)']
  BY DEF Slot, Processes
<1> QED
  BY <1>1 DEF Processes

\* What all the moves of a runner inside run_once have in common.
MovesTo(w, a, p) ==
    /\ a \in Slot /\ a = AttemptOf(w)
    /\ Processes[a] = ProcessBy(w)
    /\ Processes' = [Processes EXCEPT ![a] = p]

Gone == [phase |-> "gone", retryable |-> FALSE]

LEMMA RunnerMovesTo ==
    ASSUME QueueInv, DistinctAttempts, QueueInv', DistinctAttempts', NEW w \in Worker, Proceeds(w)
    PROVE  \E a, p : /\ MovesTo(w, a, p)
                     /\ workers'[w].pc \in Holding => p = ProcessBy(w)'
                     /\ workers'[w].pc \notin Holding => p = Gone
<1>0. PICK p : /\ workers'[w].pc \in Holding => p = ProcessBy(w)'
               /\ workers'[w].pc \notin Holding => p = Gone
  OBVIOUS
<1>1. PICK a \in Slot : a = AttemptOf(w)
  BY ProceedsMoves
<1>2. ProcessOf(a)' = p
  BY <1>0, <1>1, ProceedsMoves DEF Gone
<1>3. \A b \in Slot : b # a => ProcessOf(b)' = ProcessOf(b)
  BY <1>1, ProceedsMoves
<1>4. Processes' = [Processes EXCEPT ![a] = p]
  BY <1>2, <1>3, ProcessMoves
<1>5. Processes[a] = ProcessBy(w)
  BY <1>1, ProceedsMoves DEF Processes
<1>6. MovesTo(w, a, p)
  BY <1>1, <1>4, <1>5 DEF MovesTo
<1> QED
  BY <1>0, <1>6

LEMMA RetryableBy ==
    ASSUME NEW w \in Worker
    PROVE  ProcessBy(w).retryable <=> workers[w].retry # "never"
<1>1. CASE workers[w].retry # "never"
  <2>1. (workers[w].retry # "never") = TRUE
    BY <1>1
  <2>2. ProcessBy(w) = [phase |-> ProcessBy(w).phase, retryable |-> TRUE]
    BY <2>1 DEF ProcessBy
  <2> QED
    BY <1>1, <2>2
<1>2. CASE workers[w].retry = "never"
  <2>1. (workers[w].retry # "never") = FALSE
    BY <1>2
  <2>2. ProcessBy(w) = [phase |-> ProcessBy(w).phase, retryable |-> FALSE]
    BY <2>1 DEF ProcessBy
  <2> QED
    BY <1>2, <2>2
<1> QED
  BY <1>1, <1>2

\* What JobAttempts says of one process and of the table, in the words of JobQueue.
LEMMA AttemptWords ==
    /\ \A a, phase : Attempts!Enter(a, phase) <=> Processes' = [Processes EXCEPT ![a].phase = phase]
    /\ \A a : Attempts!LeaveRun(a) <=> Processes' = [Processes EXCEPT ![a] = Gone]
BY DEF Attempts!Enter, Attempts!LeaveRun, Processes, Gone, Slot

\* The moves that leave the table alone.
LEMMA QuietMoves ==
    ASSUME NEW w \in Worker, NEW a, NEW p, MovesTo(w, a, p), TableKept
    PROVE  /\ workers[w].pc = "handling" /\ ~Timely /\ p = [ProcessBy(w) EXCEPT !.phase = "lost"]
                => Attempts!LoseAttempt(a)
           /\ workers[w].pc = "handling" /\ p = [ProcessBy(w) EXCEPT !.phase = "succeeded"]
                => Attempts!HandlerReturns(a)
           /\ \A r \in BOOLEAN :
                workers[w].pc = "handling" /\ p = [phase |-> "cancelling", retryable |-> r]
                => Attempts!HandlerStops(a, r)
           /\ workers[w].pc = "cancelling" /\ p = [ProcessBy(w) EXCEPT !.phase = "failing"]
                => Attempts!CleanedUp(a)
           /\ workers[w].pc = "lost" /\ p = Gone => Attempts!CleanedUp(a)
           /\ workers[w].pc = "succeeded" /\ p = Gone => Attempts!CompleteJob(a)
           /\ workers[w].pc = "failing" /\ p = Gone => Attempts!FailJob(a)
           /\ workers[w].pc \in Holding /\ p = Gone => Attempts!Die(a)
<1>1. UNCHANGED <<[j \in Job |-> jobs[j].status], [j \in Job |-> jobs[j].attempts]>>
  BY DEF TableKept
<1>2. \A phase : [Processes EXCEPT ![a].phase = phase]
                    = [Processes EXCEPT ![a] = [ProcessBy(w) EXCEPT !.phase = phase]]
  BY DEF MovesTo, Processes
<1>3. Processes[a].phase = IF workers[w].pc = "recording" THEN "failing" ELSE workers[w].pc
  BY DEF MovesTo, ProcessBy
<1> USE <1>1, <1>2, <1>3, AttemptWords DEF MovesTo, Processes, Slot
<1>4. workers[w].pc = "handling" /\ ~Timely /\ p = [ProcessBy(w) EXCEPT !.phase = "lost"]
         => Attempts!LoseAttempt(a)
  BY DEF Attempts!LoseAttempt
<1>5. workers[w].pc = "handling" /\ p = [ProcessBy(w) EXCEPT !.phase = "succeeded"]
         => Attempts!HandlerReturns(a)
  BY DEF Attempts!HandlerReturns
<1>6. \A r \in BOOLEAN :
         workers[w].pc = "handling" /\ p = [phase |-> "cancelling", retryable |-> r]
            => Attempts!HandlerStops(a, r)
  BY DEF Attempts!HandlerStops
<1>7. ASSUME \/ workers[w].pc = "cancelling" /\ p = [ProcessBy(w) EXCEPT !.phase = "failing"]
             \/ workers[w].pc = "lost" /\ p = Gone
      PROVE  Attempts!CleanedUp(a)
  BY <1>7 DEF Attempts!CleanedUp
<1>8. workers[w].pc = "succeeded" /\ p = Gone => Attempts!CompleteJob(a)
  BY DEF Attempts!CompleteJob
<1>9. workers[w].pc = "failing" /\ p = Gone => Attempts!FailJob(a)
  BY DEF Attempts!FailJob
<1>10. workers[w].pc \in Holding /\ p = Gone => Attempts!Die(a)
  BY DEF Attempts!Die, Attempts!Alive, Attempts!Phase, Holding
<1> QED
  BY <1>4, <1>5, <1>6, <1>7, <1>8, <1>9, <1>10

\* The moves by which the holder decides its row.
LEMMA DecidingMoves ==
    ASSUME QueueInv, NEW w \in Worker, NEW a, MovesTo(w, a, Gone), NEW j \in Job,
           Holds(w, j), OthersKept(j), jobs'[j].attempts = jobs[j].attempts
    PROVE  /\ workers[w].pc = "succeeded" /\ jobs'[j].status = "completed"
                => Attempts!CompleteJob(a)
           /\ workers[w].pc = "recording" /\ Retries(w) /\ jobs'[j].status = "pending"
                => Attempts!FailJob(a)
           /\ workers[w].pc = "recording" /\ ~Retries(w) /\ jobs'[j].status = "failed"
                => Attempts!FailJob(a)
<1>1. a[1] = j /\ a[2] = jobs[j].attempts /\ jobs[j].status = "running"
      /\ jobs[j].attempts \in Nat /\ Budget(j) \in Nat /\ workers[w].job = j
  BY BudgetType DEF MovesTo, AttemptOf, Holds, Running, QueueInv, QueueTypeOK, JobRow, NoStrandedRow
<1>2. Attempts!Current(a) /\ Attempts!JobOf(a) = j
  BY <1>1 DEF Attempts!Current, Attempts!JobOf
<1>3. Attempts!LeaveRun(a) /\ Processes[a] = ProcessBy(w)
  BY AttemptWords DEF MovesTo
<1>4. /\ [i \in Job |-> jobs[i].attempts]' = [i \in Job |-> jobs[i].attempts]
      /\ [i \in Job |-> jobs[i].status]'
            = [[i \in Job |-> jobs[i].status] EXCEPT ![j] = jobs'[j].status]
  BY DEF OthersKept
<1>5. \A outcome \in {"completed", "failed"} :
         jobs'[j].status = outcome => Attempts!Settle(j, outcome)
  BY <1>1, <1>4 DEF Attempts!Settle
<1>6. Retries(w) /\ jobs'[j].status = "pending" => Attempts!Requeue(j)
  BY <1>1, <1>4, SlotsAreAttempts DEF Attempts!Requeue, Retries, Exhausted
<1>7. workers[w].pc = "succeeded" /\ jobs'[j].status = "completed" => Attempts!CompleteJob(a)
  BY <1>2, <1>3, <1>5 DEF Attempts!CompleteJob, Processes, Slot, ProcessBy
<1>8. ASSUME workers[w].pc = "recording", Retries(w), jobs'[j].status = "pending"
      PROVE  Attempts!FailJob(a)
  <2>1. Processes[a].phase = "failing"
    BY <1>3, <1>8 DEF ProcessBy
  <2>2. Processes[a].retryable
    BY <1>3, <1>8, RetryableBy, Zenon DEF Retries
  <2>3. Attempts!Requeue(Attempts!JobOf(a))
    BY <1>2, <1>6, <1>8
  <2> QED
    BY <1>2, <1>3, <2>1, <2>2, <2>3, Zenon DEF Attempts!FailJob, Processes, Slot
<1>9. ASSUME workers[w].pc = "recording", ~Retries(w), jobs'[j].status = "failed"
      PROVE  Attempts!FailJob(a)
  <2>1. Processes[a].phase = "failing"
    BY <1>3, <1>9 DEF ProcessBy
  <2>2. \/ ~Processes[a].retryable
        \/ [i \in Job |-> jobs[i].attempts][Attempts!JobOf(a)] >= Attempts!Budget(Attempts!JobOf(a))
    <3>1. CASE workers[w].retry = "never"
      BY <1>3, <3>1, RetryableBy, Zenon
    <3>2. CASE Exhausted(j)
      BY <1>2, <3>2, SlotsAreAttempts DEF Exhausted
    <3> QED
      BY <1>1, <1>9, <3>1, <3>2 DEF Retries
  <2>3. Attempts!Settle(Attempts!JobOf(a), "failed")
    BY <1>2, <1>5, <1>9
  <2> QED
    BY <1>2, <1>3, <2>1, <2>2, <2>3, Zenon DEF Attempts!FailJob, Processes, Slot
<1> QED
  BY <1>7, <1>8, <1>9

\* A runner inside run_once goes on to r, and the step decides its own job or no job.
LEMMA GoesOn ==
    ASSUME QueueInv, DistinctAttempts, QueueInv', DistinctAttempts',
           NEW w \in Worker, workers[w].pc \in Holding,
           NEW r, workers' = [workers EXCEPT ![w] = r],
           r.pc \in Holding => r.job = workers[w].job /\ r.token = workers[w].token,
           TableKept \/ \E j \in Job : OthersKept(j) /\ jobs'[j].attempts = jobs[j].attempts
    PROVE  \E a, p : /\ MovesTo(w, a, p)
                     /\ r.pc \in Holding =>
                          p = [phase |-> IF r.pc = "recording" THEN "failing" ELSE r.pc,
                               retryable |-> r.retry # "never"]
                     /\ r.pc \notin Holding => p = Gone
<1>1. workers'[w] = r /\ \A v \in Worker : v # w => workers'[v] = workers[v]
  BY DEF QueueInv, QueueTypeOK
<1>2. \A j \in Job : jobs'[j].attempts = jobs[j].attempts
  BY DEF TableKept, OthersKept
<1>3. Proceeds(w)
  BY <1>1, <1>2 DEF Proceeds, AttemptOf
<1> QED
  BY <1>1, <1>3, RunnerMovesTo DEF ProcessBy

LEMMA StepOfProcess ==
    ASSUME NEW a \in Slot,
           \/ Attempts!LoseAttempt(a) \/ Attempts!HandlerReturns(a)
           \/ \E r \in BOOLEAN : Attempts!HandlerStops(a, r)
           \/ Attempts!CleanedUp(a) \/ Attempts!CompleteJob(a) \/ Attempts!FailJob(a)
           \/ Attempts!Die(a) \/ Attempts!BeginAttempt(a)
    PROVE  Attempts!AttemptsNext
<1>1. Attempts!AttemptStep(a)
  BY Zenon DEF Attempts!AttemptStep
<1>2. a \in Attempts!Attempt
  BY SlotsAreAttempts
<1> QED
  BY <1>1, <1>2, Zenon DEF Attempts!AttemptsNext

LEMMA HandlingMoves ==
    ASSUME QueueInv, DistinctAttempts, QueueInv', DistinctAttempts', Timely => LeaseAhead,
           NEW w \in Worker,
           \/ LoseLease(w) \/ HandlerSucceeds(w) \/ FailAny(w)
           \/ ShutDown(w) /\ workers[w].pc = "handling"
    PROVE  Attempts!AttemptsNext
<1>1. /\ workers[w].pc = "handling" /\ workers[w] \in Runner /\ workers[w].pc \in Holding
      /\ w \in DOMAIN workers /\ TableKept
  BY DEF LoseLease, HandlerSucceeds, FailAny, HandlerFails, ShutDown, TableKept, QueueInv, QueueTypeOK, Holding
<1>2. CASE LoseLease(w)
  <2> DEFINE r == [workers[w] EXCEPT !.pc = "lost"]
  <2>1. workers' = [workers EXCEPT ![w] = r] /\ r.pc = "lost" /\ r.job = workers[w].job
        /\ r.token = workers[w].token /\ r.retry = workers[w].retry
    BY <1>1, <1>2 DEF LoseLease, Goto, Runner
  <2>2. ~Timely
    BY <1>1, <1>2 DEF LoseLease, LeaseAhead, Holds, OwnsLease, Running, QueueInv, QueueTypeOK,
                      JobRow, Runner
  <2> HIDE DEF r
  <2>3. PICK a, p : MovesTo(w, a, p) /\ p = [phase |-> "lost", retryable |-> r.retry # "never"]
    BY <1>1, <2>1, GoesOn DEF Holding
  <2>4. p = [ProcessBy(w) EXCEPT !.phase = "lost"]
    BY <2>1, <2>3 DEF ProcessBy
  <2> QED
    BY <1>1, <2>2, <2>3, <2>4, QuietMoves, StepOfProcess DEF MovesTo
<1>3. CASE HandlerSucceeds(w)
  <2> DEFINE r == [workers[w] EXCEPT !.pc = "succeeded"]
  <2>1. workers' = [workers EXCEPT ![w] = r] /\ r.pc = "succeeded" /\ r.job = workers[w].job
        /\ r.token = workers[w].token /\ r.retry = workers[w].retry
    BY <1>1, <1>3 DEF HandlerSucceeds, Goto, Runner
  <2> HIDE DEF r
  <2>3. PICK a, p : MovesTo(w, a, p) /\ p = [phase |-> "succeeded", retryable |-> r.retry # "never"]
    BY <1>1, <2>1, GoesOn DEF Holding
  <2>4. p = [ProcessBy(w) EXCEPT !.phase = "succeeded"]
    BY <2>1, <2>3 DEF ProcessBy
  <2> QED
    BY <1>1, <2>3, <2>4, QuietMoves, StepOfProcess DEF MovesTo
<1>4. ASSUME NEW retry \in Retry,
             workers' = [workers EXCEPT ![w].pc = "cancelling", ![w].retry = retry]
      PROVE  Attempts!AttemptsNext
  <2> DEFINE r == [workers[w] EXCEPT !.pc = "cancelling", !.retry = retry]
             later == retry # "never"
  <2>1. workers' = [workers EXCEPT ![w] = r] /\ r.pc = "cancelling" /\ r.job = workers[w].job
        /\ r.token = workers[w].token /\ r.retry = retry
    BY <1>1, <1>4 DEF Runner
  <2> HIDE DEF r
  <2>2. PICK a, p : MovesTo(w, a, p) /\ p = [phase |-> "cancelling", retryable |-> later]
    BY <1>1, <2>1, GoesOn DEF Holding
  <2>3. later \in BOOLEAN
    OBVIOUS
  <2> HIDE DEF later
  <2>4. Attempts!HandlerStops(a, later)
    BY <1>1, <2>2, <2>3, QuietMoves
  <2> QED
    BY <2>2, <2>3, <2>4, StepOfProcess DEF MovesTo
<1>5. CASE FailAny(w)
  <2>1. PICK retry \in Retry : HandlerFails(w, retry)
    BY <1>5 DEF FailAny
  <2> QED
    BY <1>4, <2>1 DEF HandlerFails
<1>6. CASE ShutDown(w) /\ workers[w].pc = "handling"
  <2>1. "now" \in Retry /\ workers' = [workers EXCEPT ![w].pc = "cancelling", ![w].retry = "now"]
    BY <1>6 DEF Retry, ShutDown
  <2> QED
    BY <1>4, <2>1
<1> QED
  BY <1>2, <1>3, <1>5, <1>6

\* The runner leaves run_once without deciding its job.
LEMMA LeavingMoves ==
    ASSUME QueueInv, DistinctAttempts, QueueInv', DistinctAttempts', NEW w \in Worker,
           \/ CancelRuns(w) \/ LeaseError(w) \/ Crash(w)
           \/ Complete(w) /\ ~OwnsLease(w)
    PROVE  Attempts!AttemptsNext
<1>1. /\ workers[w] \in Runner /\ workers[w].pc \in Holding /\ w \in DOMAIN workers /\ TableKept
  BY DEF CancelRuns, LeaseError, Crash, Complete, TableKept, QueueInv, QueueTypeOK, Holding
<1>2. CASE workers[w].pc = "cancelling" /\ Goto(w, "failing")
  <2> DEFINE r == [workers[w] EXCEPT !.pc = "failing"]
  <2>1. workers' = [workers EXCEPT ![w] = r] /\ r.pc = "failing" /\ r.job = workers[w].job
        /\ r.token = workers[w].token /\ r.retry = workers[w].retry
    BY <1>1, <1>2 DEF Goto, Runner
  <2> HIDE DEF r
  <2>2. PICK a, p : MovesTo(w, a, p) /\ p = [phase |-> "failing", retryable |-> r.retry # "never"]
    BY <1>1, <2>1, GoesOn DEF Holding
  <2>3. p = [ProcessBy(w) EXCEPT !.phase = "failing"]
    BY <2>1, <2>2 DEF ProcessBy
  <2>4. Attempts!CleanedUp(a)
    BY <1>1, <1>2, <2>2, <2>3, QuietMoves
  <2> QED
    BY <2>2, <2>4, StepOfProcess DEF MovesTo
<1>3. ASSUME NEW r, r.pc \notin Holding, workers' = [workers EXCEPT ![w] = r],
             \/ workers[w].pc \in {"lost", "succeeded", "failing"} \/ Crash(w)
      PROVE  Attempts!AttemptsNext
  <2>1. PICK a : MovesTo(w, a, Gone)
    BY <1>1, <1>3, GoesOn
  <2> QED
    BY <1>1, <1>3, <2>1, QuietMoves, StepOfProcess DEF MovesTo
<1> QED
  BY <1>2, <1>3, IdleRunnerType DEF CancelRuns, LeaseError, Crash, Complete

\* The runner decides its job.
LEMMA DecidesJob ==
    ASSUME QueueInv, DistinctAttempts, QueueInv', DistinctAttempts', NEW w \in Worker,
           (Complete(w) /\ OwnsLease(w)) \/ RecordFailure(w)
    PROVE  Attempts!AttemptsNext
<1> DEFINE j == workers[w].job
<1>1. /\ jobs \in [Job -> JobRow] /\ j \in Job /\ jobs[j] \in JobRow
      /\ workers[w].pc \in Holding /\ w \in DOMAIN workers
  BY DEF QueueInv, QueueTypeOK, Complete, RecordFailure, Holding
<1>2. Holds(w, j)
  BY <1>1 DEF Complete, RecordFailure, OwnsLease, Holds, Running, QueueInv, LockedRowIsOwned
<1>3. ASSUME NEW r, r.pc \notin Holding, workers' = [workers EXCEPT ![w] = r],
             NEW row, jobs' = [jobs EXCEPT ![j] = row], row.attempts = jobs[j].attempts,
             \/ workers[w].pc = "succeeded" /\ row.status = "completed"
             \/ workers[w].pc = "recording" /\ Retries(w) /\ row.status = "pending"
             \/ workers[w].pc = "recording" /\ ~Retries(w) /\ row.status = "failed"
      PROVE  Attempts!AttemptsNext
  <2>1. OthersKept(j) /\ jobs'[j].attempts = jobs[j].attempts /\ jobs'[j] = row
    BY <1>1, <1>3 DEF OthersKept
  <2>2. PICK a : MovesTo(w, a, Gone)
    BY <1>1, <1>3, <2>1, GoesOn
  <2>3. Attempts!CompleteJob(a) \/ Attempts!FailJob(a)
    BY <1>1, <1>2, <1>3, <2>1, <2>2, DecidingMoves
  <2> QED
    BY <2>2, <2>3, StepOfProcess DEF MovesTo
<1>4. CASE Complete(w) /\ OwnsLease(w)
  <2>1. jobs' = [jobs EXCEPT ![j] = CompletedRow(jobs[j])]
    BY <1>4 DEF Complete
  <2>2. CompletedRow(jobs[j]).status = "completed" /\ CompletedRow(jobs[j]).attempts = jobs[j].attempts
    BY <1>1 DEF CompletedRow, JobRow
  <2> QED
    BY <1>3, <1>4, <2>1, <2>2, IdleRunnerType DEF Complete
<1>5. CASE RecordFailure(w) /\ Retries(w)
  <2>1. jobs' = [jobs EXCEPT ![j] = RequeuedRow(jobs[j], workers[w].retry)]
    BY <1>5 DEF RecordFailure
  <2>2. /\ RequeuedRow(jobs[j], workers[w].retry).status = "pending"
        /\ RequeuedRow(jobs[j], workers[w].retry).attempts = jobs[j].attempts
    BY <1>1 DEF RequeuedRow, JobRow
  <2> QED
    BY <1>3, <1>5, <2>1, <2>2, IdleRunnerType DEF RecordFailure
<1>6. CASE RecordFailure(w) /\ ~Retries(w)
  <2>1. jobs' = [jobs EXCEPT ![j] = FailedRow(jobs[j])]
    BY <1>6 DEF RecordFailure
  <2>2. FailedRow(jobs[j]).status = "failed" /\ FailedRow(jobs[j]).attempts = jobs[j].attempts
    BY <1>1 DEF FailedRow, JobRow
  <2> QED
    BY <1>3, <1>6, <2>1, <2>2, IdleRunnerType DEF RecordFailure
<1> QED
  BY <1>4, <1>5, <1>6

\* Nothing happens to the runners inside run_once.
LEMMA ProcessesKept ==
    ASSUME \A v \in Worker :
               /\ workers'[v].pc \in Holding <=> workers[v].pc \in Holding
               /\ workers[v].pc \in Holding =>
                     /\ workers'[v].pc = workers[v].pc /\ workers'[v].retry = workers[v].retry
                     /\ workers'[v].job = workers[v].job /\ workers'[v].token = workers[v].token,
           \A j \in Job : jobs'[j].attempts = jobs[j].attempts
    PROVE  Processes' = Processes
<1>1. ASSUME NEW a \in Slot PROVE ProcessOf(a)' = ProcessOf(a)
  <2>1. a[1] \in Job
    BY SlotShape
  <2>2. \A v \in Worker :
           /\ v \in RunnerOf(a)' <=> v \in RunnerOf(a)
           /\ v \in RunnerOf(a) => /\ workers'[v].pc = workers[v].pc
                                   /\ workers'[v].retry = workers[v].retry
    BY DEF RunnerOf
  <2> QED
    BY <2>1, <2>2, ProcessKept
<1>2. Processes' = [b \in Slot |-> ProcessOf(b)']
  BY DEF Slot, Processes
<1> QED
  BY <1>1, <1>2 DEF Processes

LEMMA Stutter ==
    ASSUME TableKept, Processes' = Processes
    PROVE  UNCHANGED Attempts!attemptVars
<1>1. UNCHANGED <<[j \in Job |-> jobs[j].status], [j \in Job |-> jobs[j].attempts]>>
  BY DEF TableKept
<1> QED
  BY <1>1 DEF Attempts!attemptVars, Processes, Slot

LEMMA IdleMoves ==
    ASSUME QueueInv, DistinctAttempts, QueueInv', DistinctAttempts', NEW w \in Worker,
           \/ UNCHANGED queueVars \/ Tick \/ ClaimNothing(w) \/ Renew(w) \/ Restart(w)
           \/ ShutDown(w) /\ workers[w].pc # "handling"
           \/ LockForFailure(w)
    PROVE  UNCHANGED Attempts!attemptVars
<1>1. workers \in [Worker -> Runner] /\ workers[w] \in Runner /\ IdleRunner.pc \notin Holding
  BY IdleRunnerType DEF QueueInv, QueueTypeOK
<1>2. TableKept
  <2>1. CASE Tick \/ Renew(w)
    BY <2>1, TickFate
  <2> QED
    BY <2>1 DEF queueVars, ClaimNothing, Restart, ShutDown, LockForFailure, TableKept
<1>3. \A j \in Job : jobs'[j].attempts = jobs[j].attempts
  BY <1>2 DEF TableKept
<1>4. CASE \/ UNCHANGED queueVars \/ Tick \/ ClaimNothing(w) \/ Renew(w) \/ Restart(w)
           \/ ShutDown(w) /\ workers[w].pc # "handling"
  <2>1. \A v \in Worker :
           /\ workers'[v].pc \in Holding <=> workers[v].pc \in Holding
           /\ workers[v].pc \in Holding =>
                 /\ workers'[v].pc = workers[v].pc /\ workers'[v].retry = workers[v].retry
                 /\ workers'[v].job = workers[v].job /\ workers'[v].token = workers[v].token
    <3>1. CASE UNCHANGED queueVars
      BY <3>1 DEF queueVars
    <3>2. CASE Tick
      BY <1>1, <3>2 DEF Tick, Runner
    <3>3. CASE ClaimNothing(w) \/ Restart(w)
      BY <1>1, <3>3 DEF ClaimNothing, Restart, Holding
    <3>4. CASE Renew(w)
      BY <1>1, <3>4 DEF Renew, Runner
    <3>5. CASE ShutDown(w) /\ workers[w].pc # "handling"
      BY <1>1, <3>5 DEF ShutDown, Goto, Runner, Holding
    <3> QED
      BY <1>4, <3>1, <3>2, <3>3, <3>4, <3>5
  <2> QED
    BY <1>2, <1>3, <2>1, ProcessesKept, Stutter
<1>5. CASE LockForFailure(w)
  <2> DEFINE r == [workers[w] EXCEPT !.pc = "recording"]
  <2>1. /\ workers' = [workers EXCEPT ![w] = r] /\ r.pc = "recording" /\ r.job = workers[w].job
        /\ r.token = workers[w].token /\ r.retry = workers[w].retry /\ workers[w].pc = "failing"
    BY <1>1, <1>5 DEF LockForFailure, Goto, Runner
  <2> HIDE DEF r
  <2>2. PICK a, p : MovesTo(w, a, p) /\ p = [phase |-> "failing", retryable |-> r.retry # "never"]
    BY <1>2, <2>1, GoesOn DEF Holding
  <2>3. p = Processes[a] /\ a \in Slot
    BY <2>1, <2>2 DEF ProcessBy, MovesTo
  <2>4. Processes' = Processes
    BY <2>2, <2>3 DEF MovesTo, Processes
  <2> QED
    BY <1>2, <2>4, Stutter
<1> QED
  BY <1>4, <1>5

\* A row that is not running, or whose lease is over, has no handler if Timely.
LEMMA NoHandlerLeft ==
    ASSUME QueueInv, Timely => LeaseAhead, NEW j \in Job, ~Running(j) \/ jobs[j].lease = 0
    PROVE  Attempts!CanExpire(j)
<1> SUFFICES ASSUME Timely, NEW a \in Slot, a[1] = j, Processes[a].phase = "handling"
             PROVE  FALSE
  BY SlotsAreAttempts DEF Attempts!CanExpire, Attempts!JobOf, Processes, Slot
<1>1. ProcessOf(a).phase = "handling"
  BY DEF Processes
<1>2. RunnerOf(a) # {}
  BY <1>1 DEF ProcessOf
<1> DEFINE w == CHOOSE w \in RunnerOf(a) : TRUE
<1>3. w \in RunnerOf(a)
  BY <1>2
<1>4. w \in Worker /\ workers[w].job = j
  BY <1>3 DEF RunnerOf
<1>5. workers[w].pc = "handling"
  <2> HIDE DEF w
  <2>1. ProcessOf(a) = [phase |-> IF workers[w].pc = "recording" THEN "failing" ELSE workers[w].pc,
                        retryable |-> workers[w].retry # "never"]
    BY <1>2 DEF ProcessOf, w
  <2> QED
    BY <1>1, <2>1
<1> HIDE DEF w
<1>6. Running(j) /\ jobs[j].lease > workers[w].beat
  BY <1>4, <1>5 DEF LeaseAhead, Holds
<1>7. jobs[j].lease \in Nat /\ workers[w].beat \in Nat
  BY <1>4 DEF QueueInv, QueueTypeOK, JobRow, Runner
<1> QED
  BY <1>6, <1>7

LEMMA ClaimMoves ==
    ASSUME QueueInv, DistinctAttempts, QueueInv', DistinctAttempts', Timely => LeaseAhead,
           NEW w \in Worker, ClaimAny(w)
    PROVE  Attempts!AttemptsNext
<1> PICK j \in Job, age \in ClaimAge(w) : Claim(w, j, age)
  BY DEF ClaimAny
<1> DEFINE a == <<j, jobs[j].attempts + 1>>
           claimed == [phase |-> "handling", retryable |-> FALSE]
<1>1. /\ jobs[j].attempts \in Nat /\ jobs[j].attempts < Budget(j) /\ Budget(j) \in Nat
      /\ workers \in [Worker -> Runner] /\ workers[w].pc \notin Holding
      /\ (~Running(j) \/ jobs[j].lease = 0)
  <2>1. jobs[j].attempts \in Nat /\ Budget(j) \in Nat /\ workers \in [Worker -> Runner]
    BY BudgetType DEF QueueInv, QueueTypeOK, JobRow
  <2>2. ~Exhausted(j) /\ Due(j) /\ workers[w].pc = "claiming"
    BY DEF Claim, Claimable
  <2> QED
    BY <2>1, <2>2 DEF Exhausted, Due, Expired, Running, Holding
<1>2. OthersKept(j) /\ Started(j)
  BY ClaimFate
<1>3. /\ workers'[w].pc = "handling" /\ workers'[w].job = j /\ workers'[w].retry = "never"
      /\ workers'[w].token = jobs[j].attempts + 1
      /\ \A v \in Worker : v # w => workers'[v] = workers[v]
  <2> DEFINE r == [IdleRunner EXCEPT !.pc = "handling", !.job = j,
                                     !.token = jobs[j].attempts + 1, !.beat = Heartbeat]
  <2>1. workers' = [workers EXCEPT ![w] = r]
    BY DEF Claim, FreshToken
  <2>2. r.pc = "handling" /\ r.job = j /\ r.retry = "never" /\ r.token = jobs[j].attempts + 1
    BY DEF IdleRunner
  <2> HIDE DEF r
  <2> QED
    BY <1>1, <2>1, <2>2
<1>4. a \in Slot /\ a[1] = j /\ a[2] = jobs[j].attempts + 1
  <2>1. a \in {j} \X (1..Budget(j))
    BY <1>1
  <2> QED
    BY <2>1 DEF Slot
<1>5. ProcessOf(a) = [phase |-> "none", retryable |-> FALSE]
  <2>1. RunnerOf(a) = {}
    <3> SUFFICES ASSUME NEW v \in RunnerOf(a) PROVE FALSE
      OBVIOUS
    <3>1. v \in Worker /\ workers[v].pc \in Holding /\ workers[v].job = j
          /\ workers[v].token = jobs[j].attempts + 1
      BY <1>4 DEF RunnerOf
    <3> QED
      BY <1>1, <3>1 DEF QueueInv, TokenBound
  <2>2. ~(a[2] <= jobs[a[1]].attempts)
    BY <1>1, <1>4
  <2> QED
    BY <2>1, <2>2 DEF ProcessOf
<1>6. ASSUME NEW b \in Slot, b = a PROVE ProcessOf(b)' = claimed
  <2>1. RunnerOf(b)' = {w}
    BY <1>3, <1>4, <1>6 DEF RunnerOf, AttemptOf, DistinctAttempts, Holding
  <2>2. (workers'[w].retry # "never") = FALSE
    BY <1>3
  <2> QED
    BY <1>3, <2>1, <2>2 DEF ProcessOf
<1>7. ASSUME NEW b \in Slot, b # a PROVE ProcessOf(b)' = ProcessOf(b)
  <2>1. b = <<b[1], b[2]>> /\ b[1] \in Job /\ b[2] \in Nat
    BY SlotShape
  <2>2. w \notin RunnerOf(b) /\ w \notin RunnerOf(b)'
    BY <1>1, <1>3, <1>7, <2>1 DEF RunnerOf
  <2>3. \A v \in Worker : v # w => (v \in RunnerOf(b)' <=> v \in RunnerOf(b))
    BY <1>3 DEF RunnerOf
  <2>4. b[2] <= jobs'[b[1]].attempts <=> b[2] <= jobs[b[1]].attempts
    <3>1. CASE b[1] # j
      BY <1>2, <2>1, <3>1 DEF OthersKept
    <3>2. CASE b[1] = j
      BY <1>1, <1>2, <1>7, <2>1, <3>2 DEF Started
    <3> QED
      BY <3>1, <3>2
  <2> QED
    BY <1>3, <2>2, <2>3, <2>4, ProcessKept
<1>8. PICK b \in Slot : b = a
  BY <1>4
<1>9. Processes' = [Processes EXCEPT ![b].phase = "handling"]
  <2> PICK never : never = FALSE
    OBVIOUS
  <2> DEFINE none == [phase |-> "none", retryable |-> never]
  <2>1. Processes[b] = none
    BY <1>5, <1>8 DEF Processes
  <2>2. [none EXCEPT !.phase = "handling"] = [phase |-> "handling", retryable |-> never]
    OBVIOUS
  <2>3. claimed = [phase |-> "handling", retryable |-> never]
    OBVIOUS
  <2> HIDE DEF none, claimed, a
  <2>4. Processes' = [Processes EXCEPT ![b] = claimed]
    BY <1>6, <1>7, <1>8, ProcessMoves
  <2>5. [Processes EXCEPT ![b].phase = "handling"]
          = [Processes EXCEPT ![b] = [none EXCEPT !.phase = "handling"]]
    BY <2>1 DEF Processes
  <2> QED
    BY <2>2, <2>3, <2>4, <2>5
<1>10. Attempts!Start(j)
  <2>1. /\ [i \in Job |-> jobs[i].attempts]'
              = [[i \in Job |-> jobs[i].attempts] EXCEPT ![j] = jobs[j].attempts + 1]
        /\ [i \in Job |-> jobs[i].status]' = [[i \in Job |-> jobs[i].status] EXCEPT ![j] = "running"]
    BY <1>2 DEF OthersKept, Started
  <2>2. jobs[j].status \in {"pending", "running"} /\ jobs[j].attempts < Attempts!Budget(j)
    BY <1>1, <1>2, SlotsAreAttempts DEF Started, Active
  <2> QED
    BY <2>1, <2>2 DEF Attempts!Start
<1>11. Attempts!CanExpire(j)
  BY <1>1, NoHandlerLeft
<1>12. b[1] = j /\ b[2] = jobs[j].attempts + 1
  BY <1>4, <1>8
<1> HIDE DEF a
<1>13. Attempts!BeginAttempt(b)
  BY <1>9, <1>10, <1>11, <1>12, AttemptWords DEF Attempts!BeginAttempt, Attempts!JobOf
<1> QED
  BY <1>13, StepOfProcess

LEMMA SweepMoves ==
    ASSUME QueueInv, Timely => LeaseAhead, NEW w \in Worker, Sweep(w)
    PROVE  Attempts!AttemptsNext
<1> DEFINE lost == {j \in Job : FinalAttemptLost(j)}
<1>1. TableSwept
  BY SweepFate
<1>2. \A j \in Job : jobs'[j].attempts = jobs[j].attempts
  BY <1>1 DEF TableSwept
<1>3. Processes' = Processes
  <2>1. workers \in [Worker -> Runner] /\ workers[w].pc = "idle"
    BY DEF Sweep, QueueInv, QueueTypeOK
  <2>2. workers' = [workers EXCEPT ![w].pc = "claiming"]
    BY DEF Sweep
  <2>3. \A v \in Worker : v # w => workers'[v] = workers[v]
    BY <2>1, <2>2
  <2>4. workers[w].pc \notin Holding /\ workers'[w].pc \notin Holding
    BY <2>1, <2>2 DEF Holding, Runner
  <2> QED
    BY <1>2, <2>3, <2>4, ProcessesKept
<1>4. \A j \in lost : Attempts!CanExpire(j)
  BY NoHandlerLeft DEF FinalAttemptLost, Expired
<1>5. Attempts!Exhaust(lost)
  <2>1. \A j \in Job : FinalAttemptLost(j) => /\ jobs[j].status = "running"
                                              /\ jobs[j].attempts = Budget(j)
    BY LostOnLastAttempt
  <2> QED
    BY <1>1, <2>1, SlotsAreAttempts DEF TableSwept, Attempts!Exhaust
<1>6. lost \in SUBSET Attempts!Job
  BY SlotsAreAttempts
<1> HIDE DEF lost
<1>7. Attempts!SweepJobs(lost)
  BY <1>3, <1>4, <1>5 DEF Attempts!SweepJobs, Processes, Slot
<1>8. \E J \in SUBSET Attempts!Job : Attempts!SweepJobs(J)
  <2> HIDE DEF Attempts!Job
  <2> QED
    BY <1>6, <1>7, Zenon DEF Attempts!SweepJobs, Attempts!Exhaust
<1> QED
  BY <1>8, Zenon DEF Attempts!AttemptsNext

LEMMA ProducerMoves ==
    ASSUME QueueInv, Produce \/ Withdraw
    PROVE  [Attempts!AttemptsNext]_(Attempts!attemptVars)
<1>1. \A j \in Job : OthersKept(j) /\ jobs'[j].attempts = jobs[j].attempts
                       => Processes' = Processes
  <2>1. UNCHANGED workers
    BY DEF Produce, Withdraw, Enqueue, Insert, Upsert, CancelPending
  <2> QED
    BY <2>1, ProcessesKept DEF OthersKept
<1>2. ASSUME NEW j \in Job, Attempts!Submit(j) \/ Attempts!Withdraw(j), Processes' = Processes
      PROVE  Attempts!AttemptsNext
  <2>1. Attempts!JobStep(j)
    BY <1>2 DEF Attempts!JobStep, Processes, Slot
  <2>2. j \in Attempts!Job
    BY SlotsAreAttempts
  <2> QED
    BY <2>1, <2>2, Zenon DEF Attempts!AttemptsNext
<1>3. ASSUME NEW j \in Job, OthersKept(j), Inserted(j)
      PROVE  Attempts!AttemptsNext
  <2>1. \A i \in Job : KeyOf(i) = KeyOf(j) => jobs[i].status \notin {"pending", "running"}
    BY <1>3 DEF Inserted, KeyIsActive, Active, Job, KeyOf
  <2>2. Attempts!Submit(j)
    BY <1>3, <2>1, SlotsAreAttempts DEF OthersKept, Inserted, Attempts!Submit
  <2> QED
    BY <1>1, <1>2, <1>3, <2>2 DEF Inserted
<1>4. ASSUME NEW j \in Job, OthersKept(j), Cancelled(j)
      PROVE  Attempts!AttemptsNext
  <2>1. Attempts!Withdraw(j)
    BY <1>4 DEF OthersKept, Cancelled, Attempts!Withdraw
  <2> QED
    BY <1>1, <1>2, <1>4, <2>1 DEF Cancelled
<1>5. CASE TableKept
  <2>1. UNCHANGED workers /\ \A j \in Job : jobs'[j].attempts = jobs[j].attempts
    BY <1>5 DEF Produce, Withdraw, Enqueue, Insert, Upsert, CancelPending, TableKept
  <2> QED
    BY <1>5, <2>1, ProcessesKept, Stutter
<1> QED
  BY <1>3, <1>4, <1>5, ProduceFate, WithdrawFate DEF Produce, Withdraw

LEMMA AttemptsStep ==
    ASSUME QueueInv, DistinctAttempts, QueueInv', DistinctAttempts', Timely => LeaseAhead,
           [QueueNext]_queueVars
    PROVE  [Attempts!AttemptsNext]_(Attempts!attemptVars)
<1>1. CASE UNCHANGED queueVars
  <2>1. TableKept /\ Processes' = Processes
    BY <1>1, ProcessesKept DEF queueVars, TableKept
  <2> QED
    BY <2>1, Stutter
<1>2. CASE Tick
  <2>1. Processes' = Processes
    BY ZenonT(60), <1>2, ProcessesKept, TickFate DEF Tick, QueueInv, QueueTypeOK, Runner, TableKept
  <2> QED
    BY <1>2, <2>1, Stutter, TickFate
<1>3. CASE \E w \in Worker : Step(w)
  <2> PICK w \in Worker : Step(w)
    BY <1>3
  <2>1. CASE \/ ClaimNothing(w) \/ Renew(w) \/ Restart(w) \/ LockForFailure(w)
             \/ ShutDown(w) /\ workers[w].pc # "handling"
    BY <2>1, IdleMoves
  <2>2. CASE \/ LoseLease(w) \/ HandlerSucceeds(w) \/ FailAny(w)
             \/ ShutDown(w) /\ workers[w].pc = "handling"
    BY <2>2, HandlingMoves
  <2>3. CASE CancelRuns(w) \/ LeaseError(w) \/ Crash(w) \/ (Complete(w) /\ ~OwnsLease(w))
    BY <2>3, LeavingMoves
  <2>4. CASE (Complete(w) /\ OwnsLease(w)) \/ RecordFailure(w)
    BY <2>4, DecidesJob
  <2> QED
    BY <2>1, <2>2, <2>3, <2>4, ClaimMoves, SweepMoves DEF Step
<1>4. CASE Produce \/ Withdraw
  BY <1>4, ProducerMoves
<1> QED
  BY <1>1, <1>2, <1>3, <1>4 DEF QueueNext

\* The queue and its runners implement JobAttempts: an attempt is one process, which
\* may outlive its lease, and only the attempt whose token is in the row decides the
\* job.  If Timely, the wait for the company-news lock and the heartbeat interval must
\* together stay below the lease for a handler to keep its row.
THEOREM QueueRefinesAttempts ==
    ASSUME Timely => MaxStale + Heartbeat < Lease
    PROVE  QueueSpec => ImplementsAttempts
<1> DEFINE Ahead == Timely => LeaseAhead
<1>1. QueueInit => Ahead
  BY DEF QueueInit, LeaseAhead, IdleRunner
<1>2. QueueInv /\ Ahead /\ [QueueNext]_queueVars => Ahead'
  BY LeaseStep
<1>3. QueueInit => Attempts!AttemptsInit
  <2> SUFFICES ASSUME QueueInit PROVE Attempts!AttemptsInit
    OBVIOUS
  <2>1. \A a \in Slot : ProcessOf(a) = [phase |-> "none", retryable |-> FALSE]
    <3> SUFFICES ASSUME NEW a \in Slot PROVE ProcessOf(a) = [phase |-> "none", retryable |-> FALSE]
      OBVIOUS
    <3>1. a[1] \in Job /\ a[2] \in Nat \ {0}
      BY SlotShape
    <3>2. RunnerOf(a) = {}
      BY DEF QueueInit, RunnerOf, IdleRunner, Holding
    <3>3. jobs[a[1]].attempts = 0
      BY <3>1 DEF QueueInit, AbsentRow
    <3>4. ~(a[2] <= jobs[a[1]].attempts)
      BY <3>1, <3>3
    <3> QED
      BY <3>2, <3>4 DEF ProcessOf
  <2>2. Processes = [a \in Slot |-> [phase |-> "none", retryable |-> FALSE]]
    BY <2>1 DEF Processes
  <2>3. Attempts!LifecycleInit
    BY SlotsAreAttempts DEF QueueInit, Attempts!LifecycleInit, AbsentRow
  <2> QED
    BY <2>2, <2>3, SlotsAreAttempts DEF Attempts!AttemptsInit, Processes, Slot
<1>4. QueueInv /\ DistinctAttempts /\ QueueInv' /\ DistinctAttempts' /\ Ahead /\ [QueueNext]_queueVars
         => [Attempts!AttemptsNext]_(Attempts!attemptVars)
  BY AttemptsStep
<1> QED
  BY <1>1, <1>2, <1>3, <1>4, InitDistinct, DistinctStep, QueueInvHolds, PTL
     DEF QueueSpec, ImplementsAttempts, Attempts!AttemptsSpec
=============================================================================
