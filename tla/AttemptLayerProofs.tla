------------------------ MODULE AttemptLayerProofs ------------------------
(***************************************************************************)
(* What the proofs about the modules on JobAttempts share: the shape of an *)
(* attempt, and how an attempt's phase may change in a step; and that      *)
(* JobAttempts implements JobLifecycle.                                    *)
(***************************************************************************)
EXTENDS JobAttempts, TLAPS

AttemptTypes ==
    /\ status \in [Job -> LifecycleStatus]
    /\ started \in [Job -> Nat]
    /\ attempts \in [Attempt -> Process]

\* An attempt that no claim has reached does not exist yet.
UnclaimedAttempts ==
    \A a \in Attempt : a[2] > started[JobOf(a)] => attempts[a].phase = "none"

LEMMA AttemptShape ==
    ASSUME NEW a \in Attempt
    PROVE  /\ JobOf(a) \in Job
           /\ a[2] \in Nat
           /\ a = <<JobOf(a), a[2]>>
           /\ \A b \in Attempt : JobOf(a) = JobOf(b) /\ a[2] = b[2] => a = b
<1>1. PICK j \in Job : a \in {j} \X (1..Budget(j))
    BY DEF Attempt
<1>2. ASSUME NEW b \in Attempt PROVE b = <<JobOf(b), b[2]>>
    <2>1. PICK k \in Job : b \in {k} \X (1..Budget(k))
        BY DEF Attempt
    <2> QED BY <2>1 DEF JobOf
<1> QED BY <1>1, <1>2 DEF JobOf

-----------------------------------------------------------------------------
(* The steps of the attempts below the tables *)

\* How an attempt's phase may change: it begins once, and it does not return to
\* its handler.
PhaseChange(a) ==
    \/ attempts'[a].phase = attempts[a].phase
    \/ attempts'[a].phase = "handling" /\ attempts[a].phase = "none"
    \/ attempts'[a].phase \notin {"none", "handling"}

LEMMA BeginLayer ==
    ASSUME AttemptTypes, UnclaimedAttempts, NEW a \in Attempt, BeginAttempt(a)
    PROVE  AttemptTypes' /\ UnclaimedAttempts' /\ \A b \in Attempt : PhaseChange(b)
<1>1. JobOf(a) \in Job /\ a[2] \in Nat
    BY AttemptShape
<1>2. /\ status' = [status EXCEPT ![JobOf(a)] = "running"]
      /\ started' = [started EXCEPT ![JobOf(a)] = @ + 1]
      /\ attempts' = [attempts EXCEPT ![a].phase = "handling"]
      /\ a[2] = started[JobOf(a)] + 1
    BY DEF BeginAttempt, Start, Enter
<1>3. started[JobOf(a)] \in Nat
    BY <1>1 DEF AttemptTypes
<1>4. attempts[a].phase = "none"
    BY <1>1, <1>2, <1>3 DEF UnclaimedAttempts
<1>5. AttemptTypes'
    BY <1>1, <1>2, <1>3 DEF AttemptTypes, Process, Phase, LifecycleStatus
<1>6. UnclaimedAttempts'
    <2> SUFFICES ASSUME NEW b \in Attempt, b[2] > started'[JobOf(b)]
                 PROVE  attempts'[b].phase = "none"
        BY DEF UnclaimedAttempts
    <2>1. JobOf(b) \in Job /\ b[2] \in Nat /\ started[JobOf(b)] \in Nat
        BY AttemptShape DEF AttemptTypes
    <2>2. b # a
        BY <1>2, <1>3, <1>1 DEF AttemptTypes
    <2>3. b[2] > started[JobOf(b)]
        BY <2>1, <1>2, <1>3, <1>1 DEF AttemptTypes
    <2> QED BY <2>2, <2>3, <1>2 DEF UnclaimedAttempts, AttemptTypes
<1>7. \A b \in Attempt : PhaseChange(b)
    BY <1>2, <1>4 DEF PhaseChange, AttemptTypes
<1> QED BY <1>5, <1>6, <1>7

\* The attempt goes on to a phase after its handler.
Moves(a) ==
    \E p \in Process : /\ attempts' = [attempts EXCEPT ![a] = p]
                       /\ p.phase \notin {"none", "handling"}

LEMMA EnterMoves ==
    ASSUME AttemptTypes, NEW a \in Attempt, NEW phase \in Phase \ {"none", "handling"},
           Enter(a, phase)
    PROVE  Moves(a)
<1>1. attempts[a] \in Process
    BY DEF AttemptTypes
<1>2. [attempts[a] EXCEPT !.phase = phase] \in Process
    BY <1>1 DEF Process
<1>3. attempts' = [attempts EXCEPT ![a] = [attempts[a] EXCEPT !.phase = phase]]
    BY DEF Enter
<1> QED BY <1>2, <1>3 DEF Moves, Process

LEMMA LeaveMoves ==
    ASSUME NEW a \in Attempt, LeaveRun(a)
    PROVE  Moves(a)
<1> DEFINE p == [phase |-> "gone", retryable |-> FALSE]
<1>1. p \in Process /\ p.phase \notin {"none", "handling"}
    BY DEF Process, Phase
<1>2. attempts' = [attempts EXCEPT ![a] = p]
    BY DEF LeaveRun
<1> QED BY <1>1, <1>2 DEF Moves

\* A step of an attempt that has begun.
RunStep(a) ==
    \/ LoseAttempt(a) \/ HandlerReturns(a) \/ \E retryable \in BOOLEAN : HandlerStops(a, retryable)
    \/ CleanedUp(a) \/ CompleteJob(a) \/ FailJob(a) \/ Die(a)

LEMMA RunStepMoves ==
    ASSUME AttemptTypes, NEW a \in Attempt, RunStep(a)
    PROVE  Moves(a) /\ attempts[a].phase # "none"
<1>1. CASE LoseAttempt(a)
    BY <1>1, EnterMoves DEF LoseAttempt, Phase
<1>2. CASE HandlerReturns(a)
    BY <1>2, EnterMoves DEF HandlerReturns, Phase
<1>3. ASSUME NEW retryable \in BOOLEAN, HandlerStops(a, retryable)
      PROVE  Moves(a) /\ attempts[a].phase # "none"
    <2> DEFINE p == [phase |-> "cancelling", retryable |-> retryable]
    <2>1. p \in Process /\ p.phase \notin {"none", "handling"}
        BY DEF Process, Phase
    <2>2. attempts' = [attempts EXCEPT ![a] = p]
        BY <1>3 DEF HandlerStops
    <2> QED BY <1>3, <2>1, <2>2 DEF HandlerStops, Moves
<1>4. CASE CleanedUp(a)
    BY <1>4, EnterMoves, LeaveMoves DEF CleanedUp, Phase
<1>5. CASE CompleteJob(a)
    BY <1>5, LeaveMoves DEF CompleteJob
<1>6. CASE FailJob(a)
    BY <1>6, LeaveMoves DEF FailJob
<1>7. CASE Die(a)
    BY <1>7, LeaveMoves DEF Die, Alive
<1> QED BY <1>1, <1>2, <1>3, <1>4, <1>5, <1>6, <1>7 DEF RunStep

LEMMA RunLayer ==
    ASSUME AttemptTypes, UnclaimedAttempts, NEW a \in Attempt, RunStep(a)
    PROVE  AttemptTypes' /\ UnclaimedAttempts' /\ \A b \in Attempt : PhaseChange(b)
<1>1. JobOf(a) \in Job
    BY AttemptShape
<1>2. started' = started
    BY DEF RunStep, LoseAttempt, HandlerReturns, HandlerStops, CleanedUp, CompleteJob, FailJob,
           Die, Settle, Requeue
<1>3. status' \in [Job -> LifecycleStatus]
    <2>1. status' = status \/ \E s \in LifecycleStatus : status' = [status EXCEPT ![JobOf(a)] = s]
        BY DEF RunStep, LoseAttempt, HandlerReturns, HandlerStops, CleanedUp, CompleteJob,
               FailJob, Die, Settle, Requeue, LifecycleStatus, Settled
    <2> QED BY <1>1, <2>1 DEF AttemptTypes
<1>4. Moves(a) /\ attempts[a].phase # "none"
    BY RunStepMoves
<1>5. AttemptTypes'
    BY <1>2, <1>3, <1>4 DEF AttemptTypes, Moves
<1>6. \A b \in Attempt : PhaseChange(b)
    BY <1>4 DEF AttemptTypes, Moves, PhaseChange
<1>7. UnclaimedAttempts'
    BY <1>2, <1>4 DEF AttemptTypes, Moves, UnclaimedAttempts
<1> QED BY <1>5, <1>6, <1>7

-----------------------------------------------------------------------------
(* What becomes of the jobs *)

\* A job is completed in a step only by the attempt that holds it.
CompletedKept ==
    \A j \in Job : status'[j] = "completed" => status[j] = "completed" /\ started'[j] = started[j]

LEMMA BeginCompletesNothing ==
    ASSUME AttemptTypes, NEW a \in Attempt, BeginAttempt(a)
    PROVE  CompletedKept
<1>1. JobOf(a) \in Job
    BY AttemptShape
<1> QED BY <1>1 DEF BeginAttempt, Start, AttemptTypes, CompletedKept

LEMMA RunStepCompletes ==
    ASSUME AttemptTypes, NEW a \in Attempt, RunStep(a)
    PROVE  \/ CompletedKept
           \/ /\ attempts[a].phase = "succeeded" /\ Current(a)
              /\ status' = [status EXCEPT ![JobOf(a)] = "completed"] /\ UNCHANGED started
<1>1. JobOf(a) \in Job
    BY AttemptShape
<1>2. CASE LoseAttempt(a) \/ HandlerReturns(a) \/ CleanedUp(a) \/ Die(a)
    BY <1>2 DEF LoseAttempt, HandlerReturns, CleanedUp, Die, CompletedKept
<1>3. CASE \E retryable \in BOOLEAN : HandlerStops(a, retryable)
    BY <1>3 DEF HandlerStops, CompletedKept
<1>4. CASE CompleteJob(a)
    BY <1>1, <1>4 DEF CompleteJob, Settle, CompletedKept
<1>5. CASE FailJob(a)
    BY <1>1, <1>5 DEF FailJob, Requeue, Settle, AttemptTypes, CompletedKept
<1> QED BY <1>2, <1>3, <1>4, <1>5 DEF RunStep

\* The steps of the queue that are none of an attempt.
LEMMA QueueLayer ==
    ASSUME AttemptTypes, UnclaimedAttempts,
           (\E j \in Job : JobStep(j)) \/ (\E J \in SUBSET Job : SweepJobs(J))
    PROVE  /\ AttemptTypes' /\ UnclaimedAttempts' /\ CompletedKept
           /\ UNCHANGED <<attempts, started>>
<1>1. UNCHANGED <<attempts, started>>
    BY DEF JobStep, Submit, Withdraw, SweepJobs, Exhaust
<1>2. status' \in [Job -> LifecycleStatus] /\ CompletedKept
    <2>1. ASSUME NEW j \in Job, JobStep(j)
          PROVE  status' \in [Job -> LifecycleStatus] /\ CompletedKept
        BY <2>1 DEF JobStep, Submit, Withdraw, AttemptTypes, LifecycleStatus, Settled, CompletedKept
    <2>2. ASSUME NEW J \in SUBSET Job, SweepJobs(J)
          PROVE  status' \in [Job -> LifecycleStatus] /\ CompletedKept
        BY <2>2 DEF SweepJobs, Exhaust, AttemptTypes, LifecycleStatus, Settled, CompletedKept
    <2> QED BY <2>1, <2>2
<1> QED BY <1>1, <1>2 DEF AttemptTypes, UnclaimedAttempts
-----------------------------------------------------------------------------
(* JobAttempts implements JobLifecycle *)

LEMMA AttemptStepIsLifecycleStep ==
    ASSUME [AttemptsNext]_attemptVars
    PROVE  [LifecycleNext]_lifecycleVars
<1>1. CASE UNCHANGED attemptVars
    BY <1>1 DEF attemptVars, lifecycleVars
<1>2. ASSUME NEW a \in Attempt, AttemptStep(a)
      PROVE  [LifecycleNext]_lifecycleVars
    <2>1. JobOf(a) \in Job
        BY AttemptShape
    <2>2. CASE BeginAttempt(a)
        BY <2>1, <2>2 DEF BeginAttempt, LifecycleNext
    <2>3. CASE CompleteJob(a)
        BY <2>1, <2>3 DEF CompleteJob, LifecycleNext, Settled, lifecycleVars
    <2>4. CASE FailJob(a)
        BY <2>1, <2>4 DEF FailJob, LifecycleNext, Settled, lifecycleVars
    <2>5. CASE LoseAttempt(a) \/ HandlerReturns(a) \/ (\E retryable \in BOOLEAN : HandlerStops(a, retryable))
               \/ CleanedUp(a) \/ Die(a)
        BY <2>5 DEF LoseAttempt, HandlerReturns, HandlerStops, CleanedUp, Die, lifecycleVars
    <2> QED BY <1>2, <2>2, <2>3, <2>4, <2>5 DEF AttemptStep
<1>3. ASSUME NEW j \in Job, JobStep(j)
      PROVE  LifecycleNext
    BY <1>3 DEF JobStep, LifecycleNext
<1>4. ASSUME NEW J \in SUBSET Job, SweepJobs(J)
      PROVE  LifecycleNext
    BY <1>4 DEF SweepJobs, LifecycleNext
<1> QED BY <1>1, <1>2, <1>3, <1>4 DEF AttemptsNext

(* Whatever overlapping attempts do, a job is started within its budget, goes back to the queue
   only with an attempt left, and changes no more once it is settled: attempts of which several
   may be alive implement the life of a job that has one at a time. *)
THEOREM AttemptsRefineLifecycle == AttemptsSpec => LifecycleSpec
<1>1. AttemptsInit => LifecycleInit
    BY DEF AttemptsInit
<1> QED BY <1>1, AttemptStepIsLifecycleStep, PTL DEF AttemptsSpec, LifecycleSpec
=============================================================================
