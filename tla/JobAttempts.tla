---------------------------- MODULE JobAttempts ----------------------------
(***************************************************************************)
(* What an attempt's handler, and the audit records it writes, can rely on *)
(* from the queue and the runner: JobLifecycle with the attempts in it.    *)
(* Every claim starts a process of its own, the attempt.  It works, and    *)
(* afterwards it settles its job or finds that the job is no longer its    *)
(* own; nothing stops it from working on after another attempt has begun.  *)
(* Leases and heartbeats are reduced to what they decide.  JobQueue        *)
(* implements this specification.                                          *)
(***************************************************************************)
EXTENDS JobLifecycle

CONSTANTS
    Timely,       \* TRUE: no lease runs out while its handler is polled
    MayCrash      \* FALSE: no process dies and no database call fails

VARIABLE
    attempts      \* [Attempt -> Process]

attemptVars == <<status, started, attempts>>

Attempt == UNION {{j} \X (1..Budget(j)) : j \in Job}
JobOf(a) == a[1]

\* "handling": the handler is polled; "lost" and "cancelling": the runner cleans up
\* after a lost lease or a failed or interrupted handler; "failing": it is about to
\* record the failure; "gone": it has left run_once, or died.
Phase == {"none", "handling", "succeeded", "cancelling", "failing", "lost", "gone"}
Alive == Phase \ {"none", "gone"}

\* retryable: what record_job_failure will be told about the failure.
Process == [phase : Phase, retryable : BOOLEAN]

\* The attempt's token is the one in the job row: the fence of the runner's statements
\* apart from the expiry of the lease.
Current(a) == status[JobOf(a)] = "running" /\ started[JobOf(a)] = a[2]

AttemptsInit ==
    /\ LifecycleInit
    /\ attempts = [a \in Attempt |-> [phase |-> "none", retryable |-> FALSE]]

Enter(a, phase) == attempts' = [attempts EXCEPT ![a].phase = phase]
LeaveRun(a) == attempts' = [attempts EXCEPT ![a] = [phase |-> "gone", retryable |-> FALSE]]

\* A lease is taken to have run out at any time, unless Timely.
CanExpire(j) ==
    Timely => \A a \in Attempt : JobOf(a) = j /\ Current(a) => attempts[a].phase # "handling"

BeginAttempt(a) ==
    /\ a[2] = started[JobOf(a)] + 1
    /\ CanExpire(JobOf(a))
    /\ Start(JobOf(a))
    /\ Enter(a, "handling")

LoseAttempt(a) ==
    /\ ~Timely
    /\ attempts[a].phase = "handling"
    /\ Enter(a, "lost")
    /\ UNCHANGED <<status, started>>

HandlerReturns(a) ==
    /\ attempts[a].phase = "handling"
    /\ Enter(a, "succeeded")
    /\ UNCHANGED <<status, started>>

\* The handler returns an error, or the runner is told to shut down, which is retried.
HandlerStops(a, retryable) ==
    /\ attempts[a].phase = "handling"
    /\ attempts' = [attempts EXCEPT ![a] = [phase |-> "cancelling", retryable |-> retryable]]
    /\ UNCHANGED <<status, started>>

CleanedUp(a) ==
    /\ \/ attempts[a].phase = "lost" /\ LeaveRun(a)
       \/ attempts[a].phase = "cancelling" /\ Enter(a, "failing")
    /\ UNCHANGED <<status, started>>

\* complete_job and record_job_failure have an effect only under a lease that is
\* valid; it may have run out by then.
CompleteJob(a) ==
    /\ attempts[a].phase = "succeeded"
    /\ \/ Current(a) /\ Settle(JobOf(a), "completed")
       \/ UNCHANGED <<status, started>>
    /\ LeaveRun(a)

FailJob(a) ==
    /\ attempts[a].phase = "failing"
    /\ \/ /\ Current(a)
          /\ \/ attempts[a].retryable /\ Requeue(JobOf(a))
             \/ /\ ~attempts[a].retryable \/ started[JobOf(a)] >= Budget(JobOf(a))
                /\ Settle(JobOf(a), "failed")
       \/ UNCHANGED <<status, started>>
    /\ LeaveRun(a)

Die(a) ==
    /\ MayCrash
    /\ attempts[a].phase \in Alive
    /\ LeaveRun(a)
    /\ UNCHANGED <<status, started>>

\* The sweep over jobs whose last attempt's lease ran out.
SweepJobs(J) == (\A j \in J : CanExpire(j)) /\ Exhaust(J) /\ UNCHANGED attempts

AttemptStep(a) ==
    \/ BeginAttempt(a) \/ LoseAttempt(a) \/ HandlerReturns(a)
    \/ \E retryable \in BOOLEAN : HandlerStops(a, retryable)
    \/ CleanedUp(a) \/ CompleteJob(a) \/ FailJob(a) \/ Die(a)

JobStep(j) == (Submit(j) \/ Withdraw(j)) /\ UNCHANGED attempts

AttemptsNext ==
    \/ \E a \in Attempt : AttemptStep(a)
    \/ \E j \in Job : JobStep(j)
    \/ \E J \in SUBSET Job : SweepJobs(J)

AttemptsSpec == AttemptsInit /\ [][AttemptsNext]_attemptVars
=============================================================================
