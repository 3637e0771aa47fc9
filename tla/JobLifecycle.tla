---------------------------- MODULE JobLifecycle ----------------------------
(***************************************************************************)
(* What the durable queue promises about a job, without time, leases,      *)
(* tokens or workers: a logical unit of work is active at most once, it is *)
(* started at most MaxAttempts times, it goes back to the queue only while *)
(* it has attempts left, and a settled job never changes again.  JobQueue  *)
(* implements this specification.                                          *)
(***************************************************************************)
EXTENDS Naturals

CONSTANTS
    Key,          \* logical units of work: a (job_type, job_key) pair
    MaxOcc,       \* bound: rows ever inserted for one key
    MaxAttempts   \* [Key -> Nat \ {0}], the max_attempts of the key's jobs

VARIABLES
    status,       \* [Job -> LifecycleStatus]
    started       \* [Job -> Nat], how many attempts were started

lifecycleVars == <<status, started>>

Job == Key \X (1..MaxOcc)
KeyOf(j) == j[1]

Settled == {"completed", "failed", "cancelled"}
LifecycleStatus == {"absent", "pending", "running"} \cup Settled
Budget(j) == MaxAttempts[KeyOf(j)]

LifecycleInit ==
    /\ status = [j \in Job |-> "absent"]
    /\ started = [j \in Job |-> 0]

\* A row is inserted for a key that has no pending or running row.
Submit(j) ==
    /\ status[j] = "absent"
    /\ \A i \in Job : KeyOf(i) = KeyOf(j) => status[i] \notin {"pending", "running"}
    /\ status' = [status EXCEPT ![j] = "pending"]
    /\ UNCHANGED started

\* A worker starts an attempt, of a queued job or of one abandoned by its worker.
Start(j) ==
    /\ status[j] \in {"pending", "running"}
    /\ started[j] < Budget(j)
    /\ status' = [status EXCEPT ![j] = "running"]
    /\ started' = [started EXCEPT ![j] = @ + 1]

\* The attempt did not succeed and there is budget for another one.
Requeue(j) ==
    /\ status[j] = "running"
    /\ started[j] < Budget(j)
    /\ status' = [status EXCEPT ![j] = "pending"]
    /\ UNCHANGED started

\* The attempt decides the job.
Settle(j, outcome) ==
    /\ status[j] = "running"
    /\ outcome \in {"completed", "failed"}
    /\ status' = [status EXCEPT ![j] = outcome]
    /\ UNCHANGED started

\* Jobs whose last attempt was abandoned fail together.
Exhaust(J) ==
    /\ \A j \in J : status[j] = "running" /\ started[j] = Budget(j)
    /\ status' = [j \in Job |-> IF j \in J THEN "failed" ELSE status[j]]
    /\ UNCHANGED started

\* An operator withdraws a job that no worker has claimed.
Withdraw(j) ==
    /\ status[j] = "pending"
    /\ status' = [status EXCEPT ![j] = "cancelled"]
    /\ UNCHANGED started

LifecycleNext ==
    \/ \E j \in Job :
        \/ Submit(j) \/ Start(j) \/ Requeue(j) \/ Withdraw(j)
        \/ \E outcome \in Settled : Settle(j, outcome)
    \/ \E J \in SUBSET Job : Exhaust(J)

LifecycleSpec == LifecycleInit /\ [][LifecycleNext]_lifecycleVars
=============================================================================
