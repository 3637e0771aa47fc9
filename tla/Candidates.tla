----------------------------- MODULE Candidates -----------------------------
(***************************************************************************)
(* From a discovered URL to an approved source: source_candidates, their   *)
(* validation runs and decisions, and the sources they activate            *)
(* (crates/feed-db/src/validation.rs, sources.rs; the validation handler   *)
(* of crates/feed-jobs/src/lib.rs).  Workers validate and decide on their  *)
(* own, operators decide at any moment between a worker's steps, and an    *)
(* attempt that lost its lease goes on until it notices.                   *)
(***************************************************************************)
EXTENDS Naturals, FiniteSets, FiniteSetsExt

CONSTANTS
    MaxCandidate,    \* candidates are numbered by confidence, the best first
    FeedOf,          \* [candidate -> its company and URL]: one row of sources at most
    CompanyOf,       \* [feed -> company]
    SameUrl,         \* feeds of distinct companies with one URL: {{f, g}, ...}
    IsSitemap,       \* [candidate -> BOOLEAN]: a sitemap, or else RSS/Atom
    Validator,       \* attempts of validation jobs that may be under way at a time
    AutoActivate, TrustAdapter,   \* VALIDATION_AUTO_ACTIVATE, VALIDATION_ACTIVATION_POLICY
    QueueTarget,
    MaxTries,        \* [candidate -> max_attempts of its jobs]
    MaxJobs,         \* bound: validation jobs of all candidates
    MaxLeaseFaults   \* bound: interruptions, and leases that run out under a live handler

ASSUME CandidatesAssumption ==
    /\ MaxCandidate \in Nat \ {0} /\ MaxLeaseFaults \in Nat
    /\ \A c \in 1..MaxCandidate : MaxTries[c] \in Nat

VARIABLES
    candidates,   \* [Candidate -> status]; an accepted one is linked to its feed's source
    feeds,        \* [CandidateFeed -> status of its row in sources]
    decisions,    \* [Candidate -> what its candidate_decisions say of its rejection]
    validations,  \* [Candidate -> latest validation run, and the attempt it belongs to]
    queue,        \* [Candidate -> its latest validation job]
    validators,   \* [Validator -> ValidationAttempt]
    crawlQueue,   \* feeds with a crawl_source job that is pending
    leaseFaults

candidateVars ==
    <<candidates, feeds, decisions, validations, queue, validators, crawlQueue, leaseFaults>>

Candidate == 1..MaxCandidate
CandidateFeed == {FeedOf[c] : c \in Candidate}

\* The attempt of a job: the job's number and the number of the claim, which stands for its token.
ValidationToken == (Nat \ {0}) \X UNION {1..MaxTries[c] : c \in Candidate}
NoValidationToken == <<0, 0>>

ValidationOutcome == {"valid", "needs_review", "out_of_scope", "invalid", "failed"}
NeverValidated == [status |-> "none", token |-> NoValidationToken]

\* Of a run that is over, it only matters whether a rejection may be reconsidered.
ValidationOver(outcome) ==
    [status |-> IF outcome = "out_of_scope" THEN outcome ELSE "finished", token |-> NoValidationToken]
NoValidation == [status |-> "none", token |-> NoValidationToken]

IdleValidator == [at |-> "idle", candidate |-> 1, token |-> NoValidationToken, outcome |-> "valid"]

CandidatesInit ==
    /\ candidates = [c \in Candidate |-> "absent"]
    /\ feeds = [f \in CandidateFeed |-> "none"]
    /\ decisions = [c \in Candidate |-> [automatic |-> FALSE, vetoed |-> FALSE]]
    /\ validations = [c \in Candidate |-> NeverValidated]
    /\ queue = [c \in Candidate |-> NoValidation]
    /\ validators = [v \in Validator |-> IdleValidator]
    /\ crawlQueue = {}
    /\ leaseFaults = 0

-----------------------------------------------------------------------------
\* The validation policy: what is observed of a feed, and what is made of it.

Disqualifying ==
    {"host excluded", "is a sitemap", "items not editorial", "topic compromised", "off scope",
     "covered by an approved feed", "claimed by another company"}
Reassuring == {"official host", "editorial", "preferred locale", "fresh"}
FeedObservation ==
    Disqualifying \cup Reassuring
        \cup {"risky scope", "usable items", "feed title", "adapter recommends"}

StrictPolicyPasses(seen) ==
    /\ Reassuring \subseteq seen
    /\ "usable items" \in seen /\ "risky scope" \notin seen
    /\ seen \cap Disqualifying = {}

TrustedAdapterPasses(seen) ==
    /\ TrustAdapter
    /\ {"adapter recommends", "usable items"} \subseteq seen
    /\ seen \cap Disqualifying = {}

PolicyPasses(seen) == StrictPolicyPasses(seen) \/ TrustedAdapterPasses(seen)

\* out_of_scope is an invalid feed that the operator's command may reconsider.
ReconsiderableScope(seen) ==
    /\ {"off scope", "adapter recommends", "usable items", "feed title"} \subseteq seen
    /\ seen \cap (Disqualifying \ {"off scope", "topic compromised",
                                   "claimed by another company"}) = {}

FeedOutcome(seen) ==
    IF ReconsiderableScope(seen) THEN "out_of_scope"
    ELSE IF seen \cap Disqualifying # {} THEN "invalid"
    ELSE IF PolicyPasses(seen) THEN "valid"
    ELSE IF "usable items" \notin seen THEN "invalid" ELSE "needs_review"

\* What the policy may come to, by whether an approved source of another company claims the URL.
FeedOutcomes ==
    [claimed \in BOOLEAN |->
        {FeedOutcome(seen) : seen \in {s \in SUBSET FeedObservation :
                                          claimed => "claimed by another company" \in s}}]

\* A sitemap needs three dated articles; whatever goes wrong with it may be transient.
SitemapOutcomes == {"valid", "invalid", "failed"}

ClaimedElsewhere(f) == \E g \in CandidateFeed \ {f} : {f, g} \in SameUrl /\ feeds[g] = "approved"

-----------------------------------------------------------------------------
\* The queue of validation jobs.

HasJob(c) == queue[c].status # "none"
ValidationJobs == {c \in Candidate : HasJob(c)}
NewValidation(c) == [status |-> "pending", token |-> <<queue[c].token[1] + 1, 0>>]
JobsSoFar == MapThenSumSet(LAMBDA c : queue[c].token[1], Candidate)
EnqueueValidation(C) ==
    /\ JobsSoFar + Cardinality(C) <= MaxJobs
    /\ queue' = [c \in Candidate |-> IF c \in C THEN NewValidation(c) ELSE queue[c]]

Covered(c) == \E f \in CandidateFeed : CompanyOf[f] = CompanyOf[FeedOf[c]] /\ feeds[f] = "approved"

\* New, never validated, no active job; of a company without an approved source, unless the
\* command includes those or the recipe builder has suggested the candidate.
AwaitsValidation(c, includeCovered) ==
    /\ candidates[c] = "new" /\ validations[c] = NeverValidated /\ ~HasJob(c)
    /\ includeCovered \/ ~Covered(c)

\* The best of each company, and of those as many as there are slots.
RankedFirst(S) == {c \in S : \A d \in S : CompanyOf[FeedOf[d]] = CompanyOf[FeedOf[c]] => c <= d}
RefillValidations(S) ==
    {c \in RankedFirst(S) :
        Cardinality({d \in RankedFirst(S) : d <= c}) + Cardinality(ValidationJobs) <= QueueTarget}

\* enqueue_unvalidated_candidate_jobs, under its advisory lock.
EnqueueUnvalidated(includeCovered) ==
    /\ LET batch == RefillValidations({c \in Candidate : AwaitsValidation(c, includeCovered)})
       IN  batch # {} /\ EnqueueValidation(batch)
    /\ UNCHANGED <<candidates, feeds, decisions, validations, validators, crawlQueue, leaseFaults>>
\* Mutant: an operator's earlier rejection is forgotten.
MayReconsiderVetoed(c) ==
    /\ candidates[c] = "rejected" /\ ~IsSitemap[c]
    /\ validations[c].status = "out_of_scope" /\ ~HasJob(c)

\* The operator's command for rejections that a new policy might not repeat.
MayReconsider(c) ==
    /\ candidates[c] = "rejected" /\ ~IsSitemap[c]
    /\ validations[c].status = "out_of_scope"
    /\ decisions[c].automatic /\ ~decisions[c].vetoed
    /\ ~HasJob(c)

Reconsider ==
    /\ LET batch == RankedFirst({c \in Candidate : MayReconsider(c)})
       IN  /\ batch # {}
           /\ candidates' = [c \in Candidate |-> IF c \in batch THEN "new" ELSE candidates[c]]
           /\ EnqueueValidation(batch)
    /\ UNCHANGED <<feeds, decisions, validations, validators, crawlQueue, leaseFaults>>

-----------------------------------------------------------------------------
\* Decisions: each a transaction that locks the candidate's row first.

\* automatic: the latest one is an automatic rejection; vetoed: an operator ever rejected it.
RecordDecision(c, decision, byOperator) ==
    decisions' = [decisions EXCEPT
        ![c] = [automatic |-> decision = "rejected" /\ ~byOperator,
                vetoed |-> @.vetoed \/ (byOperator /\ decision = "rejected")]]

\* A source that exists under the company and URL is taken as it is.
AcceptCandidate(c, byOperator) ==
    /\ candidates[c] = "new"
    /\ feeds' = [feeds EXCEPT ![FeedOf[c]] = IF @ = "none" THEN "approved" ELSE @]
    /\ candidates' = [candidates EXCEPT ![c] = "accepted"]
    /\ RecordDecision(c, "activated", byOperator)
\* Mutant: the source of an accepted candidate is left as it is.
RejectCandidateOnly(c, byOperator) ==
    /\ candidates[c] \in {"new", "accepted"}
    /\ candidates' = [candidates EXCEPT ![c] = "rejected"]
    /\ RecordDecision(c, "rejected", byOperator)
    /\ UNCHANGED <<feeds, crawlQueue>>

\* Rejecting an accepted candidate disables its source.
RejectCandidate(c, byOperator) ==
    /\ candidates[c] \in {"new", "accepted"}
    /\ IF candidates[c] = "accepted"
       THEN /\ feeds' = [feeds EXCEPT ![FeedOf[c]] = "disabled"]
            /\ crawlQueue' = crawlQueue \ {FeedOf[c]}
       ELSE UNCHANGED <<feeds, crawlQueue>>
    /\ candidates' = [candidates EXCEPT ![c] = "rejected"]
    /\ RecordDecision(c, "rejected", byOperator)

-----------------------------------------------------------------------------
\* The handler, and the runner around it.

HoldsValidation(v) ==
    LET c == validators[v].candidate
    IN  queue[c].status = "running" /\ queue[c].token = validators[v].token

LeaseRunsOut(c) ==
    /\ queue[c].status = "running"
    /\ IF \E v \in Validator : validators[v].candidate = c /\ HoldsValidation(v)
       THEN leaseFaults < MaxLeaseFaults /\ leaseFaults' = leaseFaults + 1
       ELSE UNCHANGED leaseFaults

\* A pending job, or one whose lease ran out before its last attempt.
ClaimValidation(v, c) ==
    /\ validators[v].at = "idle"
    /\ queue[c].token[2] < MaxTries[c]
    /\ \/ queue[c].status = "pending" /\ UNCHANGED leaseFaults
       \/ LeaseRunsOut(c)
    /\ LET token == <<queue[c].token[1], queue[c].token[2] + 1>>
       IN  /\ queue' = [queue EXCEPT ![c] = [status |-> "running", token |-> token]]
           /\ validators' = [validators EXCEPT
                  ![v] = [at |-> "claimed", candidate |-> c, token |-> token,
                          outcome |-> "valid"]]
    /\ UNCHANGED <<candidates, feeds, decisions, validations, crawlQueue>>
\* Mutant: nobody settles a job whose last attempt died.
SweepNothing(c) == FALSE /\ UNCHANGED candidateVars

SweepValidation(c) ==
    /\ LeaseRunsOut(c) /\ queue[c].token[2] = MaxTries[c]
    /\ queue' = [queue EXCEPT ![c].status = "none"]
    /\ UNCHANGED <<candidates, feeds, decisions, validations, validators, crawlQueue>>

ValidatorAt(v, where) ==
    validators' = [validators EXCEPT
        ![v].at = where, ![v].outcome = IF where = "completed" THEN @ ELSE "valid"]
ValidationIsOpen(v) ==
    LET run == validations[validators[v].candidate]
    IN  run.status = "running" /\ run.token = validators[v].token

\* A decided candidate needs nothing; one running validation at most for each candidate.
BeginValidation(v) ==
    LET c == validators[v].candidate
    IN  /\ validators[v].at = "claimed"
        /\ IF candidates[c] # "new"
           THEN ValidatorAt(v, "done") /\ UNCHANGED validations
           ELSE IF validations[c].status = "running"
           THEN ValidatorAt(v, "error") /\ UNCHANGED validations
           ELSE /\ validations' = [validations EXCEPT
                        ![c] = [status |-> "running", token |-> validators[v].token]]
                /\ ValidatorAt(v, "begun")
        /\ UNCHANGED <<candidates, feeds, decisions, queue, crawlQueue, leaseFaults>>

\* The feed is fetched and judged; claims of other companies are read at this moment.
JudgeFeed(v) ==
    LET c == validators[v].candidate
    IN  /\ validators[v].at = "begun"
        /\ \E outcome \in IF IsSitemap[c] THEN SitemapOutcomes
                          ELSE FeedOutcomes[ClaimedElsewhere(FeedOf[c])] \cup {"invalid", "failed"} :
               validators' = [validators EXCEPT ![v].at = "judged", ![v].outcome = outcome]
        /\ UNCHANGED <<candidates, feeds, decisions, validations, queue, crawlQueue, leaseFaults>>

\* complete_candidate_validation_run, of a run that still runs.
CompleteValidation(v) ==
    LET c == validators[v].candidate
    IN  /\ validators[v].at = "judged"
        /\ IF ValidationIsOpen(v)
           THEN /\ validations' = [validations EXCEPT ![c] = ValidationOver(validators[v].outcome)]
                /\ ValidatorAt(v, IF validators[v].outcome = "failed" THEN "error" ELSE "completed")
           ELSE ValidatorAt(v, "error") /\ UNCHANGED validations
        /\ UNCHANGED <<candidates, feeds, decisions, queue, crawlQueue, leaseFaults>>

\* The automatic decision.  An accept finds the candidate accepted, or rejected by now.
Activate(v) ==
    LET c == validators[v].candidate
    IN  /\ validators[v].at = "completed"
        /\ validators[v].outcome = "valid" /\ AutoActivate
        /\ \/ AcceptCandidate(c, FALSE) /\ ValidatorAt(v, "activated")
           \/ /\ candidates[c] # "new"
              /\ ValidatorAt(v, IF candidates[c] = "accepted" THEN "activated" ELSE "error")
              /\ UNCHANGED <<candidates, feeds, decisions>>
        /\ UNCHANGED <<validations, queue, crawlQueue, leaseFaults>>

Refuse(v) ==
    LET c == validators[v].candidate
    IN  /\ validators[v].at = "completed"
        /\ validators[v].outcome \in {"invalid", "out_of_scope"}
        /\ \/ RejectCandidate(c, FALSE) /\ ValidatorAt(v, "done")
           \/ /\ candidates[c] = "rejected" /\ ValidatorAt(v, "error")
              /\ UNCHANGED <<candidates, feeds, decisions, crawlQueue>>
        /\ UNCHANGED <<validations, queue, leaseFaults>>

KeepForReview(v) ==
    LET c == validators[v].candidate
    IN  /\ validators[v].at = "completed"
        /\ \/ validators[v].outcome = "needs_review"
           \/ validators[v].outcome = "valid" /\ ~AutoActivate
        /\ IF candidates[c] = "new"
           THEN RecordDecision(c, "kept_for_review", FALSE) /\ ValidatorAt(v, "done")
           ELSE ValidatorAt(v, "error") /\ UNCHANGED decisions
        /\ UNCHANGED <<candidates, feeds, validations, queue, crawlQueue, leaseFaults>>

\* The first crawl is queued in a transaction of its own.
EnqueueFirstCrawl(v) ==
    /\ validators[v].at = "activated"
    /\ crawlQueue' = crawlQueue \cup {FeedOf[validators[v].candidate]}
    /\ ValidatorAt(v, "done")
    /\ UNCHANGED <<candidates, feeds, decisions, validations, queue, leaseFaults>>

\* Shutdown, timeout or a database error: the handler is left where it is.
InterruptValidation(v) ==
    /\ validators[v].at \notin {"idle", "error", "closed"}
    /\ leaseFaults < MaxLeaseFaults
    /\ leaseFaults' = leaseFaults + 1
    /\ ValidatorAt(v, "error")
    /\ UNCHANGED <<candidates, feeds, decisions, validations, queue, crawlQueue>>

\* The runner closes the job's open run, whoever opened it, while it holds the lease.
CancelRun(v) ==
    LET c == validators[v].candidate
    IN  /\ validators[v].at = "error"
        /\ IF /\ HoldsValidation(v) /\ validations[c].status = "running"
              /\ validations[c].token[1] = validators[v].token[1]
           THEN validations' = [validations EXCEPT ![c] = ValidationOver("cancelled")]
           ELSE UNCHANGED validations
        /\ ValidatorAt(v, "closed")
        /\ UNCHANGED <<candidates, feeds, decisions, queue, crawlQueue, leaseFaults>>

\* The job is completed, or retried while it has attempts left; under the token it was claimed with.
SettleValidation(v) ==
    LET c == validators[v].candidate
        again == validators[v].at = "closed" /\ validators[v].token[2] < MaxTries[c]
    IN  /\ validators[v].at \in {"done", "closed"}
        /\ IF HoldsValidation(v)
           THEN queue' = [queue EXCEPT ![c].status = IF again THEN "pending" ELSE "none"]
           ELSE UNCHANGED queue
        /\ validators' = [validators EXCEPT ![v] = IdleValidator]
        /\ UNCHANGED <<candidates, feeds, decisions, validations, crawlQueue, leaseFaults>>

ValidatorCrash(v) ==
    /\ validators[v].at # "idle"
    /\ leaseFaults < MaxLeaseFaults
    /\ leaseFaults' = leaseFaults + 1
    /\ validators' = [validators EXCEPT ![v] = IdleValidator]
    /\ UNCHANGED <<candidates, feeds, decisions, validations, queue, crawlQueue>>

-----------------------------------------------------------------------------
\* complete_discovery_run adds a candidate; one that is known keeps its status.
DiscoverCandidate(c) ==
    /\ candidates[c] = "absent"
    /\ candidates' = [candidates EXCEPT ![c] = "new"]
    /\ UNCHANGED <<feeds, decisions, validations, queue, validators, crawlQueue, leaseFaults>>

OperatorValidates(c) ==
    /\ candidates[c] = "new" /\ ~IsSitemap[c] /\ ~HasJob(c)
    /\ EnqueueValidation({c})
    /\ UNCHANGED <<candidates, feeds, decisions, validations, validators, crawlQueue, leaseFaults>>

OperatorActivates(c) ==
    /\ AcceptCandidate(c, TRUE)
    /\ UNCHANGED <<validations, queue, validators, crawlQueue, leaseFaults>>

OperatorRejects(c) ==
    /\ RejectCandidate(c, TRUE)
    /\ UNCHANGED <<validations, queue, validators, leaseFaults>>

\* A worker claims the crawl.
CrawlLeavesQueue(f) ==
    /\ f \in crawlQueue
    /\ crawlQueue' = crawlQueue \ {f}
    /\ UNCHANGED <<candidates, feeds, decisions, validations, queue, validators, leaseFaults>>

ValidatorStep(v) ==
    \/ BeginValidation(v) \/ JudgeFeed(v) \/ CompleteValidation(v)
    \/ Activate(v) \/ Refuse(v) \/ KeepForReview(v) \/ EnqueueFirstCrawl(v)
    \/ CancelRun(v) \/ SettleValidation(v)

OperatorStep(c) == OperatorValidates(c) \/ OperatorActivates(c) \/ OperatorRejects(c)

CandidatesNext ==
    \/ \E includeCovered \in BOOLEAN : EnqueueUnvalidated(includeCovered)
    \/ Reconsider
    \/ \E v \in Validator : ValidatorStep(v) \/ InterruptValidation(v) \/ ValidatorCrash(v)
    \/ \E v \in Validator, c \in Candidate : ClaimValidation(v, c)
    \/ \E c \in Candidate : SweepValidation(c) \/ DiscoverCandidate(c) \/ OperatorStep(c)
    \/ \E f \in CandidateFeed : CrawlLeavesQueue(f)

CandidatesSpec == CandidatesInit /\ [][CandidatesNext]_candidateVars

\* The producer's scan, claims and sweeps of the workers, and handlers that come to an end.
ClaimAny(v) == \E c \in Candidate : ClaimValidation(v, c)
FairCandidatesSpec ==
    /\ CandidatesSpec
    /\ WF_candidateVars(EnqueueUnvalidated(FALSE))
    /\ \A v \in Validator : WF_candidateVars(ValidatorStep(v)) /\ WF_candidateVars(ClaimAny(v))
    /\ \A c \in Candidate : WF_candidateVars(SweepValidation(c))

-----------------------------------------------------------------------------
ValidationAttempt == [at : {"idle", "claimed", "begun", "judged", "completed", "activated", "done",
                  "error", "closed"},
            candidate : Candidate, token : ValidationToken \cup {NoValidationToken}, outcome : ValidationOutcome]
ValidationJob == [status : {"none", "pending", "running"}, token : Nat \X Nat]
ValidationRow == [status : {"none", "running", "out_of_scope", "finished"},
                  token : ValidationToken \cup {NoValidationToken}]
Decision == [automatic : BOOLEAN, vetoed : BOOLEAN]

CandidatesTypeOK ==
    /\ candidates \in [Candidate -> {"absent", "new", "accepted", "rejected"}]
    /\ feeds \in [CandidateFeed -> {"none", "approved", "disabled"}]
    /\ decisions \in [Candidate -> Decision]
    /\ validations \in [Candidate -> ValidationRow]
    /\ queue \in [Candidate -> ValidationJob]
    /\ validators \in [Validator -> ValidationAttempt]
    /\ crawlQueue \subseteq CandidateFeed
    /\ leaseFaults \in 0..MaxLeaseFaults

(* An operator's rejection is final: no validation that is under way, retried after a crash or
   queued by the reconsideration of automatic rejections accepts the candidate again
   (accept_source_candidate_with_decision, reconsider_automatically_rejected_scope_candidates). *)
VetoIsFinal == \A c \in Candidate : decisions[c].vetoed => candidates[c] = "rejected"

(* A source is approved only as long as a candidate of its company and URL is accepted, in every
   order of activations, rejections and reconsiderations; another candidate of the same feed
   may have been accepted with it. *)
ApprovedHasCandidate ==
    \A f \in CandidateFeed : feeds[f] = "approved" =>
        \E c \in Candidate : FeedOf[c] = f /\ candidates[c] = "accepted"

(* A new candidate of a company without a source is validated or decided sooner or later,
   whatever becomes of the candidates ranked before it and of the attempts at them
   (enqueue_unvalidated_candidate_jobs takes the best of each company, as long as the queue's
   target leaves room).  The bound on the jobs must not be what stops the producer. *)
Unheard(c) == candidates[c] = "new" /\ validations[c] = NeverValidated /\ ~Covered(c)
EveryCandidateHasItsTurn ==
    \A c \in Candidate : Unheard(c) ~> (~Unheard(c) \/ JobsSoFar = MaxJobs)
=============================================================================
