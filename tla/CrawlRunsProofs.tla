--------------------------- MODULE CrawlRunsProofs ---------------------------
(***************************************************************************)
(* The audit records of crawl attempts, for every number of runners, jobs  *)
(* and attempts: CrawlRuns refines JobQueue, a closed record is final and  *)
(* a completed job has the result of the attempt that completed it.        *)
(*                                                                         *)
(* None of the handler's statements but the cleanup looks at the lease, so *)
(* the argument does not rest on it.  It rests on two facts: an attempt    *)
(* number is handed out once (DistinctAttempts, UnopenedRuns), so that the *)
(* run a handler opens is new; and what a transaction found running stays  *)
(* running until it commits (LocksExclusive, LockedAreRunning), so that a  *)
(* commit never overwrites what somebody else closed.                      *)
(*                                                                         *)
(* That a job has one open record of each kind does rest on the lease: if  *)
(* heartbeats are timely a polled handler holds its job, so that between   *)
(* the reads of begin_crawl_run, and between the two reads of a cleanup,   *)
(* nobody else opens a record of the job (TimelyInv, HolderSees).          *)
(***************************************************************************)
EXTENDS CrawlRuns, JobAttemptsProofs

\* Attempts that no claim has started have left no record.
UnopenedRuns ==
    \A r \in Run :
        r[2] > jobs[JobOf(r)].attempts => crawlRuns[r] = "none" /\ recipeRuns[r].status = "none"

\* Two transactions can be open in one runner: its handler's and its own.
Owner == {"handler", "cleanup"}
Txn(o, w) == IF o = "handler" THEN handlers[w] ELSE cleanups[w]
HasLocked(o, w, row) == row \in LockedRows(Txn(o, w))

LocksExclusive ==
    \A o, p \in Owner : \A v, w \in Worker : \A row \in Row :
        HasLocked(o, v, row) /\ HasLocked(p, w, row) => o = p /\ v = w

LockedAreRunning ==
    \A o \in Owner : \A w \in Worker : \A row \in Row : HasLocked(o, w, row) => StillRunning(row)

\* The recipe run the handler was given, and the results a crawl can have.
GivenRun(w) == <<workers[w].job, handlers[w].recipeRun>>
Result == {"completed", "failed"}
VerdictFor(j) == \E r \in Run : JobOf(r) = j /\ recipeRuns[r].status = "decided"

\* What a handler knows at each of its steps.
HandlerInv(w) ==
    LET h == handlers[w] IN
    /\ h.step \in {"start", "superseding", "widening", "opening"} =>
           crawlRuns[RunOf(w)] = "none" /\ recipeRuns[RunOf(w)].status = "none"
    /\ h.step = "preparing" => recipeRuns[RunOf(w)].status = "none"
    /\ h.step = "closing" => h.rows = {<<"crawl", RunOf(w)>>}
    /\ h.step = "deciding" => h.rows = {<<"recipe", GivenRun(w)>>}
    /\ h.step \in {"closing", "closed", "deciding"} => h.outcome \in Result
    /\ h.step \in {"closed", "deciding"} => h.recipe
    /\ h.recipe /\ h.step \in {"crawling", "closing", "closed", "deciding"} => GivenRun(w) \in Run
    /\ h.step \in {"closed", "deciding", "returned"} /\ h.outcome \in Result =>
           crawlRuns[RunOf(w)] = h.outcome
    /\ h.step = "returned" /\ h.recipe /\ h.outcome \in Result => VerdictFor(workers[w].job)

\* A runner whose handler succeeded has the attempt's result on record.
HasResult(r) == \/ crawlRuns[r] = "completed"
                \/ crawlRuns[r] = "failed" /\ VerdictFor(JobOf(r))

SuccessHasResult == \A w \in Worker : workers[w].pc = "succeeded" => HasResult(RunOf(w))

CrawlInv ==
    /\ QueueInv /\ CrawlTypeOK /\ DistinctAttempts /\ UnopenedRuns
    /\ LocksExclusive /\ LockedAreRunning
    /\ (\A w \in Worker : HandlerInv(w)) /\ SuccessHasResult

-----------------------------------------------------------------------------
(* Every step is a step of the queue or leaves the queue alone. *)

LEMMA CrawlStepIsQueueStep == ASSUME [CrawlNext]_crawlVars PROVE [QueueNext]_queueVars
<1>1. CASE UNCHANGED crawlVars
  BY <1>1 DEF crawlVars
<1>2. CASE Around
  BY <1>2 DEF Around, QueueNext
<1>3. CASE \E w \in Worker : CrawlStep(w)
  <2> PICK w \in Worker : CrawlStep(w)
    BY <1>3
  <2> SUFFICES Step(w) \/ UNCHANGED queueVars
    BY DEF QueueNext
  <2>1. CASE QueueOnly(w) \/ ClaimCrawl(w) \/ Finish(w) \/ CrashCrawl(w)
    BY <2>1 DEF QueueOnly, ClaimCrawl, Finish, CrashCrawl, Step
  <2>2. CASE HandlerStepOf(w)
    BY <2>2 DEF HandlerStepOf, FindAbandoned, LockRecipeRuns, LockCrawlRuns, OpenRun,
                BeginRecipeRun, CloseCrawl, CommitCrawl, DecideRecipe, CommitRecipe, LockToClose
  <2>3. CASE Returns(w) \/ DatabaseFails(w)
    BY <2>3 DEF Returns, Succeeds, ReturnsError, DatabaseFails, FailAny, Retry, Step
  <2>4. CASE CleanUp(w)
    BY <2>4 DEF CleanUp, FindRecipeRuns, FindCrawlRuns, CancelCrawlRuns, Step
  <2> QED
    BY <2>1, <2>2, <2>3, <2>4 DEF CrawlStep
<1> QED
  BY <1>1, <1>2, <1>3 DEF CrawlNext

\* The crawl handler, its audit records and its cleanup never do to the queue what
\* the queue's own specification does not allow: all its theorems carry over.
THEOREM CrawlRefinesQueue == CrawlSpec => QueueSpec
<1>1. CrawlInit => QueueInit
  BY DEF CrawlInit
<1> QED
  BY <1>1, CrawlStepIsQueueStep, PTL DEF CrawlSpec, QueueSpec

\* Nor to the attempts: the crawl handler under its runner implements JobAttempts, on
\* which the other handlers are built.
THEOREM CrawlRefinesAttempts ==
    ASSUME Timely => MaxStale + Heartbeat < Lease
    PROVE  CrawlSpec => ImplementsAttempts
BY CrawlRefinesQueue, QueueRefinesAttempts, PTL

-----------------------------------------------------------------------------
(* What one runner's step can do to the records *)

OnlyLockedBy(o, w, row) ==
    \A p \in Owner, v \in Worker : HasLocked(p, v, row) => p = o /\ v = w

\* The handler of w opens its own run, or one of the two transactions of w changes
\* rows that no other one has locked.
RecordFate(o, w) ==
    \A r \in Run :
        /\ \/ crawlRuns'[r] = crawlRuns[r]
           \/ /\ crawlRuns[r] = "none" /\ crawlRuns'[r] = "running"
              /\ r = RunOf(w) /\ o = "handler" /\ handlers[w].step = "opening"
           \/ /\ crawlRuns[r] = "running" /\ crawlRuns'[r] \in ClosedCrawl
              /\ OnlyLockedBy(o, w, <<"crawl", r>>)
        /\ \/ recipeRuns'[r] = recipeRuns[r]
           \/ /\ recipeRuns[r].status = "none" /\ recipeRuns'[r].status = "running"
              /\ r = RunOf(w) /\ o = "handler" /\ handlers[w].step = "preparing"
           \/ recipeRuns[r].status = "running" /\ recipeRuns'[r].status = "running"
           \/ /\ recipeRuns[r].status = "running"
              /\ recipeRuns'[r].status \in {"decided", "cancelled"}
              /\ OnlyLockedBy(o, w, <<"recipe", r>>)

RecordTypeOK == crawlRuns \in [Run -> CrawlStatus] /\ recipeRuns \in [Run -> RecipeRun]

LEMMA RunType ==
    /\ \A r \in Run : JobOf(r) \in Job /\ r[2] \in Nat /\ r = <<JobOf(r), r[2]>>
    /\ \A j \in Job : \A n \in 1..Budget(j) : <<j, n>> \in Run
    /\ \A row \in Row : row[2] \in Run /\ row = <<row[1], row[2]>> /\ row[1] \in {"crawl", "recipe"}
    /\ \A r \in Run : <<"crawl", r>> \in Row /\ <<"recipe", r>> \in Row
<1>1. \A r \in Run : \E j \in Job : r \in {j} \X (1..Budget(j))
  BY DEF Run
<1> QED
  BY <1>1, BudgetType DEF Run, JobOf, Row

LEMMA CrawlFacts ==
    ASSUME CrawlInv
    PROVE  /\ jobs \in [Job -> JobRow] /\ workers \in [Worker -> Runner]
           /\ RecordTypeOK /\ handlers \in [Worker -> Handler] /\ cleanups \in [Worker -> Cleanup]
           /\ \A w \in Worker : handlers[w].step # "none" =>
                  workers[w].pc \in Holding /\ RunOf(w) \in Run /\ workers[w].job \in Job
BY DEF CrawlInv, CrawlTypeOK, QueueInv, QueueTypeOK, RecordTypeOK

LEMMA StepElsewhere ==
    ASSUME NEW w \in Worker, Step(w), workers \in [Worker -> Runner]
    PROVE  \A v \in Worker : v # w => workers'[v] = workers[v]
<1>1. CASE ClaimAny(w) \/ ClaimNothing(w) \/ Sweep(w) \/ Renew(w) \/ LoseLease(w)
  BY <1>1 DEF ClaimAny, Claim, ClaimNothing, Sweep, Renew, LoseLease, Goto
<1>2. CASE HandlerSucceeds(w) \/ FailAny(w) \/ ShutDown(w) \/ CancelRuns(w)
  BY <1>2 DEF HandlerSucceeds, FailAny, HandlerFails, ShutDown, CancelRuns, Goto
<1>3. CASE \/ Complete(w) \/ LockForFailure(w) \/ LeaseError(w) \/ RecordFailure(w)
           \/ Crash(w) \/ Restart(w)
  BY <1>3 DEF Complete, LockForFailure, LeaseError, RecordFailure, Crash, Restart, Goto
<1> QED
  BY <1>1, <1>2, <1>3 DEF Step

LEMMA QuietRecords ==
    ASSUME CrawlInv, UNCHANGED recordVars, NEW o, NEW w
    PROVE  RecordFate(o, w) /\ RecordTypeOK'
BY CrawlFacts DEF recordVars, RecordFate, RecordTypeOK

\* Closing rows that were running and that nobody else has locked.
LEMMA CancelledRecords ==
    ASSUME CrawlInv, NEW o \in Owner, NEW w \in Worker, NEW rows \in SUBSET Row, CancelRows(rows),
           \A row \in rows : StillRunning(row) /\ OnlyLockedBy(o, w, row)
    PROVE  RecordFate(o, w) /\ RecordTypeOK'
<1>1. RecordTypeOK
  BY CrawlFacts
<1>2. \A r \in Run : /\ <<"crawl", r>> \in rows => crawlRuns[r] = "running"
                     /\ <<"recipe", r>> \in rows => recipeRuns[r].status = "running"
  BY DEF StillRunning
<1>3. \A r \in Run : /\ crawlRuns'[r] = IF <<"crawl", r>> \in rows THEN "cancelled" ELSE crawlRuns[r]
                     /\ recipeRuns'[r] = IF <<"recipe", r>> \in rows
                                         THEN [recipeRuns[r] EXCEPT !.status = "cancelled"]
                                         ELSE recipeRuns[r]
  BY DEF CancelRows, CrawlsCancelled, RecipesCancelled
<1>4. \A r \in Run : <<"recipe", r>> \in rows => recipeRuns'[r].status = "cancelled"
  BY <1>1, <1>3 DEF RecordTypeOK, RecipeRun
<1>5. RecordFate(o, w)
  BY <1>2, <1>3, <1>4 DEF RecordFate, ClosedCrawl
<1>6. RecordTypeOK'
  BY <1>1 DEF CancelRows, CrawlsCancelled, RecipesCancelled, RecordTypeOK, CrawlStatus,
              RecipeStatus, RecipeRun
<1> QED
  BY <1>5, <1>6

LEMMA LockedFacts ==
    ASSUME CrawlInv, NEW o \in Owner, NEW w \in Worker
    PROVE  /\ Txn(o, w).rows \in SUBSET Row
           /\ \A row \in LockedRows(Txn(o, w)) :
                row \in Row /\ StillRunning(row) /\ OnlyLockedBy(o, w, row)
<1>1. Txn(o, w).rows \in SUBSET Row
  BY CrawlFacts DEF Txn, Handler, Cleanup, Owner
<1>2. \A row \in LockedRows(Txn(o, w)) : row \in Row /\ HasLocked(o, w, row)
  BY <1>1 DEF LockedRows, HasLocked
<1> QED
  BY <1>1, <1>2 DEF CrawlInv, LockedAreRunning, LocksExclusive, OnlyLockedBy

LEMMA OpenRunRecords ==
    ASSUME CrawlInv, NEW w \in Worker, OpenRun(w)
    PROVE  RecordFate("handler", w) /\ RecordTypeOK'
<1> DEFINE rows == handlers[w].rows
<1>1. handlers[w].step = "opening" /\ RunOf(w) \in Run /\ RecordTypeOK
  BY CrawlFacts DEF OpenRun, At
<1>2. crawlRuns[RunOf(w)] = "none"
  BY <1>1 DEF CrawlInv, HandlerInv
<1>3. /\ rows \in SUBSET Row
      /\ \A row \in rows : StillRunning(row) /\ OnlyLockedBy("handler", w, row)
  BY <1>1, LockedFacts DEF LockingStep, LockedRows, Txn, Owner
<1>4. \A r \in Run : /\ <<"crawl", r>> \in rows => crawlRuns[r] = "running"
                     /\ <<"recipe", r>> \in rows => recipeRuns[r].status = "running"
  BY <1>3 DEF StillRunning
<1>5. \A r \in Run : /\ r = RunOf(w) => crawlRuns'[r] = "running"
                     /\ r # RunOf(w) => crawlRuns'[r] = IF <<"crawl", r>> \in rows
                                                        THEN "cancelled" ELSE crawlRuns[r]
                     /\ recipeRuns'[r] = IF <<"recipe", r>> \in rows
                                         THEN [recipeRuns[r] EXCEPT !.status = "cancelled"]
                                         ELSE recipeRuns[r]
  BY DEF OpenRun, CrawlsCancelled, RecipesCancelled
<1>6. \A r \in Run : <<"recipe", r>> \in rows => recipeRuns'[r].status = "cancelled"
  BY <1>1, <1>5 DEF RecordTypeOK, RecipeRun
<1>7. RecordFate("handler", w)
  BY <1>1, <1>2, <1>3, <1>4, <1>5, <1>6 DEF RecordFate, ClosedCrawl
<1>8. RecordTypeOK'
  <2>1. crawlRuns' \in [Run -> CrawlStatus]
    BY <1>1 DEF OpenRun, CrawlsCancelled, RecordTypeOK, CrawlStatus
  <2>2. recipeRuns' \in [Run -> RecipeRun]
    BY <1>1 DEF OpenRun, RecipesCancelled, RecordTypeOK, RecipeStatus, RecipeRun
  <2> QED
    BY <2>1, <2>2 DEF RecordTypeOK
<1> QED
  BY <1>7, <1>8

LEMMA BeginRecipeRunRecords ==
    ASSUME CrawlInv, NEW w \in Worker, BeginRecipeRun(w)
    PROVE  RecordFate("handler", w) /\ RecordTypeOK'
<1>1. /\ handlers[w].step = "preparing" /\ RunOf(w) \in Run /\ RecordTypeOK
      /\ workers[w].token \in Nat
  BY CrawlFacts DEF BeginRecipeRun, At, Runner
<1>2. recipeRuns[RunOf(w)].status = "none"
  BY <1>1 DEF CrawlInv, HandlerInv
<1>3. PICK r \in Run :
        /\ r = RunOf(w) \/ recipeRuns[r].status = "running"
        /\ recipeRuns' = [recipeRuns EXCEPT
                            ![r] = [status |-> "running", crawlRun |-> workers[w].token]]
  BY <1>1 DEF BeginRecipeRun
<1>4. UNCHANGED crawlRuns
  BY DEF BeginRecipeRun
<1>5. /\ recipeRuns' \in [Run -> RecipeRun] /\ recipeRuns'[r].status = "running"
      /\ \A q \in Run : q # r => recipeRuns'[q] = recipeRuns[q]
  BY <1>1, <1>3 DEF RecordTypeOK, RecipeRun, RecipeStatus
<1>6. RecordFate("handler", w)
  BY <1>1, <1>2, <1>3, <1>4, <1>5 DEF RecordFate
<1> QED
  BY <1>1, <1>4, <1>5, <1>6 DEF RecordTypeOK

LEMMA CommitCrawlRecords ==
    ASSUME CrawlInv, NEW w \in Worker, CommitCrawl(w)
    PROVE  /\ RecordFate("handler", w) /\ RecordTypeOK'
           /\ crawlRuns'[RunOf(w)] = handlers[w].outcome
<1>1. handlers[w].step = "closing" /\ RunOf(w) \in Run /\ RecordTypeOK
  BY CrawlFacts DEF CommitCrawl, At
<1>2. handlers[w].rows = {<<"crawl", RunOf(w)>>} /\ handlers[w].outcome \in Result
  BY <1>1 DEF CrawlInv, HandlerInv
<1>3. StillRunning(<<"crawl", RunOf(w)>>) /\ OnlyLockedBy("handler", w, <<"crawl", RunOf(w)>>)
  BY <1>1, <1>2, LockedFacts DEF LockedRows, LockingStep, Txn, Owner
<1>4. crawlRuns[RunOf(w)] = "running"
  BY <1>3 DEF StillRunning
<1>5. /\ crawlRuns' \in [Run -> CrawlStatus] /\ crawlRuns'[RunOf(w)] = handlers[w].outcome
      /\ \A q \in Run : q # RunOf(w) => crawlRuns'[q] = crawlRuns[q]
  BY <1>1, <1>2 DEF CommitCrawl, RecordTypeOK, CrawlStatus, Result
<1>6. UNCHANGED recipeRuns
  BY DEF CommitCrawl
<1>7. RecordFate("handler", w)
  BY <1>2, <1>3, <1>4, <1>5, <1>6 DEF RecordFate, ClosedCrawl, Result
<1> QED
  BY <1>1, <1>5, <1>6, <1>7 DEF RecordTypeOK

LEMMA CommitRecipeRecords ==
    ASSUME CrawlInv, NEW w \in Worker, CommitRecipe(w)
    PROVE  /\ RecordFate("handler", w) /\ RecordTypeOK'
           /\ GivenRun(w) \in Run /\ recipeRuns'[GivenRun(w)].status = "decided"
<1>1. handlers[w].step = "deciding" /\ RecordTypeOK
  BY CrawlFacts DEF CommitRecipe, At
<1>2. handlers[w].rows = {<<"recipe", GivenRun(w)>>} /\ GivenRun(w) \in Run
  BY <1>1 DEF CrawlInv, HandlerInv
<1>3. StillRunning(<<"recipe", GivenRun(w)>>) /\ OnlyLockedBy("handler", w, <<"recipe", GivenRun(w)>>)
  BY <1>1, <1>2, LockedFacts DEF LockedRows, LockingStep, Txn, Owner
<1>4. recipeRuns[GivenRun(w)].status = "running"
  BY <1>3 DEF StillRunning
<1>5. recipeRuns' = [recipeRuns EXCEPT ![GivenRun(w)].status = "decided"]
  BY DEF CommitRecipe, GivenRun
<1>6. /\ recipeRuns' \in [Run -> RecipeRun] /\ recipeRuns'[GivenRun(w)].status = "decided"
      /\ \A q \in Run : q # GivenRun(w) => recipeRuns'[q] = recipeRuns[q]
  BY <1>1, <1>2, <1>5 DEF RecordTypeOK, RecipeRun, RecipeStatus
<1>7. UNCHANGED crawlRuns
  BY DEF CommitRecipe
<1>8. RecordFate("handler", w)
  BY <1>3, <1>4, <1>6, <1>7 DEF RecordFate
<1> QED
  BY <1>1, <1>2, <1>6, <1>7, <1>8 DEF RecordTypeOK

LEMMA CancelCrawlRunsRecords ==
    ASSUME CrawlInv, NEW w \in Worker, CancelCrawlRuns(w)
    PROVE  RecordFate("cleanup", w) /\ RecordTypeOK'
<1> DEFINE rows == StillRunningOf(cleanups[w].rows)
<1>1. cleanups[w].step = "widening"
  BY DEF CancelCrawlRuns
<1>2. rows \in SUBSET Row /\ \A row \in rows : StillRunning(row)
  BY CrawlFacts DEF StillRunningOf, Cleanup
<1>3. \A row \in rows : OnlyLockedBy("cleanup", w, row)
  <2> SUFFICES ASSUME NEW row \in rows PROVE OnlyLockedBy("cleanup", w, row)
    OBVIOUS
  <2>1. CASE row[1] = "recipe"
    <3>1. row \in LockedRows(Txn("cleanup", w))
      BY <1>1, <2>1 DEF StillRunningOf, LockedRows, Txn
    <3> QED
      BY <3>1, LockedFacts DEF Owner
  <2>2. CASE row[1] = "crawl"
    <3>1. ~RowLocked(row)
      BY <2>2 DEF CancelCrawlRuns, Free, CrawlRowsOf, StillRunningOf
    <3> QED
      BY <3>1 DEF RowLocked, OnlyLockedBy, HasLocked, Txn, Owner
  <2> QED
    BY <1>2, <2>1, <2>2, RunType
<1>4. CancelRows(rows)
  BY DEF CancelCrawlRuns
<1> QED
  BY <1>2, <1>3, <1>4, CancelledRecords DEF Owner

-----------------------------------------------------------------------------
(* What a step leaves intact *)

LEMMA LocksStep ==
    ASSUME CrawlInv, NEW o \in Owner, NEW w \in Worker, RecordFate(o, w),
           \A p \in Owner : \A v \in Worker : \A row \in Row :
               (p # o \/ v # w) /\ HasLocked(p, v, row)' => HasLocked(p, v, row),
           \A row \in Row :
               HasLocked(o, w, row)' =>
                   StillRunning(row)' /\ (HasLocked(o, w, row) \/ ~RowLocked(row))
    PROVE  LocksExclusive' /\ LockedAreRunning'
<1>1. \A p \in Owner : \A v \in Worker : \A row \in Row : HasLocked(p, v, row) => RowLocked(row)
  BY DEF HasLocked, Txn, RowLocked, Owner
<1>2. LocksExclusive'
  BY <1>1 DEF CrawlInv, LocksExclusive
<1>3. LockedAreRunning'
  <2> SUFFICES ASSUME NEW p \in Owner, NEW v \in Worker, NEW row \in Row,
                      p # o \/ v # w, HasLocked(p, v, row)'
               PROVE  StillRunning(row)'
    BY DEF LockedAreRunning
  <2>1. HasLocked(p, v, row) /\ StillRunning(row)
    BY DEF CrawlInv, LockedAreRunning
  <2>2. ~OnlyLockedBy(o, w, row)
    BY <2>1 DEF OnlyLockedBy
  <2>3. row[2] \in Run /\ row = <<row[1], row[2]>> /\ row[1] \in {"crawl", "recipe"}
    BY RunType
  <2>4. CASE row[1] = "crawl"
    <3>1. crawlRuns[row[2]] = "running"
      BY <2>1, <2>4 DEF StillRunning
    <3>2. row[2] \in Run /\ ~OnlyLockedBy(o, w, <<"crawl", row[2]>>)
      BY <2>2, <2>3, <2>4
    <3>3. crawlRuns'[row[2]] = "running"
      BY <3>1, <3>2 DEF RecordFate
    <3> QED
      BY <2>4, <3>3 DEF StillRunning
  <2>5. CASE row[1] = "recipe"
    <3>1. recipeRuns[row[2]].status = "running"
      BY <2>1, <2>5 DEF StillRunning
    <3>2. row[2] \in Run /\ ~OnlyLockedBy(o, w, <<"recipe", row[2]>>)
      BY <2>2, <2>3, <2>5
    <3>3. recipeRuns'[row[2]].status = "running"
      BY <3>1, <3>2 DEF RecordFate
    <3> QED
      BY <2>5, <3>3 DEF StillRunning
  <2> QED
    BY <2>3, <2>4, <2>5
<1> QED
  BY <1>2, <1>3

LEMMA ClosedStays ==
    ASSUME NEW o, NEW w, RecordFate(o, w), NEW r \in Run
    PROVE  /\ crawlRuns[r] \in ClosedCrawl => crawlRuns'[r] = crawlRuns[r]
           /\ recipeRuns[r].status \in {"decided", "cancelled"} => recipeRuns'[r] = recipeRuns[r]
BY DEF RecordFate, ClosedCrawl

LEMMA ResultStays ==
    ASSUME NEW o, NEW w, RecordFate(o, w)
    PROVE  /\ \A j : VerdictFor(j) => VerdictFor(j)'
           /\ \A r \in Run : HasResult(r) => HasResult(r)'
<1>1. \A j : VerdictFor(j) => VerdictFor(j)'
  BY ClosedStays DEF VerdictFor
<1> QED
  BY <1>1, ClosedStays DEF HasResult, ClosedCrawl

LEMMA HandlerKept ==
    ASSUME CrawlInv, NEW o \in Owner, NEW w \in Worker, RecordFate(o, w),
           NEW v \in Worker, o # "handler" \/ v # w,
           handlers'[v] = handlers[v],
           handlers[v].step # "none" =>
               workers'[v].job = workers[v].job /\ workers'[v].token = workers[v].token
    PROVE  HandlerInv(v)'
<1>1. CASE handlers[v].step = "none"
  BY <1>1 DEF HandlerInv, LockingStep
<1>2. CASE handlers[v].step # "none"
  <2>1. /\ RunOf(v) \in Run /\ workers[v].pc \in Holding
        /\ RunOf(v)' = RunOf(v) /\ GivenRun(v)' = GivenRun(v) /\ workers'[v].job = workers[v].job
    BY <1>2, CrawlFacts DEF RunOf, GivenRun
  <2>2. o = "handler" /\ handlers[w].step # "none" => RunOf(v) # RunOf(w)
    BY <2>1, CrawlFacts DEF CrawlInv, DistinctAttempts, AttemptOf, RunOf
  <2>3. HandlerInv(v)
    BY DEF CrawlInv
  <2>4. crawlRuns[RunOf(v)] = "none" => crawlRuns'[RunOf(v)] = "none"
    BY <2>1, <2>2 DEF RecordFate
  <2>5. recipeRuns[RunOf(v)].status = "none" => recipeRuns'[RunOf(v)].status = "none"
    BY <2>1, <2>2 DEF RecordFate
  <2>6. crawlRuns[RunOf(v)] \in Result => crawlRuns'[RunOf(v)] = crawlRuns[RunOf(v)]
    BY <2>1, ClosedStays DEF Result, ClosedCrawl
  <2>7. VerdictFor(workers[v].job) =>
            \E r \in Run : JobOf(r) = workers[v].job /\ recipeRuns'[r].status = "decided"
    BY ClosedStays DEF VerdictFor
  <2>8. VerdictFor(workers[v].job) => VerdictFor(workers[v].job)'
    BY <2>1, <2>7 DEF VerdictFor
  <2> QED
    BY <2>1, <2>3, <2>4, <2>5, <2>6, <2>8 DEF HandlerInv
<1> QED
  BY <1>1, <1>2

LEMMA UnopenedStep ==
    ASSUME CrawlInv, [QueueNext]_queueVars, NEW o, NEW w, RecordFate(o, w),
           o = "handler" => w \in Worker
    PROVE  UnopenedRuns'
<1> SUFFICES ASSUME NEW r \in Run, r[2] > jobs'[JobOf(r)].attempts
             PROVE  crawlRuns'[r] = "none" /\ recipeRuns'[r].status = "none"
  BY DEF UnopenedRuns
<1>1. jobs'[JobOf(r)].attempts >= jobs[JobOf(r)].attempts
  BY AttemptsGrow, RunType DEF CrawlInv
<1>2. jobs[JobOf(r)].attempts \in Nat /\ jobs'[JobOf(r)].attempts \in Nat /\ r[2] \in Nat
  BY RunType, NextQueueInv DEF CrawlInv, QueueInv, QueueTypeOK, JobRow
<1>3. crawlRuns[r] = "none" /\ recipeRuns[r].status = "none"
  BY <1>1, <1>2 DEF CrawlInv, UnopenedRuns
<1>4. o = "handler" /\ handlers[w].step # "none" => r # RunOf(w)
  <2> SUFFICES ASSUME w \in Worker, handlers[w].step # "none", r = RunOf(w) PROVE FALSE
    OBVIOUS
  <2>1. workers[w].token \in Nat /\ workers[w].token <= jobs[workers[w].job].attempts
    BY CrawlFacts DEF CrawlInv, QueueInv, TokenBound, Runner
  <2>2. JobOf(r) = workers[w].job /\ r[2] = workers[w].token
    BY DEF RunOf, JobOf
  <2> QED
    BY <1>1, <1>2, <2>1, <2>2
<1> QED
  BY <1>3, <1>4 DEF RecordFate

\* Whose job, attempt and phase a step leaves as far as the records can tell.
SameAttempt(v) ==
    /\ workers'[v].pc \in Holding
    /\ workers'[v].job = workers[v].job /\ workers'[v].token = workers[v].token

HolderRuns ==
    \A v \in Worker : workers[v].pc \in Holding => RunOf(v) \in Run /\ workers[v].job \in Job

LEMMA HolderRun == QueueInv => HolderRuns
<1> SUFFICES ASSUME QueueInv, NEW v \in Worker, workers[v].pc \in Holding
             PROVE  RunOf(v) \in Run /\ workers[v].job \in Job
  BY DEF HolderRuns
<1>1. workers[v].job \in Job /\ workers[v].token \in Nat /\ workers[v].token > 0
  BY DEF QueueInv, QueueTypeOK, TokenBound, Runner
<1>2. /\ workers[v].token <= jobs[workers[v].job].attempts
      /\ jobs[workers[v].job].attempts <= Budget(workers[v].job)
      /\ jobs[workers[v].job].attempts \in Nat /\ Budget(workers[v].job) \in Nat
  BY <1>1, BudgetType DEF QueueInv, QueueTypeOK, TokenBound, JobRow
<1>3. workers[v].token \in 1..Budget(workers[v].job)
  BY <1>1, <1>2
<1> QED
  BY <1>1, <1>3, RunType DEF RunOf

LEMMA SuccessKept ==
    ASSUME CrawlInv, NEW o, NEW w, RecordFate(o, w), NEW v \in Worker,
           workers[v].pc = "succeeded",
           workers'[v].job = workers[v].job, workers'[v].token = workers[v].token
    PROVE  HasResult(RunOf(v))'
<1>1. HasResult(RunOf(v))
  BY DEF CrawlInv, SuccessHasResult
<1>2. JobOf(RunOf(v)) = workers[v].job /\ RunOf(v)' = RunOf(v)
  BY DEF JobOf, RunOf
<1>3. crawlRuns[RunOf(v)] \in Result => crawlRuns'[RunOf(v)] = crawlRuns[RunOf(v)]
  BY ClosedStays, HolderRun DEF CrawlInv, HolderRuns, Holding, Result, ClosedCrawl
<1>4. VerdictFor(workers[v].job) =>
          \E r \in Run : JobOf(r) = workers[v].job /\ recipeRuns'[r].status = "decided"
  BY ClosedStays DEF VerdictFor
<1> QED
  BY <1>1, <1>2, <1>3, <1>4 DEF HasResult, VerdictFor, Result

\* A step that leaves the records, the handlers and the cleanups alone.
LEMMA QuietRuns ==
    ASSUME CrawlInv, [QueueNext]_queueVars, UNCHANGED runVars,
           \A v \in Worker :
               /\ handlers[v].step # "none" => SameAttempt(v)
               /\ cleanups[v].step # "none" => workers'[v].pc \in {"lost", "cancelling"}
               /\ workers'[v].pc = "succeeded" => workers[v].pc = "succeeded" /\ SameAttempt(v)
    PROVE  CrawlInv'
<1>1. QueueInv' /\ DistinctAttempts'
  BY NextQueueInv, DistinctStep DEF CrawlInv
<1>2. UNCHANGED <<crawlRuns, recipeRuns, handlers, cleanups>> /\ UNCHANGED recordVars
  BY DEF runVars, recordVars
<1>3. CrawlTypeOK'
  BY <1>2 DEF CrawlInv, CrawlTypeOK, SameAttempt, RunOf
<1>4. LocksExclusive' /\ LockedAreRunning'
  BY <1>2 DEF CrawlInv, LocksExclusive, LockedAreRunning, HasLocked, Txn, LockedRows, StillRunning
<1>5. \A v \in Worker : RecordFate("cleanup", v)
  BY <1>2, QuietRecords
<1>6. \A v \in Worker : HandlerInv(v)'
  BY <1>2, <1>5, HandlerKept DEF SameAttempt, Owner
<1>7. UnopenedRuns'
  BY <1>2, QuietRecords, UnopenedStep
<1>8. SuccessHasResult'
  BY <1>5, SuccessKept DEF SuccessHasResult, SameAttempt
<1> QED
  BY <1>1, <1>3, <1>4, <1>6, <1>7, <1>8 DEF CrawlInv

\* A step of the runner w that changes its handler, its cleanup or the records.
OthersWait(w) ==
    \A v \in Worker : v # w => /\ workers'[v] = workers[v] /\ handlers'[v] = handlers[v]
                               /\ cleanups'[v] = cleanups[v]

\* What is left to show for such a step: its own part of the invariant.
OwnPart(o, w) ==
    /\ handlers'[w] \in Handler /\ cleanups'[w] \in Cleanup
    /\ handlers'[w].step # "none" => workers'[w].pc \in Holding
    /\ cleanups'[w].step # "none" => workers'[w].pc \in {"lost", "cancelling"}
    /\ HandlerInv(w)'
    /\ workers'[w].pc = "succeeded" =>
           \/ HasResult(RunOf(w))'
           \/ workers[w].pc = "succeeded" /\ SameAttempt(w)
    /\ \A p \in Owner : \A row \in Row :
           HasLocked(p, w, row)' =>
               \/ HasLocked(p, w, row) /\ (p = o => StillRunning(row)')
               \/ p = o /\ ~RowLocked(row) /\ StillRunning(row)'

LEMMA OwnStep ==
    ASSUME CrawlInv, [QueueNext]_queueVars, NEW o \in Owner, NEW w \in Worker,
           OthersWait(w), OwnPart(o, w), RecordFate(o, w), RecordTypeOK',
           handlers' \in [Worker -> Handler], cleanups' \in [Worker -> Cleanup]
    PROVE  CrawlInv'
<1>1. QueueInv' /\ DistinctAttempts'
  BY NextQueueInv, DistinctStep DEF CrawlInv
<1>2. CrawlTypeOK'
  <2>1. HolderRuns'
    BY <1>1, HolderRun, PTL
  <2> QED
    BY <2>1 DEF HolderRuns, CrawlInv, CrawlTypeOK, OthersWait, OwnPart, SameAttempt, RecordTypeOK
<1>3. LocksExclusive' /\ LockedAreRunning'
  <2>1. ASSUME NEW p \in Owner, NEW v \in Worker, NEW row \in Row, p # o \/ v # w,
               HasLocked(p, v, row)'
        PROVE  HasLocked(p, v, row)
    BY <2>1 DEF OthersWait, OwnPart, HasLocked, Txn, LockedRows
  <2>2. ASSUME NEW row \in Row, HasLocked(o, w, row)'
        PROVE  StillRunning(row)' /\ (HasLocked(o, w, row) \/ ~RowLocked(row))
    BY <2>2 DEF OwnPart
  <2> QED
    BY <2>1, <2>2, LocksStep
<1>4. \A v \in Worker : HandlerInv(v)'
  BY HandlerKept DEF OthersWait, OwnPart
<1>5. UnopenedRuns'
  BY UnopenedStep
<1>6. SuccessHasResult'
  BY SuccessKept DEF SuccessHasResult, OthersWait, OwnPart, SameAttempt
<1> QED
  BY <1>1, <1>2, <1>3, <1>4, <1>5, <1>6 DEF CrawlInv

-----------------------------------------------------------------------------
(* The steps of a runner, one by one *)

LEMMA LockedRowsType ==
    ASSUME NEW txn, NEW row
    PROVE  /\ txn.step \notin LockingStep \cup {"widening"} => row \notin LockedRows(txn)
           /\ txn.rows = {} => row \notin LockedRows(txn)
           /\ row \in LockedRows(txn) => row \in txn.rows
BY DEF LockedRows

\* The runner leaves run_once, or is about to with a handler that returned Ok.
LEMMA LeaveStep ==
    ASSUME CrawlInv, NEW w \in Worker, Step(w), Leave(w),
           workers'[w].pc = "succeeded" => HasResult(RunOf(w)) /\ SameAttempt(w)
    PROVE  CrawlInv'
<1>1. [QueueNext]_queueVars
  BY DEF QueueNext
<1>2. /\ handlers' \in [Worker -> Handler] /\ cleanups' \in [Worker -> Cleanup]
      /\ handlers'[w] = NoHandler /\ cleanups'[w] = NoCleanup
  BY CrawlFacts DEF Leave, NoHandler, Handler, HandlerStep, NoCleanup, Cleanup
<1>3. OthersWait(w)
  BY CrawlFacts, StepElsewhere DEF OthersWait, Leave
<1>4. RecordFate("cleanup", w) /\ RecordTypeOK'
  BY QuietRecords DEF Leave
<1>5. HandlerInv(w)'
  BY <1>2 DEF HandlerInv, NoHandler, LockingStep
<1>6. workers'[w].pc = "succeeded" => HasResult(RunOf(w))'
  <2> HAVE workers'[w].pc = "succeeded"
  <2>1. RunOf(w)' = RunOf(w) /\ UNCHANGED <<crawlRuns, recipeRuns>>
    BY DEF SameAttempt, RunOf, Leave, recordVars
  <2> QED
    BY <2>1 DEF HasResult, VerdictFor
<1>7. \A p \in Owner : \A row \in Row : ~HasLocked(p, w, row)'
  BY <1>2, LockedRowsType DEF HasLocked, Txn, NoHandler, NoCleanup
<1>8. OwnPart("cleanup", w)
  BY <1>2, <1>5, <1>6, <1>7 DEF OwnPart, NoHandler, NoCleanup, Handler, HandlerStep, Cleanup
<1> QED
  BY <1>1, <1>2, <1>3, <1>4, <1>8, OwnStep DEF Owner

LEMMA ClaimCrawlStep == ASSUME CrawlInv, NEW w \in Worker, ClaimCrawl(w) PROVE CrawlInv'
<1> PICK j \in Job, age \in ClaimAge(w) : Claim(w, j, age)
  BY DEF ClaimCrawl, ClaimAny
<1>1. Step(w) /\ [QueueNext]_queueVars
  BY DEF ClaimCrawl, Step, QueueNext
<1>2. /\ handlers' \in [Worker -> Handler] /\ handlers'[w] = NewHandler /\ UNCHANGED cleanups
  BY CrawlFacts DEF ClaimCrawl, NewHandler, NoHandler, Handler, HandlerStep
<1>3. OthersWait(w)
  BY CrawlFacts, StepElsewhere, <1>1 DEF OthersWait, ClaimCrawl
<1>4. RecordFate("handler", w) /\ RecordTypeOK' /\ UNCHANGED <<crawlRuns, recipeRuns>>
  BY QuietRecords DEF ClaimCrawl, recordVars
<1>5. /\ workers'[w].pc = "handling" /\ workers'[w].job = j
      /\ workers'[w].token = jobs[j].attempts + 1 /\ workers[w].pc = "claiming"
  BY CrawlFacts DEF Claim, IdleRunner, FreshToken
<1>6. cleanups[w].step = "none" /\ cleanups[w] \in Cleanup
  BY <1>5, CrawlFacts DEF CrawlInv, CrawlTypeOK
<1>7. HandlerInv(w)'
  <2>1. QueueInv'
    BY <1>1, NextQueueInv DEF CrawlInv
  <2>2. HolderRuns'
    BY <2>1, HolderRun, PTL
  <2> DEFINE r == <<j, jobs[j].attempts + 1>>
  <2>3. RunOf(w)' = r /\ r \in Run
    BY <1>5, <2>2 DEF HolderRuns, Holding, RunOf
  <2>4. crawlRuns[r] = "none" /\ recipeRuns[r].status = "none"
    BY <2>3, CrawlFacts DEF CrawlInv, UnopenedRuns, JobOf, JobRow
  <2> HIDE DEF r
  <2> QED
    BY <1>2, <1>4, <2>3, <2>4 DEF HandlerInv, NewHandler, NoHandler
<1>8. \A p \in Owner : \A row \in Row : ~HasLocked(p, w, row)'
  BY <1>2, <1>6, LockedRowsType DEF HasLocked, Txn, NewHandler, NoHandler, LockingStep
<1>9. OwnPart("handler", w)
  BY <1>2, <1>5, <1>6, <1>7, <1>8 DEF OwnPart, NewHandler, NoHandler, Handler, HandlerStep, Holding
<1> QED
  BY <1>1, <1>2, <1>3, <1>4, <1>9, CrawlFacts, OwnStep DEF Owner

LEMMA HandlerFrame ==
    ASSUME CrawlInv, NEW w \in Worker, HandlerStepOf(w)
    PROVE  /\ UNCHANGED queueVars /\ UNCHANGED cleanups /\ OthersWait(w)
           /\ workers[w].pc = "handling" /\ handlers[w].step # "none"
           /\ workers[w].job \in Job /\ RunOf(w) \in Run /\ RunOf(w)' = RunOf(w)
<1>1. UNCHANGED queueVars /\ UNCHANGED cleanups /\ workers[w].pc = "handling" /\ handlers[w].step # "none"
  BY DEF HandlerStepOf, At, FindAbandoned, LockRecipeRuns, LockCrawlRuns, OpenRun,
         BeginRecipeRun, CloseCrawl, CommitCrawl, DecideRecipe, CommitRecipe, LockToClose
<1>2. \E h : handlers' = [handlers EXCEPT ![w] = h]
  <2>1. CASE FindAbandoned(w, TRUE) \/ FindAbandoned(w, FALSE)
    BY <2>1 DEF FindAbandoned
  <2>2. CASE LockRecipeRuns(w) \/ LockCrawlRuns(w)
    BY <2>2 DEF LockRecipeRuns, LockCrawlRuns
  <2>3. CASE OpenRun(w) \/ BeginRecipeRun(w)
    BY <2>3 DEF OpenRun, BeginRecipeRun
  <2>4. CASE (\E outcome \in {"completed", "failed"} : CloseCrawl(w, outcome)) \/ DecideRecipe(w)
    BY <2>4 DEF CloseCrawl, DecideRecipe, LockToClose
  <2>5. CASE CommitCrawl(w) \/ CommitRecipe(w)
    BY <2>5 DEF CommitCrawl, CommitRecipe
  <2> QED
    BY <2>1, <2>2, <2>3, <2>4, <2>5 DEF HandlerStepOf
<1>3. OthersWait(w)
  BY <1>1, <1>2, CrawlFacts DEF OthersWait, queueVars
<1> QED
  BY <1>1, <1>3, CrawlFacts DEF queueVars, RunOf

LEMMA HandlerOwn ==
    ASSUME CrawlInv, NEW w \in Worker, HandlerStepOf(w), handlers' \in [Worker -> Handler],
           RecordFate("handler", w), RecordTypeOK', HandlerInv(w)',
           \A row \in LockedRows(handlers'[w]) :
               StillRunning(row)' /\ (row \in LockedRows(handlers[w]) \/ ~RowLocked(row))
    PROVE  CrawlInv'
<1>1. /\ UNCHANGED queueVars /\ UNCHANGED cleanups /\ OthersWait(w)
      /\ workers[w].pc = "handling" /\ UNCHANGED workers
  BY HandlerFrame DEF queueVars
<1>2. \A p \in Owner : \A row \in Row :
           HasLocked(p, w, row)' =>
               \/ HasLocked(p, w, row) /\ (p = "handler" => StillRunning(row)')
               \/ p = "handler" /\ ~RowLocked(row) /\ StillRunning(row)'
  BY <1>1 DEF HasLocked, Txn, Owner, LockedRows
<1>3. OwnPart("handler", w)
  BY <1>1, <1>2, CrawlFacts DEF OwnPart, CrawlInv, CrawlTypeOK, Holding
<1> QED
  BY <1>1, <1>3, CrawlFacts, OwnStep DEF Owner

LEMMA RunningRowsType ==
    ASSUME NEW j
    PROVE  /\ \A row \in RunningRows(j) : row \in Row /\ StillRunning(row)
           /\ AbandonedRecipeRuns(j) \subseteq Row /\ AbandonedCrawlRuns(j) \subseteq Row
           /\ \A row \in AbandonedCrawlRuns(j) : row[1] = "crawl"
BY DEF RunningRows, RunningCrawlRows, RunningRecipeRows, AbandonedRecipeRuns, AbandonedCrawlRuns

\* begin_crawl_run before its INSERT: rows are matched and locked, none is written.
LEMMA FindAbandonedStep ==
    ASSUME CrawlInv, NEW w \in Worker, NEW recipe \in BOOLEAN, FindAbandoned(w, recipe)
    PROVE  CrawlInv'
<1>1. HandlerStepOf(w) /\ UNCHANGED recordVars /\ handlers[w].step = "start"
  BY DEF HandlerStepOf, FindAbandoned, At
<1>2. /\ handlers' \in [Worker -> Handler] /\ handlers'[w].step = "superseding"
  <2> DEFINE rows == AbandonedRecipeRuns(workers[w].job)
  <2>1. rows \in SUBSET Row
    BY RunningRowsType
  <2> DEFINE h == [handlers[w] EXCEPT !.step = "superseding", !.recipe = recipe, !.rows = rows]
  <2>2. handlers' = [handlers EXCEPT ![w] = h]
    BY DEF FindAbandoned
  <2> HIDE DEF rows
  <2>3. h \in Handler /\ h.step = "superseding"
    BY <2>1, CrawlFacts DEF Handler, HandlerStep
  <2> HIDE DEF h
  <2> QED
    BY <2>2, <2>3, CrawlFacts
<1>3. HandlerInv(w)'
  BY <1>1, <1>2, HandlerFrame DEF HandlerInv, CrawlInv, recordVars
<1> QED
  BY <1>1, <1>2, <1>3, QuietRecords, LockedRowsType, HandlerOwn DEF LockingStep

LEMMA LockRecipeRunsStep == ASSUME CrawlInv, NEW w \in Worker, LockRecipeRuns(w) PROVE CrawlInv'
<1> DEFINE rows == StillRunningOf(handlers[w].rows) \cup AbandonedCrawlRuns(workers[w].job)
<1>1. HandlerStepOf(w) /\ UNCHANGED recordVars /\ handlers[w].step = "superseding"
  BY DEF HandlerStepOf, LockRecipeRuns, At
<1>2. handlers[w] \in Handler /\ rows \subseteq Row
  BY CrawlFacts, RunningRowsType DEF Handler, StillRunningOf
<1>3. /\ handlers' \in [Worker -> Handler] /\ handlers'[w].step = "widening"
      /\ handlers'[w].rows = rows
  BY <1>2, CrawlFacts DEF LockRecipeRuns, Handler, HandlerStep
<1>4. HandlerInv(w)'
  BY <1>1, <1>3, HandlerFrame DEF HandlerInv, CrawlInv, recordVars
<1>5. ASSUME NEW row \in LockedRows(handlers'[w])
      PROVE  StillRunning(row)' /\ ~RowLocked(row)
  <2>1. row \in StillRunningOf(handlers[w].rows)
    BY <1>3, RunningRowsType DEF LockedRows, LockingStep
  <2> QED
    BY <1>1, <2>1 DEF LockRecipeRuns, Free, StillRunningOf, StillRunning, recordVars
<1> QED
  BY <1>1, <1>3, <1>4, <1>5, QuietRecords, HandlerOwn

LEMMA LockCrawlRunsStep == ASSUME CrawlInv, NEW w \in Worker, LockCrawlRuns(w) PROVE CrawlInv'
<1>1. HandlerStepOf(w) /\ UNCHANGED recordVars /\ handlers[w].step = "widening"
  BY DEF HandlerStepOf, LockCrawlRuns, At
<1>2. handlers[w] \in Handler /\ handlers[w].rows \subseteq Row
  BY CrawlFacts DEF Handler
<1>3. /\ handlers' \in [Worker -> Handler] /\ handlers'[w].step = "opening"
      /\ handlers'[w].rows = StillRunningOf(handlers[w].rows)
  BY <1>2, CrawlFacts DEF LockCrawlRuns, Handler, HandlerStep, StillRunningOf
<1>4. HandlerInv(w)'
  BY <1>1, <1>3, HandlerFrame DEF HandlerInv, CrawlInv, recordVars
<1>5. ASSUME NEW row \in LockedRows(handlers'[w])
      PROVE  StillRunning(row)' /\ (row \in LockedRows(handlers[w]) \/ ~RowLocked(row))
  <2>1. row \in handlers[w].rows /\ StillRunning(row) /\ row \in Row
    BY <1>2, <1>3, LockedRowsType DEF StillRunningOf
  <2>2. CASE row[1] = "recipe"
    BY <1>1, <2>1, <2>2 DEF LockedRows, StillRunning, recordVars
  <2>3. CASE row[1] = "crawl"
    BY <1>1, <2>1, <2>3 DEF LockCrawlRuns, Free, CrawlRowsOf, StillRunning, recordVars
  <2> QED
    BY <2>1, <2>2, <2>3, RunType
<1> QED
  BY <1>1, <1>3, <1>4, <1>5, QuietRecords, HandlerOwn

LEMMA OpenRunStep == ASSUME CrawlInv, NEW w \in Worker, OpenRun(w) PROVE CrawlInv'
<1>1. HandlerStepOf(w) /\ handlers[w].step = "opening" /\ handlers[w] \in Handler
  BY CrawlFacts DEF HandlerStepOf, OpenRun, At
<1>2. RecordFate("handler", w) /\ RecordTypeOK'
  BY OpenRunRecords
<1>3. /\ handlers' \in [Worker -> Handler] /\ handlers'[w].step \in {"preparing", "crawling"}
      /\ handlers'[w].recipe <=> handlers'[w].step = "preparing"
  BY <1>1, CrawlFacts DEF OpenRun, Handler, HandlerStep
<1>4. recipeRuns'[RunOf(w)].status = "none"
  BY <1>1, <1>2, HandlerFrame DEF RecordFate, CrawlInv, HandlerInv
<1>5. HandlerInv(w)'
  BY <1>1, <1>3, <1>4, HandlerFrame DEF HandlerInv
<1>6. \A row : row \notin LockedRows(handlers'[w])
  BY <1>3, LockedRowsType DEF LockingStep
<1> QED
  BY <1>1, <1>2, <1>3, <1>5, <1>6, HandlerOwn

LEMMA BeginRecipeRunStep == ASSUME CrawlInv, NEW w \in Worker, BeginRecipeRun(w) PROVE CrawlInv'
<1>1. HandlerStepOf(w) /\ handlers[w].step = "preparing" /\ handlers[w] \in Handler
  BY CrawlFacts DEF HandlerStepOf, BeginRecipeRun, At
<1>2. RecordFate("handler", w) /\ RecordTypeOK'
  BY BeginRecipeRunRecords
<1>3. PICK r \in Run :
        /\ JobOf(r) = workers[w].job
        /\ handlers' = [handlers EXCEPT ![w].step = "crawling", ![w].recipeRun = r[2]]
  <2> DEFINE running == {r \in Run : JobOf(r) = workers[w].job /\ recipeRuns[r].status = "running"}
  <2>1. PICK r \in IF running = {} THEN {RunOf(w)} ELSE running :
          handlers' = [handlers EXCEPT ![w].step = "crawling", ![w].recipeRun = r[2]]
    BY DEF BeginRecipeRun
  <2>2. RunOf(w) \in Run /\ JobOf(RunOf(w)) = workers[w].job
    BY <1>1, HandlerFrame DEF JobOf, RunOf
  <2>3. r \in Run /\ JobOf(r) = workers[w].job
    BY <2>2
  <2> QED
    BY <2>1, <2>3
<1>4. /\ handlers' \in [Worker -> Handler] /\ handlers'[w].step = "crawling"
      /\ handlers'[w].recipeRun = r[2]
  BY <1>1, <1>3, CrawlFacts, RunType DEF Handler, HandlerStep
<1>5. GivenRun(w)' = r
  BY <1>1, <1>3, <1>4, RunType, HandlerFrame DEF GivenRun, queueVars
<1>6. HandlerInv(w)'
  BY <1>4, <1>5 DEF HandlerInv
<1>7. \A row : row \notin LockedRows(handlers'[w])
  BY <1>4, LockedRowsType DEF LockingStep
<1> QED
  BY <1>1, <1>2, <1>4, <1>6, <1>7, HandlerOwn

\* The row that a closing statement finds running is locked; otherwise the handler
\* returns with an error and locks nothing.
LEMMA LockToCloseStep ==
    ASSUME CrawlInv, NEW w \in Worker, HandlerStepOf(w), NEW row \in Row,
           NEW step \in {"closing", "deciding"}, NEW outcome \in Result,
           LockToClose(w, row, step, outcome),
           \/ step = "closing" /\ row = <<"crawl", RunOf(w)>> /\ handlers[w].step = "crawling"
           \/ step = "deciding" /\ row = <<"recipe", GivenRun(w)>> /\ handlers[w].step = "closed"
              /\ outcome = handlers[w].outcome
    PROVE  CrawlInv'
<1> DEFINE locked == [handlers[w] EXCEPT !.step = step, !.rows = {row}, !.outcome = outcome]
           missed == [handlers[w] EXCEPT !.step = "returned", !.outcome = "error"]
<1>1. /\ handlers' = [handlers EXCEPT ![w] = IF StillRunning(row) THEN locked ELSE missed]
      /\ UNCHANGED recordVars /\ ~RowLocked(row)
  BY DEF LockToClose, Closable
<1>2. handlers[w] \in Handler /\ locked \in Handler /\ missed \in Handler
  BY CrawlFacts DEF Handler, HandlerStep, Result
<1>3. handlers' \in [Worker -> Handler] /\ handlers'[w] = IF StillRunning(row) THEN locked ELSE missed
  BY <1>1, <1>2, CrawlFacts
<1>4. UNCHANGED <<workers, crawlRuns, recipeRuns>>
  BY <1>1, HandlerFrame DEF recordVars, queueVars
<1>5. GivenRun(w)' = GivenRun(w) /\ RunOf(w)' = RunOf(w)
  BY <1>2, <1>3, <1>4 DEF GivenRun, RunOf, Handler
<1>6. HandlerInv(w)
  BY DEF CrawlInv
<1>7. CASE StillRunning(row)
  <2>1. handlers'[w] = locked
    BY <1>3, <1>7
  <2>2. /\ locked.step = step /\ locked.rows = {row} /\ locked.outcome = outcome
        /\ locked.recipe = handlers[w].recipe
    BY <1>2 DEF Handler
  <2>3. HandlerInv(w)'
    BY <1>4, <1>5, <1>6, <2>1, <2>2 DEF HandlerInv
  <2>4. \A x \in LockedRows(handlers'[w]) : StillRunning(x)' /\ ~RowLocked(x)
    BY <1>1, <1>4, <1>7, <2>1, <2>2 DEF LockedRows, StillRunning
  <2> QED
    BY <1>1, <1>3, <2>3, <2>4, QuietRecords, HandlerOwn
<1>8. CASE ~StillRunning(row)
  <2>1. handlers'[w] = missed /\ missed.step = "returned" /\ missed.outcome = "error"
    BY <1>2, <1>3, <1>8 DEF Handler
  <2>2. HandlerInv(w)'
    BY <2>1 DEF HandlerInv, Result
  <2>3. \A x : x \notin LockedRows(handlers'[w])
    BY <2>1, LockedRowsType DEF LockingStep
  <2> QED
    BY <1>1, <1>3, <2>2, <2>3, QuietRecords, HandlerOwn
<1> QED
  BY <1>7, <1>8

LEMMA CloseStep ==
    ASSUME CrawlInv, NEW w \in Worker,
           (\E outcome \in {"completed", "failed"} : CloseCrawl(w, outcome)) \/ DecideRecipe(w)
    PROVE  CrawlInv'
<1>1. HandlerStepOf(w)
  BY DEF HandlerStepOf
<1>2. CASE \E outcome \in {"completed", "failed"} : CloseCrawl(w, outcome)
  <2> PICK outcome \in {"completed", "failed"} : CloseCrawl(w, outcome)
    BY <1>2
  <2>1. <<"crawl", RunOf(w)>> \in Row
    BY <1>1, HandlerFrame, RunType
  <2> QED
    BY <1>1, <2>1, LockToCloseStep DEF CloseCrawl, At, Result
<1>3. CASE DecideRecipe(w)
  <2>1. handlers[w].step = "closed" /\ HandlerInv(w)
    BY <1>3 DEF DecideRecipe, At, CrawlInv
  <2>2. GivenRun(w) \in Run /\ handlers[w].outcome \in Result
    BY <2>1 DEF HandlerInv
  <2>3. <<"recipe", GivenRun(w)>> \in Row
    BY <2>2, RunType
  <2>4. LockToClose(w, <<"recipe", GivenRun(w)>>, "deciding", handlers[w].outcome)
    BY <1>3 DEF DecideRecipe, GivenRun
  <2> QED
    BY <1>1, <2>1, <2>2, <2>3, <2>4, LockToCloseStep
<1> QED
  BY <1>2, <1>3

LEMMA CommitCrawlStep == ASSUME CrawlInv, NEW w \in Worker, CommitCrawl(w) PROVE CrawlInv'
<1>1. HandlerStepOf(w) /\ handlers[w].step = "closing" /\ handlers[w] \in Handler
  BY CrawlFacts DEF HandlerStepOf, CommitCrawl, At
<1>2. /\ RecordFate("handler", w) /\ RecordTypeOK'
      /\ crawlRuns'[RunOf(w)] = handlers[w].outcome
  BY CommitCrawlRecords
<1>3. /\ handlers' \in [Worker -> Handler]
      /\ handlers'[w].step = IF handlers[w].recipe THEN "closed" ELSE "returned"
      /\ handlers'[w].recipe = handlers[w].recipe /\ handlers'[w].outcome = handlers[w].outcome
      /\ handlers'[w].recipeRun = handlers[w].recipeRun
  BY <1>1, CrawlFacts DEF CommitCrawl, Handler, HandlerStep
<1>4. HandlerInv(w) /\ RunOf(w)' = RunOf(w) /\ GivenRun(w)' = GivenRun(w) /\ UNCHANGED workers
  BY <1>1, <1>3, HandlerFrame DEF CrawlInv, GivenRun, queueVars
<1>5. HandlerInv(w)'
  BY <1>1, <1>2, <1>3, <1>4 DEF HandlerInv
<1>6. \A row : row \notin LockedRows(handlers'[w])
  BY <1>3, LockedRowsType DEF LockingStep
<1> QED
  BY <1>1, <1>2, <1>3, <1>5, <1>6, HandlerOwn

LEMMA CommitRecipeStep == ASSUME CrawlInv, NEW w \in Worker, CommitRecipe(w) PROVE CrawlInv'
<1>1. HandlerStepOf(w) /\ handlers[w].step = "deciding" /\ handlers[w] \in Handler
  BY CrawlFacts DEF HandlerStepOf, CommitRecipe, At
<1>2. /\ RecordFate("handler", w) /\ RecordTypeOK' /\ UNCHANGED crawlRuns
      /\ GivenRun(w) \in Run /\ recipeRuns'[GivenRun(w)].status = "decided"
  BY CommitRecipeRecords DEF CommitRecipe
<1>3. /\ handlers' \in [Worker -> Handler] /\ handlers'[w].step = "returned"
      /\ handlers'[w].outcome = handlers[w].outcome
  BY <1>1, CrawlFacts DEF CommitRecipe, Handler, HandlerStep
<1>4. HandlerInv(w) /\ RunOf(w)' = RunOf(w) /\ UNCHANGED workers
  BY <1>1, HandlerFrame DEF CrawlInv, queueVars
<1>5. VerdictFor(workers[w].job)'
  BY <1>2, <1>4 DEF VerdictFor, GivenRun, JobOf
<1>6. HandlerInv(w)'
  BY <1>1, <1>2, <1>3, <1>4, <1>5 DEF HandlerInv
<1>7. \A row : row \notin LockedRows(handlers'[w])
  BY <1>3, LockedRowsType DEF LockingStep
<1> QED
  BY <1>1, <1>2, <1>3, <1>6, <1>7, HandlerOwn

LEMMA SucceedsStep == ASSUME CrawlInv, NEW w \in Worker, Succeeds(w) PROVE CrawlInv'
<1>1. Step(w) /\ Leave(w) /\ handlers[w].step = "returned" /\ HandlerInv(w)
  BY DEF Succeeds, Step, CrawlInv
<1>2. SameAttempt(w)
  BY CrawlFacts DEF Succeeds, HandlerSucceeds, Goto, SameAttempt, Holding, Runner
<1>3. JobOf(RunOf(w)) = workers[w].job
  BY DEF JobOf, RunOf
<1>4. HasResult(RunOf(w))
  BY <1>1, <1>3 DEF Succeeds, HandlerInv, HasResult, Result
<1> QED
  BY <1>1, <1>2, <1>4, LeaveStep

\* The other ways out of run_once.
LEMMA LeavesStep ==
    ASSUME CrawlInv, NEW w \in Worker,
           \/ \E retry \in Retry : ReturnsError(w, retry)
           \/ DatabaseFails(w) \/ Finish(w) \/ CrashCrawl(w)
    PROVE  CrawlInv'
<1>1. CASE (\E retry \in Retry : ReturnsError(w, retry)) \/ DatabaseFails(w)
  <2> PICK retry \in Retry : HandlerFails(w, retry) /\ Leave(w)
    BY <1>1 DEF ReturnsError, DatabaseFails, Retry
  <2>1. Step(w) /\ workers'[w].pc # "succeeded"
    BY CrawlFacts DEF Step, FailAny, HandlerFails, Runner
  <2> QED
    BY <2>1, LeaveStep
<1>2. CASE Finish(w) \/ CrashCrawl(w)
  <2>1. Step(w) /\ Leave(w)
    BY <1>2 DEF Finish, CrashCrawl, Step
  <2>2. workers'[w] \in {IdleRunner, AfterFailure(w)}
    BY <1>2, CrawlFacts DEF Finish, CrashCrawl, Complete, LeaseError, RecordFailure, Crash
  <2>3. workers'[w].pc # "succeeded"
    BY <2>2, IdleRunnerType DEF Holding
  <2> QED
    BY <2>1, <2>3, LeaveStep
<1> QED
  BY <1>1, <1>2

\* The steps of the runner that the handler does not notice.
LEMMA QueueOnlyStep == ASSUME CrawlInv, NEW w \in Worker, QueueOnly(w) PROVE CrawlInv'
<1>1. Step(w) /\ [QueueNext]_queueVars /\ UNCHANGED runVars
  BY DEF QueueOnly, Step, QueueNext
<1>2. CrawlTypeOK /\ workers \in [Worker -> Runner]
  BY CrawlFacts DEF CrawlInv
<1>3. \A v \in Worker : v # w =>
          /\ handlers[v].step # "none" => SameAttempt(v)
          /\ cleanups[v].step # "none" => workers'[v].pc \in {"lost", "cancelling"}
          /\ workers'[v].pc = "succeeded" => workers[v].pc = "succeeded" /\ SameAttempt(v)
  BY <1>1, <1>2, StepElsewhere DEF CrawlTypeOK, SameAttempt, Holding
<1>4. CASE Sweep(w) \/ ClaimNothing(w) \/ Restart(w)
  <2>1. workers[w].pc \notin Holding /\ workers'[w].pc # "succeeded"
    BY <1>2, <1>4 DEF Sweep, ClaimNothing, Restart, IdleRunner, Holding, Runner
  <2>2. handlers[w].step = "none" /\ cleanups[w].step = "none"
    BY <1>2, <2>1 DEF CrawlTypeOK, Holding
  <2> QED
    BY <1>1, <1>2, <2>1, <2>2, <1>3, QuietRuns
<1>5. CASE Renew(w) \/ LoseLease(w) \/ ShutDown(w) \/ LockForFailure(w)
  <2>1. /\ workers[w].pc \in {"handling", "failing", "idle"} /\ workers'[w].pc # "succeeded"
        /\ workers[w].pc \in Holding => SameAttempt(w)
    BY <1>2, <1>5 DEF Renew, LoseLease, ShutDown, LockForFailure, Goto, SameAttempt, Holding, Runner
  <2>2. cleanups[w].step = "none" /\ (handlers[w].step # "none" => SameAttempt(w))
    BY <1>2, <2>1 DEF CrawlTypeOK
  <2> QED
    BY <1>1, <1>2, <2>1, <2>2, <1>3, QuietRuns
<1> QED
  BY <1>4, <1>5 DEF QueueOnly

LEMMA AroundStep == ASSUME CrawlInv, Around \/ UNCHANGED crawlVars PROVE CrawlInv'
<1>1. [QueueNext]_queueVars /\ UNCHANGED runVars
  BY DEF Around, QueueNext, crawlVars
<1>2. CrawlTypeOK /\ workers \in [Worker -> Runner]
  BY CrawlFacts DEF CrawlInv
<1>3. \A v \in Worker : /\ workers'[v].pc = workers[v].pc /\ workers'[v].job = workers[v].job
                        /\ workers'[v].token = workers[v].token
  <2>1. CASE UNCHANGED workers
    BY <2>1
  <2>2. CASE Tick
    BY <1>2, <2>2 DEF Tick, Runner
  <2> QED
    BY <2>1, <2>2 DEF Around, Produce, Withdraw, Enqueue, Insert, Upsert, CancelPending,
                      crawlVars, queueVars
<1> QED
  BY <1>1, <1>2, <1>3, QuietRuns DEF CrawlTypeOK, SameAttempt, Holding

\* The cleanup: rows are matched and locked, then closed.
LEMMA CleanupOwn ==
    ASSUME CrawlInv, NEW w \in Worker, CleanUp(w), OthersWait(w), NEW c \in Cleanup,
           cleanups' = [cleanups EXCEPT ![w] = c],
           c.step # "none" => workers'[w].pc \in {"lost", "cancelling"},
           RecordFate("cleanup", w), RecordTypeOK',
           \/ handlers' = handlers /\ (handlers[w].step # "none" => SameAttempt(w))
           \/ handlers' = [handlers EXCEPT ![w] = NoHandler],
           workers'[w].pc # "succeeded",
           \A row \in LockedRows(c) :
               StillRunning(row)' /\ (row \in LockedRows(cleanups[w]) \/ ~RowLocked(row))
    PROVE  CrawlInv'
<1>1. [CrawlNext]_crawlVars
  BY DEF CrawlNext, CrawlStep
<1>2. [QueueNext]_queueVars
  BY <1>1, CrawlStepIsQueueStep
<1>3. /\ cleanups' \in [Worker -> Cleanup] /\ cleanups'[w] = c
      /\ handlers' \in [Worker -> Handler] /\ handlers'[w] \in {handlers[w], NoHandler}
  <2>1. NoHandler \in Handler
    BY DEF NoHandler, Handler, HandlerStep
  <2> QED
    BY <2>1, CrawlFacts
<1>4. HandlerInv(w)'
  <2>1. CASE handlers'[w] = NoHandler
    BY <2>1 DEF HandlerInv, NoHandler, LockingStep
  <2>2. CASE handlers' = handlers /\ (handlers[w].step # "none" => SameAttempt(w))
    BY <2>2, HandlerKept DEF SameAttempt, Owner
  <2> QED
    BY <1>3, <2>1, <2>2, CrawlFacts
<1>5. \A row \in Row : HasLocked("handler", w, row)' => HasLocked("handler", w, row)
  BY <1>3, LockedRowsType DEF HasLocked, Txn, NoHandler, LockedRows
<1>6. \A row \in Row :
          HasLocked("cleanup", w, row)' =>
              StillRunning(row)' /\ (HasLocked("cleanup", w, row) \/ ~RowLocked(row))
  BY <1>3 DEF HasLocked, Txn
<1>7. OwnPart("cleanup", w)
  <2>1. handlers'[w].step # "none" => workers'[w].pc \in Holding
    BY <1>3, CrawlFacts DEF SameAttempt, NoHandler
  <2> QED
    BY <1>3, <1>4, <1>5, <1>6, <2>1 DEF OwnPart, Owner
<1> QED
  BY <1>2, <1>3, <1>7, OwnStep DEF Owner

LEMMA FindRecipeRunsStep == ASSUME CrawlInv, NEW w \in Worker, FindRecipeRuns(w) PROVE CrawlInv'
<1> DEFINE c == [step |-> "superseding", rows |-> RecipeRunsToCancel(w)]
<1>1. /\ UNCHANGED <<jobs, workers, handlers>> /\ UNCHANGED recordVars
      /\ workers[w].pc \in {"lost", "cancelling"} /\ cleanups' = [cleanups EXCEPT ![w] = c]
  BY DEF FindRecipeRuns, queueVars
<1>2. c \in Cleanup
  BY RunningRowsType DEF Cleanup, RecipeRunsToCancel, RunningRecipeRows
<1>3. \A row : row \notin LockedRows(c)
  BY LockedRowsType DEF LockingStep
<1>4. OthersWait(w)
  BY <1>1, CrawlFacts DEF OthersWait
<1>5. handlers[w].step # "none" => SameAttempt(w)
  BY <1>1, CrawlFacts DEF SameAttempt
<1> HIDE DEF c
<1> QED
  BY <1>1, <1>2, <1>3, <1>4, <1>5, QuietRecords, CleanupOwn DEF CleanUp

LEMMA FindCrawlRunsStep == ASSUME CrawlInv, NEW w \in Worker, FindCrawlRuns(w) PROVE CrawlInv'
<1> DEFINE rows == StillRunningOf(cleanups[w].rows) \cup CrawlRunsToCancel(w)
           c == [step |-> "widening", rows |-> rows]
<1>1. /\ UNCHANGED <<jobs, workers, handlers>> /\ UNCHANGED recordVars
      /\ cleanups[w].step = "superseding" /\ Free(cleanups[w].rows)
      /\ cleanups' = [cleanups EXCEPT ![w] = c]
  BY CrawlFacts DEF FindCrawlRuns, queueVars
<1>2. workers[w].pc \in {"lost", "cancelling"}
  BY <1>1 DEF CrawlInv, CrawlTypeOK
<1>3. c \in Cleanup
  BY CrawlFacts, RunningRowsType DEF Cleanup, CrawlRunsToCancel, RunningCrawlRows, StillRunningOf
<1>4. ASSUME NEW row \in LockedRows(c) PROVE StillRunning(row)' /\ ~RowLocked(row)
  <2>1. row \in StillRunningOf(cleanups[w].rows)
    BY DEF LockedRows, LockingStep, CrawlRunsToCancel, RunningCrawlRows
  <2> QED
    BY <1>1, <2>1 DEF Free, StillRunningOf, StillRunning, recordVars
<1>5. OthersWait(w)
  BY <1>1, CrawlFacts DEF OthersWait
<1>6. handlers[w].step # "none" => SameAttempt(w)
  BY <1>1, CrawlFacts DEF SameAttempt
<1> HIDE DEF c
<1> QED
  BY <1>1, <1>2, <1>3, <1>4, <1>5, <1>6, QuietRecords, CleanupOwn DEF CleanUp

LEMMA CancelCrawlRunsStep == ASSUME CrawlInv, NEW w \in Worker, CancelCrawlRuns(w) PROVE CrawlInv'
<1>1. RecordFate("cleanup", w) /\ RecordTypeOK'
  BY CancelCrawlRunsRecords
<1>2. /\ CancelRuns(w) /\ Step(w) /\ CleanUp(w)
      /\ cleanups' = [cleanups EXCEPT ![w] = NoCleanup]
      /\ handlers' = IF workers[w].pc = "lost" THEN [handlers EXCEPT ![w] = NoHandler] ELSE handlers
  BY DEF CancelCrawlRuns, CleanUp, Step
<1>3. OthersWait(w)
  BY <1>2, CrawlFacts, StepElsewhere DEF OthersWait
<1>4. /\ workers'[w].pc # "succeeded"
      /\ workers[w].pc # "lost" => SameAttempt(w)
  BY <1>2, CrawlFacts DEF CancelRuns, Goto, SameAttempt, Holding, IdleRunner, Runner
<1>5. NoCleanup \in Cleanup /\ NoCleanup.step = "none" /\ \A row : row \notin LockedRows(NoCleanup)
  BY LockedRowsType DEF NoCleanup, Cleanup
<1> QED
  BY <1>1, <1>2, <1>3, <1>4, <1>5, CleanupOwn

-----------------------------------------------------------------------------
(* The invariant *)

LEMMA InitCrawlInv == CrawlInit => CrawlInv
<1> SUFFICES ASSUME CrawlInit PROVE CrawlInv
  OBVIOUS
<1>1. QueueInv
  BY InitQueueInv DEF CrawlInit
<1>2. /\ \A w \in Worker : /\ handlers[w] = NoHandler /\ cleanups[w] = NoCleanup
                           /\ workers[w].pc = "idle"
      /\ \A r \in Run : crawlRuns[r] = "none" /\ recipeRuns[r].status = "none"
  BY DEF CrawlInit, QueueInit, IdleRunner
<1>3. CrawlTypeOK
  <2>1. NoHandler \in Handler /\ NoCleanup \in Cleanup
    BY DEF NoHandler, Handler, HandlerStep, NoCleanup, Cleanup
  <2>2. handlers \in [Worker -> Handler] /\ cleanups \in [Worker -> Cleanup]
    BY <2>1 DEF CrawlInit
  <2>3. crawlRuns \in [Run -> CrawlStatus] /\ recipeRuns \in [Run -> RecipeRun]
    BY DEF CrawlInit, CrawlStatus, RecipeRun, RecipeStatus
  <2> QED
    BY <1>2, <2>2, <2>3 DEF CrawlTypeOK, NoHandler, NoCleanup
<1>4. DistinctAttempts /\ UnopenedRuns /\ SuccessHasResult
  BY <1>2 DEF DistinctAttempts, UnopenedRuns, SuccessHasResult, Holding
<1>5. \A o \in Owner : \A w \in Worker : \A row \in Row : ~HasLocked(o, w, row)
  BY <1>2, LockedRowsType DEF HasLocked, Txn, NoHandler, NoCleanup
<1>6. \A w \in Worker : HandlerInv(w)
  BY <1>2 DEF HandlerInv, NoHandler
<1> QED
  BY <1>1, <1>3, <1>4, <1>5, <1>6 DEF CrawlInv, LocksExclusive, LockedAreRunning

LEMMA NextCrawlInv == CrawlInv /\ [CrawlNext]_crawlVars => CrawlInv'
<1> SUFFICES ASSUME CrawlInv, [CrawlNext]_crawlVars PROVE CrawlInv'
  OBVIOUS
<1>1. CASE Around \/ UNCHANGED crawlVars
  BY <1>1, AroundStep
<1>2. CASE \E w \in Worker : CrawlStep(w)
  <2> PICK w \in Worker : CrawlStep(w)
    BY <1>2
  <2>1. CASE HandlerStepOf(w)
    BY <2>1, FindAbandonedStep, LockRecipeRunsStep, LockCrawlRunsStep, OpenRunStep,
       BeginRecipeRunStep, CloseStep, CommitCrawlStep, CommitRecipeStep DEF HandlerStepOf
  <2>2. CASE CleanUp(w)
    BY <2>2, FindRecipeRunsStep, FindCrawlRunsStep, CancelCrawlRunsStep DEF CleanUp
  <2>3. CASE Returns(w)
    BY <2>3, SucceedsStep, LeavesStep DEF Returns
  <2> QED
    BY <2>1, <2>2, <2>3, QueueOnlyStep, ClaimCrawlStep, LeavesStep DEF CrawlStep
<1> QED
  BY <1>1, <1>2 DEF CrawlNext

\* The inductive invariant holds of every behaviour of the handler and its runner.
THEOREM CrawlInvHolds == CrawlSpec => []CrawlInv
BY InitCrawlInv, NextCrawlInv, PTL DEF CrawlSpec

\* Records, handlers and cleanups keep their shapes, and nothing of a handler
\* survives outside run_once.
THEOREM CrawlTypeCorrect == CrawlSpec => []CrawlTypeOK
BY CrawlInvHolds, PTL DEF CrawlInv

-----------------------------------------------------------------------------
(* Closed records are final *)

\* Only these two steps open a record.
Opens(o, w) == o = "handler" /\ handlers[w].step \in {"opening", "preparing"}

LEMMA SomeFate ==
    ASSUME CrawlInv, [CrawlNext]_crawlVars
    PROVE  \E o, w : RecordFate(o, w) /\ (Opens(o, w) => w \in Worker /\ (OpenRun(w) \/ BeginRecipeRun(w)))
<1>1. CASE UNCHANGED recordVars
  <2>1. RecordFate("cleanup", 0) /\ ~Opens("cleanup", 0)
    BY <1>1, QuietRecords DEF Opens
  <2> QED
    BY <2>1
<1>2. CASE \E w \in Worker : \/ OpenRun(w) \/ BeginRecipeRun(w) \/ CommitCrawl(w)
                             \/ CommitRecipe(w) \/ CancelCrawlRuns(w)
  <2>1. CASE \E w \in Worker : OpenRun(w) \/ BeginRecipeRun(w)
    BY <2>1, OpenRunRecords, BeginRecipeRunRecords
  <2>2. CASE \E w \in Worker : CommitCrawl(w) \/ CommitRecipe(w)
    BY <2>2, CommitCrawlRecords, CommitRecipeRecords DEF Opens, CommitCrawl, CommitRecipe, At
  <2>3. CASE \E w \in Worker : CancelCrawlRuns(w)
    BY <2>3, CancelCrawlRunsRecords DEF Opens
  <2> QED
    BY <1>2, <2>1, <2>2, <2>3
<1>3. CASE Around \/ UNCHANGED crawlVars
  BY <1>1, <1>3 DEF Around, runVars, crawlVars
<1>4. CASE \E w \in Worker : CrawlStep(w)
  <2> PICK w \in Worker : CrawlStep(w)
    BY <1>4
  <2>1. CASE QueueOnly(w) \/ ClaimCrawl(w)
    BY <1>1, <2>1 DEF QueueOnly, ClaimCrawl, runVars
  <2>2. CASE Returns(w) \/ DatabaseFails(w) \/ Finish(w) \/ CrashCrawl(w)
    BY <1>1, <2>2 DEF Returns, Succeeds, ReturnsError, DatabaseFails, Finish, CrashCrawl, Leave
  <2>3. CASE HandlerStepOf(w)
    BY <1>1, <1>2, <2>3 DEF HandlerStepOf, FindAbandoned, LockRecipeRuns, LockCrawlRuns,
       CloseCrawl, DecideRecipe, LockToClose
  <2>4. CASE CleanUp(w)
    BY <1>1, <1>2, <2>4 DEF CleanUp, FindRecipeRuns, FindCrawlRuns
  <2> QED
    BY <2>1, <2>2, <2>3, <2>4 DEF CrawlStep
<1> QED
  BY <1>3, <1>4 DEF CrawlNext

\* Once a crawl run or a recipe run is closed, by whomever, nothing rewrites it:
\* not the handler it belonged to, its successor, or a cleanup that waited.
THEOREM ClosedRunsStay == CrawlSpec => ClosedRunsAreFinal
<1> DEFINE Final == \A r \in Run :
              /\ crawlRuns[r] \in ClosedCrawl => crawlRuns'[r] = crawlRuns[r]
              /\ recipeRuns[r].status \in {"decided", "cancelled"} => recipeRuns'[r] = recipeRuns[r]
<1>1. CrawlInv /\ [CrawlNext]_crawlVars => [Final]_crawlVars
  BY SomeFate, ClosedStays
<1> QED
  BY <1>1, CrawlInvHolds, PTL DEF CrawlSpec, ClosedRunsAreFinal

-----------------------------------------------------------------------------
(* A completed job has its result on record *)

CurrentRun(j) == <<j, jobs[j].attempts>>
CompletedInv ==
    \A j \in Job : jobs[j].status = "completed" => CurrentRun(j) \in Run /\ HasResult(CurrentRun(j))

\* Only complete_job under a valid lease makes a job completed.
LEMMA CompletedFate ==
    ASSUME QueueInv, [QueueNext]_queueVars, NEW j \in Job, jobs'[j].status = "completed"
    PROVE  /\ jobs'[j].attempts = jobs[j].attempts
           /\ \/ jobs[j].status = "completed"
              \/ \E w \in Worker : Complete(w) /\ OwnsLease(w) /\ workers[w].job = j
<1>1. jobs \in [Job -> JobRow] /\ workers \in [Worker -> Runner]
  BY DEF QueueInv, QueueTypeOK
<1>2. jobs'[j].attempts = jobs[j].attempts
  <2>1. CASE TableKept \/ TableSwept
    BY <2>1 DEF TableKept, TableSwept
  <2>2. ASSUME NEW i \in Job, OthersKept(i), Inserted(i) \/ Started(i) \/ Released(i) \/ Cancelled(i)
        PROVE  jobs'[j].attempts = jobs[j].attempts
    BY <2>2 DEF OthersKept, Inserted, Started, Released, Cancelled
  <2> QED
    BY <2>1, <2>2, TableFate
<1>3. CASE \E w \in Worker : Complete(w)
  <2> PICK w \in Worker : Complete(w)
    BY <1>3
  <2>1. CASE OwnsLease(w) /\ workers[w].job = j
    BY <1>2, <2>1
  <2>2. CASE ~(OwnsLease(w) /\ workers[w].job = j)
    <3>1. jobs'[j] = jobs[j]
      BY <1>1, <2>2 DEF Complete
    <3> QED
      BY <3>1
  <2> QED
    BY <2>1, <2>2
<1>4. CASE \E w \in Worker : RecordFailure(w)
  BY <1>1, <1>4 DEF RecordFailure, RequeuedRow, FailedRow, JobRow
<1>5. CASE (\E w \in Worker : Sweep(w) \/ Renew(w)) \/ Tick
  BY <1>1, <1>5, SweepFate, TickFate DEF TableSwept, TableKept
<1>6. CASE \E w \in Worker : ClaimAny(w)
  BY <1>6, ClaimFate DEF ClaimAny, OthersKept, Started
<1>7. CASE Produce \/ Withdraw
  BY <1>7, ProduceFate, WithdrawFate DEF Produce, Withdraw, TableKept, OthersKept, Inserted, Cancelled
<1>8. CASE UNCHANGED jobs
  BY <1>8
<1>9. CASE \E w \in Worker : \/ ClaimNothing(w) \/ LoseLease(w) \/ HandlerSucceeds(w) \/ FailAny(w)
                             \/ ShutDown(w) \/ CancelRuns(w) \/ LockForFailure(w) \/ LeaseError(w)
                             \/ Crash(w) \/ Restart(w)
  BY <1>8, <1>9 DEF ClaimNothing, LoseLease, HandlerSucceeds, FailAny, HandlerFails, ShutDown,
                    CancelRuns, LockForFailure, LeaseError, Crash, Restart
<1> QED
  BY <1>2, <1>3, <1>4, <1>5, <1>6, <1>7, <1>8, <1>9 DEF QueueNext, Step, queueVars

LEMMA CompletedStep == ASSUME CrawlInv, CompletedInv, [CrawlNext]_crawlVars PROVE CompletedInv'
<1> SUFFICES ASSUME NEW j \in Job, jobs'[j].status = "completed"
             PROVE  CurrentRun(j)' \in Run /\ HasResult(CurrentRun(j))'
  BY DEF CompletedInv
<1>1. /\ CurrentRun(j)' = CurrentRun(j)
      /\ \/ jobs[j].status = "completed"
         \/ \E w \in Worker : Complete(w) /\ OwnsLease(w) /\ workers[w].job = j
  BY CrawlStepIsQueueStep, CompletedFate DEF CrawlInv, CurrentRun
<1>2. CurrentRun(j) \in Run /\ HasResult(CurrentRun(j))
  <2>1. CASE jobs[j].status = "completed"
    BY <2>1 DEF CompletedInv
  <2>2. CASE \E w \in Worker : Complete(w) /\ OwnsLease(w) /\ workers[w].job = j
    <3> PICK w \in Worker : Complete(w) /\ OwnsLease(w) /\ workers[w].job = j
      BY <2>2
    <3>1. workers[w].pc = "succeeded" /\ HolderRuns
      BY HolderRun DEF Complete, CrawlInv
    <3>2. RunOf(w) = CurrentRun(j)
      BY DEF OwnsLease, CrawlInv, QueueInv, NoStrandedRow, Running, RunOf, CurrentRun
    <3> QED
      BY <3>1, <3>2 DEF CrawlInv, SuccessHasResult, HolderRuns, Holding
  <2> QED
    BY <1>1, <2>1, <2>2
<1>3. PICK o, w : RecordFate(o, w)
  BY SomeFate
<1>4. HasResult(CurrentRun(j))'
  <2> DEFINE r == CurrentRun(j)
  <2>1. crawlRuns[r] \in ClosedCrawl => crawlRuns'[r] = crawlRuns[r]
    BY <1>2, <1>3, ClosedStays
  <2>2. VerdictFor(JobOf(r)) =>
            \E q \in Run : JobOf(q) = JobOf(r) /\ recipeRuns'[q].status = "decided"
    BY <1>3, ClosedStays DEF VerdictFor
  <2> QED
    BY <1>1, <1>2, <2>1, <2>2 DEF HasResult, VerdictFor, ClosedCrawl
<1> QED
  BY <1>1, <1>2, <1>4

\* However late a handler, a heartbeat or a cleanup is, a job is completed only with
\* the finished crawl of the attempt that completed it.
THEOREM ResultRecorded == CrawlSpec => []CompletedJobHasResult
<1>1. CrawlInit => CompletedInv
  BY DEF CrawlInit, QueueInit, AbsentRow, CompletedInv
<1>2. CompletedInv => CompletedJobHasResult
  BY DEF CompletedInv, CompletedJobHasResult, CurrentRun, HasResult, VerdictFor, JobOf
<1> QED
  BY <1>1, <1>2, CompletedStep, CrawlInvHolds, PTL DEF CrawlSpec
-----------------------------------------------------------------------------
(* One open record per job, when heartbeats are timely *)

Opened == {"preparing", "crawling", "closing", "closed", "deciding", "returned"}

\* The records that the handler of w has opened itself.
OwnRows(w) ==
    {row \in {"crawl", "recipe"} \X {RunOf(w)} :
        row[1] = "recipe" => handlers[w].recipe /\ handlers[w].step # "preparing"}

\* What a polled handler knows of all its job's open records.
HandlerSees(w) ==
    LET h == handlers[w]
        open == RunningRows(workers[w].job)
    IN  /\ h.step = "superseding" => RunningRecipeRows(workers[w].job) \subseteq h.rows
        /\ h.step \in {"widening", "opening"} => open \subseteq h.rows
        /\ h.step = "preparing" => h.recipe
        /\ h.step \in Opened => open \subseteq OwnRows(w)
        /\ h.step = "returned" /\ h.outcome \in Result => open = {}
        /\ h.recipe /\ h.step \in Opened \ {"preparing", "returned"} =>
               h.recipeRun = workers[w].token

CleanupSees(w) ==
    LET c == cleanups[w]
    IN  /\ c.step = "superseding" => RunningRecipeRows(workers[w].job) \subseteq c.rows
        /\ c.step = "widening" => RunningRows(workers[w].job) \subseteq c.rows

HolderSees(w) ==
    Holds(w, workers[w].job) =>
        /\ workers[w].pc = "handling" => HandlerSees(w)
        /\ workers[w].pc = "cancelling" => CleanupSees(w)
        /\ workers[w].pc \in {"succeeded", "failing", "recording"} =>
               RunningRows(workers[w].job) = {}

\* A job that nobody works on, and that was not abandoned on its last attempt, has no
\* open record.
LetGo == {"absent", "pending", "completed", "cancelled"}
ReleasedAreClosed == \A j \in Job : jobs[j].status \in LetGo => RunningRows(j) = {}

OneOfAKind == \A j \in Job : \A a, b \in RunningRows(j) : a[1] = b[1] => a = b

TimelyInv ==
    /\ CrawlInv /\ LeaseAhead
    /\ OneOfAKind /\ RecipeRunFollowsCrawl /\ ReleasedAreClosed
    /\ \A w \in Worker : HolderSees(w) /\ workers[w].pc # "lost"

LEMMA RowsOfJob ==
    ASSUME NEW j
    PROVE  /\ RunningRows(j) = {row \in Row : JobOf(row[2]) = j /\ StillRunning(row)}
           /\ \A row \in RunningRows(j) :
                \/ row \in RunningRecipeRows(j) /\ row = <<"recipe", row[2]>>
                     /\ recipeRuns[row[2]].status = "running"
                \/ row \in RunningCrawlRows(j) /\ row = <<"crawl", row[2]>>
                     /\ crawlRuns[row[2]] = "running"
           /\ RunningRecipeRows(j) \subseteq RunningRows(j)
           /\ RunningCrawlRows(j) \subseteq RunningRows(j)
BY RunType DEF RunningRows, RunningRecipeRows, RunningCrawlRows, StillRunning

LEMMA OpenRow ==
    ASSUME NEW j, NEW r \in Run, JobOf(r) = j
    PROVE  /\ crawlRuns[r] = "running" <=> <<"crawl", r>> \in RunningRows(j)
           /\ recipeRuns[r].status = "running" <=> <<"recipe", r>> \in RunningRows(j)
BY RunType DEF RunningRows, StillRunning

\* A record that somebody may open belongs to the job of the handler that opens it.
LEMMA FewerRows ==
    ASSUME CrawlInv, [CrawlNext]_crawlVars, NEW j \in Job,
           \A w \in Worker : OpenRun(w) \/ BeginRecipeRun(w) => workers[w].job # j
    PROVE  RunningRows(j)' \subseteq RunningRows(j)
<1>1. PICK o, w : RecordFate(o, w) /\ (Opens(o, w) => w \in Worker /\ (OpenRun(w) \/ BeginRecipeRun(w)))
  BY SomeFate
<1>2. \A r \in Run : JobOf(r) = j /\ Opens(o, w) => r # RunOf(w)
  BY <1>1 DEF RunOf, JobOf
<1>3. \A r \in Run : JobOf(r) = j /\ crawlRuns'[r] = "running" => crawlRuns[r] = "running"
  BY <1>1, <1>2 DEF RecordFate, ClosedCrawl, Opens
<1>4. \A r \in Run : JobOf(r) = j /\ recipeRuns'[r].status = "running" => recipeRuns[r].status = "running"
  BY <1>1, <1>2 DEF RecordFate, Opens
<1> QED
  BY <1>3, <1>4, RunType DEF RunningRows, StillRunning

\* A token that is in the row after a step, and was handed out before it, was in the row
\* before the step.
LEMMA StillHolds ==
    ASSUME QueueInv, [QueueNext]_queueVars, NEW v \in Worker, workers[v].pc \in Holding,
           workers'[v].pc \in Holding,
           workers'[v].job = workers[v].job, workers'[v].token = workers[v].token,
           Holds(v, workers[v].job)'
    PROVE  Holds(v, workers[v].job)
<1> DEFINE j == workers[v].job
<1>1. /\ j \in Job /\ jobs[j].attempts \in Nat /\ jobs'[j].attempts \in Nat
      /\ workers[v].token \in Nat /\ workers[v].token <= jobs[j].attempts
  BY NextQueueInv DEF QueueInv, QueueTypeOK, TokenBound, JobRow, Runner
<1>2. jobs'[j].status = "running" /\ jobs'[j].token = workers[v].token
  BY <1>1 DEF Holds, Running
<1>3. jobs'[j].token = jobs'[j].attempts
  BY <1>1, <1>2, NextQueueInv DEF QueueInv, NoStrandedRow, Running
<1>4. jobs'[j].attempts >= jobs[j].attempts
  BY <1>1, AttemptsGrow
<1>5. jobs'[j].attempts = jobs[j].attempts /\ workers[v].token = jobs[j].attempts
  BY <1>1, <1>2, <1>3, <1>4
<1>6. jobs[j].status = "running"
  <2>1. CASE TableKept \/ TableSwept
    BY <1>1, <1>2, <2>1 DEF TableKept, TableSwept
  <2>2. ASSUME NEW i \in Job, OthersKept(i), Inserted(i) \/ Started(i) \/ Released(i) \/ Cancelled(i)
        PROVE  jobs[j].status = "running"
    <3>1. CASE i # j
      BY <1>1, <1>2, <2>2, <3>1 DEF OthersKept
    <3>2. CASE i = j
      BY <1>1, <1>2, <1>5, <2>2, <3>2 DEF Inserted, Started, Released, Cancelled
    <3> QED
      BY <3>1, <3>2
  <2> QED
    BY <2>1, <2>2, TableFate
<1> QED
  BY <1>1, <1>5, <1>6 DEF Holds, Running, QueueInv, NoStrandedRow

\* Where a step of others leaves v: the open records of its job can only get fewer.
LEMMA OthersSee ==
    ASSUME TimelyInv, [CrawlNext]_crawlVars, NEW v \in Worker,
           handlers'[v] = handlers[v], cleanups'[v] = cleanups[v],
           workers'[v].pc = workers[v].pc, workers'[v].job = workers[v].job,
           workers'[v].token = workers[v].token,
           ~OpenRun(v) /\ ~BeginRecipeRun(v)
    PROVE  HolderSees(v)'
<1> DEFINE j == workers[v].job
<1> SUFFICES ASSUME Holds(v, workers[v].job)', workers[v].pc \in Holding
             PROVE  /\ workers[v].pc = "handling" => HandlerSees(v)'
                    /\ workers[v].pc = "cancelling" => CleanupSees(v)'
                    /\ workers[v].pc \in {"succeeded", "failing", "recording"} => RunningRows(j)' = {}
  BY DEF HolderSees, Holds
<1>1. Holds(v, j) /\ j \in Job /\ [QueueNext]_queueVars
  BY StillHolds, CrawlStepIsQueueStep DEF TimelyInv, CrawlInv, QueueInv, QueueTypeOK
<1>2. RunningRows(j)' \subseteq RunningRows(j)
  <2>1. \A w \in Worker : OpenRun(w) \/ BeginRecipeRun(w) => workers[w].job # j
    <3> SUFFICES ASSUME NEW w \in Worker, OpenRun(w) \/ BeginRecipeRun(w), workers[w].job = j
                 PROVE  FALSE
      OBVIOUS
    <3>1. Holds(w, j)
      BY DEF OpenRun, BeginRecipeRun, At, TimelyInv, LeaseAhead
    <3> QED
      BY <1>1, <3>1 DEF TimelyInv, CrawlInv, QueueInv, OneHolder
  <2> QED
    BY <1>1, <2>1, FewerRows DEF TimelyInv
<1>3. RunningRecipeRows(j)' \subseteq RunningRecipeRows(j)
  BY <1>2 DEF RunningRecipeRows
<1>4. OwnRows(v)' = OwnRows(v)
  BY DEF OwnRows, RunOf
<1>5. HolderSees(v)
  BY DEF TimelyInv
<1>6. workers[v].pc = "handling" => HandlerSees(v)'
  BY <1>1, <1>2, <1>3, <1>4, <1>5 DEF HolderSees, HandlerSees
<1>7. workers[v].pc = "cancelling" => CleanupSees(v)'
  BY <1>1, <1>2, <1>3, <1>5 DEF HolderSees, CleanupSees
<1> QED
  BY <1>1, <1>2, <1>5, <1>6, <1>7 DEF HolderSees
-----------------------------------------------------------------------------
(* The handler's own steps *)

\* A polled handler works for the job that its runner holds.
LEMMA Polled ==
    ASSUME TimelyInv, NEW w \in Worker, workers[w].pc = "handling"
    PROVE  /\ Holds(w, workers[w].job) /\ HandlerSees(w) /\ HandlerInv(w)
           /\ workers[w].job \in Job /\ RunOf(w) \in Run /\ JobOf(RunOf(w)) = workers[w].job
           /\ OwnsRow(w) /\ OwnsLease(w) /\ cleanups[w].step = "none"
           /\ RecordTypeOK /\ handlers \in [Worker -> Handler] /\ workers[w].token \in Nat
<1>1. Holds(w, workers[w].job) /\ HandlerSees(w) /\ HandlerInv(w)
  BY DEF TimelyInv, LeaseAhead, HolderSees, CrawlInv
<1>2. /\ workers[w].job \in Job /\ RunOf(w) \in Run /\ workers[w].token \in Nat
      /\ workers[w].beat \in Nat /\ jobs[workers[w].job].lease \in Nat
  BY HolderRun DEF TimelyInv, CrawlInv, HolderRuns, Holding, QueueInv, QueueTypeOK, Runner, JobRow
<1>3. OwnsRow(w) /\ OwnsLease(w)
  BY <1>1, <1>2 DEF TimelyInv, LeaseAhead, OwnsRow, OwnsLease, Holds, Running
<1>4. cleanups[w].step = "none"
  BY DEF TimelyInv, CrawlInv, CrawlTypeOK
<1> QED
  BY <1>1, <1>2, <1>3, <1>4, CrawlFacts DEF TimelyInv, RunOf, JobOf

LEMMA HandlerGoesOn ==
    ASSUME NEW w \in Worker, workers'[w].pc = "handling", HandlerSees(w)'
    PROVE  HolderSees(w)'
BY DEF HolderSees

LEMMA ReadsSee ==
    ASSUME TimelyInv, NEW w \in Worker, NEW recipe \in BOOLEAN,
           FindAbandoned(w, recipe) \/ LockRecipeRuns(w) \/ LockCrawlRuns(w)
    PROVE  HolderSees(w)'
<1>1. workers[w].pc = "handling" /\ UNCHANGED <<workers, recordVars>>
  BY DEF FindAbandoned, LockRecipeRuns, LockCrawlRuns, At, queueVars
<1>2. /\ HandlerSees(w) /\ handlers \in [Worker -> Handler] /\ workers' = workers
      /\ RunningRows(workers[w].job)' = RunningRows(workers[w].job)
      /\ RunningRecipeRows(workers[w].job)' = RunningRecipeRows(workers[w].job)
  BY <1>1, Polled DEF RunningRows, RunningRecipeRows, StillRunning, recordVars
<1>3. CASE FindAbandoned(w, recipe)
  <2>1. handlers'[w].step = "superseding" /\ handlers'[w].rows = RunningRecipeRows(workers[w].job)
    BY <1>2, <1>3 DEF FindAbandoned, AbandonedRecipeRuns, Handler
  <2> QED
    BY <1>1, <1>2, <2>1, HandlerGoesOn DEF HandlerSees, Opened
<1>4. CASE LockRecipeRuns(w)
  <2>1. /\ handlers[w].step = "superseding" /\ handlers'[w].step = "widening"
        /\ handlers'[w].rows = StillRunningOf(handlers[w].rows) \cup RunningCrawlRows(workers[w].job)
    BY <1>2, <1>4 DEF LockRecipeRuns, At, AbandonedCrawlRuns, Handler
  <2>2. \A row \in RunningRows(workers[w].job) : row \in handlers'[w].rows
    BY <1>2, <2>1, RowsOfJob DEF HandlerSees, StillRunningOf
  <2> QED
    BY <1>1, <1>2, <2>1, <2>2, HandlerGoesOn DEF HandlerSees, Opened
<1>5. CASE LockCrawlRuns(w)
  <2>1. /\ handlers[w].step = "widening" /\ handlers'[w].step = "opening"
        /\ handlers'[w].rows = StillRunningOf(handlers[w].rows)
    BY <1>2, <1>5 DEF LockCrawlRuns, At, Handler
  <2>2. \A row \in RunningRows(workers[w].job) : row \in handlers'[w].rows
    BY <1>2, <2>1, RowsOfJob DEF HandlerSees, StillRunningOf
  <2> QED
    BY <1>1, <1>2, <2>1, <2>2, HandlerGoesOn DEF HandlerSees, Opened
<1> QED
  BY <1>3, <1>4, <1>5

\* begin_crawl_run cancels every open record of the job and opens the attempt's own.
LEMMA OpenRunSees ==
    ASSUME TimelyInv, NEW w \in Worker, OpenRun(w)
    PROVE  /\ HolderSees(w)'
           /\ \A row \in RunningRows(workers[w].job)' : row = <<"crawl", RunOf(w)>>
<1> DEFINE j == workers[w].job
<1>1. workers[w].pc = "handling" /\ handlers[w].step = "opening" /\ workers' = workers
  BY DEF OpenRun, At, queueVars
<1>2. HandlerSees(w) /\ RecordTypeOK /\ handlers \in [Worker -> Handler]
  BY <1>1, Polled
<1>3. RunningRows(j) \subseteq handlers[w].rows
  BY <1>1, <1>2 DEF HandlerSees
<1>4. \A r \in Run : /\ r # RunOf(w) => crawlRuns'[r] = IF <<"crawl", r>> \in handlers[w].rows
                                                        THEN "cancelled" ELSE crawlRuns[r]
                     /\ recipeRuns'[r] = IF <<"recipe", r>> \in handlers[w].rows
                                         THEN [recipeRuns[r] EXCEPT !.status = "cancelled"]
                                         ELSE recipeRuns[r]
  BY <1>2 DEF OpenRun, CrawlsCancelled, RecipesCancelled, RecordTypeOK
<1>5. \A r \in Run : JobOf(r) = j /\ crawlRuns'[r] = "running" => r = RunOf(w)
  BY <1>3, <1>4, RunType DEF RunningRows, StillRunning
<1>6. \A r \in Run : JobOf(r) = j => recipeRuns'[r].status # "running"
  <2> SUFFICES ASSUME NEW r \in Run, JobOf(r) = j PROVE recipeRuns'[r].status # "running"
    OBVIOUS
  <2>1. recipeRuns[r].status = "running" => <<"recipe", r>> \in handlers[w].rows
    BY <1>3, OpenRow
  <2>2. recipeRuns[r] \in RecipeRun
    BY <1>2 DEF RecordTypeOK
  <2> QED
    BY <1>4, <2>1, <2>2 DEF RecipeRun
<1>7. \A row \in RunningRows(j)' : row = <<"crawl", RunOf(w)>>
  BY <1>1, <1>5, <1>6, RunType DEF RunningRows, StillRunning
<1>8. /\ handlers'[w].step = IF handlers[w].recipe THEN "preparing" ELSE "crawling"
      /\ handlers'[w].recipe = handlers[w].recipe
  BY <1>2 DEF OpenRun, Handler
<1>9. RunningRows(j)' \subseteq OwnRows(w)'
  BY <1>1, <1>7 DEF OwnRows, RunOf
<1> QED
  BY <1>1, <1>7, <1>8, <1>9, HandlerGoesOn DEF HandlerSees, Opened

LEMMA BeginRecipeSees ==
    ASSUME TimelyInv, NEW w \in Worker, BeginRecipeRun(w)
    PROVE  /\ HolderSees(w)'
           /\ RunningRows(workers[w].job)' \subseteq {"crawl", "recipe"} \X {RunOf(w)}
           /\ recipeRuns' = [recipeRuns EXCEPT
                               ![RunOf(w)] = [status |-> "running", crawlRun |-> workers[w].token]]
<1> DEFINE j == workers[w].job
<1>1. /\ workers[w].pc = "handling" /\ handlers[w].step = "preparing" /\ workers' = workers
      /\ crawlRuns' = crawlRuns
  BY DEF BeginRecipeRun, At, queueVars
<1>2. /\ HandlerSees(w) /\ RecordTypeOK /\ handlers \in [Worker -> Handler] /\ RunOf(w) \in Run
      /\ JobOf(RunOf(w)) = j
  BY <1>1, Polled
<1>3. RunningRows(j) \subseteq OwnRows(w) /\ handlers[w].recipe
  BY <1>1, <1>2 DEF HandlerSees, Opened
<1>4. {r \in Run : JobOf(r) = workers[w].job /\ recipeRuns[r].status = "running"} = {}
  BY <1>1, <1>3, RunType DEF RunningRows, StillRunning, OwnRows
<1>5. /\ recipeRuns' = [recipeRuns EXCEPT
                          ![RunOf(w)] = [status |-> "running", crawlRun |-> workers[w].token]]
      /\ handlers' = [handlers EXCEPT ![w].step = "crawling", ![w].recipeRun = RunOf(w)[2]]
  BY <1>4 DEF BeginRecipeRun
<1>6. \A r \in Run : r # RunOf(w) => recipeRuns'[r] = recipeRuns[r]
  BY <1>2, <1>5 DEF RecordTypeOK
<1>7. \A r \in Run : JobOf(r) = j /\ r # RunOf(w) =>
          crawlRuns'[r] # "running" /\ recipeRuns'[r].status # "running"
  <2> SUFFICES ASSUME NEW r \in Run, JobOf(r) = j, r # RunOf(w)
               PROVE  crawlRuns'[r] # "running" /\ recipeRuns'[r].status # "running"
    OBVIOUS
  <2>1. <<"crawl", r>> \notin OwnRows(w) /\ <<"recipe", r>> \notin OwnRows(w)
    BY DEF OwnRows
  <2>2. crawlRuns[r] # "running" /\ recipeRuns[r].status # "running"
    BY <1>3, <2>1, OpenRow
  <2> QED
    BY <1>1, <1>6, <2>2
<1>8. RunningRows(j)' \subseteq {"crawl", "recipe"} \X {RunOf(w)}
  <2> SUFFICES ASSUME NEW row \in RunningRows(j)' PROVE row \in {"crawl", "recipe"} \X {RunOf(w)}
    OBVIOUS
  <2>1. row \in Row /\ JobOf(row[2]) = j /\ StillRunning(row)'
    BY <1>1 DEF RunningRows
  <2>2. row[2] = RunOf(w)
    BY <1>7, <2>1, RunType DEF StillRunning
  <2> QED
    BY <2>1, <2>2, RunType
<1>9. /\ handlers'[w].step = "crawling" /\ handlers'[w].recipe /\ handlers'[w].recipeRun = workers[w].token
  BY <1>2, <1>3, <1>5 DEF Handler, RunOf
<1>10. RunningRows(j)' \subseteq OwnRows(w)'
  BY <1>1, <1>8, <1>9 DEF OwnRows, RunOf
<1> QED
  BY <1>1, <1>5, <1>8, <1>9, <1>10, HandlerGoesOn DEF HandlerSees, Opened

\* Looking at a record before it is closed.
LEMMA LockToCloseSees ==
    ASSUME TimelyInv, NEW w \in Worker,
           (\E outcome \in {"completed", "failed"} : CloseCrawl(w, outcome)) \/ DecideRecipe(w)
    PROVE  HolderSees(w)'
<1>1. /\ workers[w].pc = "handling" /\ handlers[w].step \in {"crawling", "closed"}
      /\ workers' = workers /\ UNCHANGED recordVars
  BY DEF CloseCrawl, DecideRecipe, LockToClose, At, queueVars
<1>2. HandlerSees(w) /\ HandlerInv(w) /\ handlers \in [Worker -> Handler]
  BY <1>1, Polled
<1>3. /\ handlers'[w].recipe = handlers[w].recipe /\ handlers'[w].recipeRun = handlers[w].recipeRun
      /\ \/ handlers'[w].step \in {"closing", "deciding"}
         \/ handlers'[w].step = "returned" /\ handlers'[w].outcome = "error"
  <2>1. ASSUME NEW row, NEW step, NEW outcome, LockToClose(w, row, step, outcome),
               step \in {"closing", "deciding"}
        PROVE  /\ handlers'[w].recipe = handlers[w].recipe /\ handlers'[w].recipeRun = handlers[w].recipeRun
               /\ \/ handlers'[w].step \in {"closing", "deciding"}
                  \/ handlers'[w].step = "returned" /\ handlers'[w].outcome = "error"
    <3>1. CASE Closable(row)
      BY <1>2, <2>1, <3>1 DEF LockToClose, Handler
    <3>2. CASE ~Closable(row)
      BY <1>2, <2>1, <3>2 DEF LockToClose, Handler
    <3> QED
      BY <3>1, <3>2
  <2> QED
    BY <2>1 DEF CloseCrawl, DecideRecipe
<1>4. RunningRows(workers[w].job)' = RunningRows(workers[w].job) /\ OwnRows(w)' = OwnRows(w)
  BY <1>1, <1>3 DEF RunningRows, StillRunning, recordVars, OwnRows, RunOf
<1> QED
  BY <1>1, <1>2, <1>3, <1>4, HandlerGoesOn DEF HandlerSees, Opened, Result

LEMMA CommitCrawlSees ==
    ASSUME TimelyInv, NEW w \in Worker, CommitCrawl(w)
    PROVE  HolderSees(w)'
<1> DEFINE j == workers[w].job
<1>1. workers[w].pc = "handling" /\ handlers[w].step = "closing" /\ workers' = workers /\ recipeRuns' = recipeRuns
  BY DEF CommitCrawl, At, queueVars
<1>2. /\ HandlerSees(w) /\ HandlerInv(w) /\ handlers \in [Worker -> Handler] /\ RecordTypeOK
      /\ RunOf(w) \in Run /\ JobOf(RunOf(w)) = j
  BY <1>1, Polled
<1>3. RunningRows(j) \subseteq OwnRows(w) /\ (handlers[w].recipe => handlers[w].recipeRun = workers[w].token)
  BY <1>1, <1>2 DEF HandlerSees, Opened
<1>4. /\ handlers'[w].step = IF handlers[w].recipe THEN "closed" ELSE "returned"
      /\ handlers'[w].recipe = handlers[w].recipe /\ handlers'[w].recipeRun = handlers[w].recipeRun
  BY <1>2 DEF CommitCrawl, Handler
<1>5. /\ \A r \in Run : r # RunOf(w) => crawlRuns'[r] = crawlRuns[r]
      /\ crawlRuns'[RunOf(w)] # "running"
  BY <1>1, <1>2 DEF CommitCrawl, RecordTypeOK, HandlerInv, Result
<1>6. ASSUME NEW row \in RunningRows(j)'
      PROVE  row = <<"recipe", RunOf(w)>> /\ handlers[w].recipe
  <2>1. row \in Row /\ JobOf(row[2]) = j /\ StillRunning(row)'
    BY <1>1 DEF RunningRows
  <2>2. StillRunning(row) /\ row # <<"crawl", RunOf(w)>>
    BY <1>1, <1>5, <2>1, RunType DEF StillRunning
  <2>3. row \in OwnRows(w)
    BY <1>3, <2>1, <2>2 DEF RunningRows
  <2> QED
    BY <2>2, <2>3 DEF OwnRows
<1>7. RunningRows(j)' \subseteq OwnRows(w)'
  BY <1>1, <1>4, <1>6 DEF OwnRows, RunOf
<1>8. ~handlers[w].recipe => RunningRows(j)' = {}
  BY <1>6
<1> QED
  BY <1>1, <1>3, <1>4, <1>7, <1>8, HandlerGoesOn DEF HandlerSees, Opened

LEMMA CommitRecipeSees ==
    ASSUME TimelyInv, NEW w \in Worker, CommitRecipe(w)
    PROVE  HolderSees(w)'
<1> DEFINE j == workers[w].job
<1>1. workers[w].pc = "handling" /\ handlers[w].step = "deciding" /\ workers' = workers /\ crawlRuns' = crawlRuns
  BY DEF CommitRecipe, At, queueVars
<1>2. /\ HandlerSees(w) /\ HandlerInv(w) /\ handlers \in [Worker -> Handler] /\ RecordTypeOK
      /\ RunOf(w) \in Run /\ JobOf(RunOf(w)) = j
  BY <1>1, Polled
<1>3. RunningRows(j) \subseteq OwnRows(w) /\ GivenRun(w) = RunOf(w)
  BY <1>1, <1>2 DEF HandlerSees, Opened, HandlerInv, GivenRun, RunOf
<1>4. crawlRuns[RunOf(w)] # "running"
  BY <1>1, <1>2 DEF HandlerInv, Result
<1>5. /\ \A r \in Run : r # RunOf(w) => recipeRuns'[r] = recipeRuns[r]
      /\ recipeRuns'[RunOf(w)].status # "running"
  BY <1>1, <1>2, <1>3 DEF CommitRecipe, GivenRun, RunOf, RecordTypeOK, RecipeRun
<1>6. ASSUME NEW row \in RunningRows(j)'
      PROVE  FALSE
  <2>1. row \in Row /\ JobOf(row[2]) = j /\ StillRunning(row)'
    BY <1>1 DEF RunningRows
  <2>2. StillRunning(row) /\ row # <<"recipe", RunOf(w)>> /\ row # <<"crawl", RunOf(w)>>
    BY <1>1, <1>4, <1>5, <2>1, RunType DEF StillRunning
  <2>3. row \in OwnRows(w)
    BY <1>3, <2>1, <2>2 DEF RunningRows
  <2> QED
    BY <2>2, <2>3 DEF OwnRows
<1>7. handlers'[w].step = "returned"
  BY <1>2 DEF CommitRecipe, Handler
<1>8. RunningRows(j)' = {}
  BY <1>6
<1> QED
  BY <1>1, <1>7, <1>8, HandlerGoesOn DEF HandlerSees, Opened

LEMMA HandlerStepSees ==
    ASSUME TimelyInv, NEW w \in Worker, HandlerStepOf(w)
    PROVE  HolderSees(w)'
BY ReadsSee, OpenRunSees, BeginRecipeSees, LockToCloseSees, CommitCrawlSees, CommitRecipeSees
   DEF HandlerStepOf

-----------------------------------------------------------------------------
(* The runner's own steps *)

LEMMA CleanupStepSees ==
    ASSUME TimelyInv, NEW w \in Worker, CleanUp(w), [QueueNext]_queueVars
    PROVE  HolderSees(w)'
<1> DEFINE j == workers[w].job
<1>1. workers[w].pc = "cancelling" /\ workers \in [Worker -> Runner] /\ RecordTypeOK
      /\ cleanups \in [Worker -> Cleanup]
  BY CrawlFacts DEF TimelyInv, CrawlInv, CrawlTypeOK, CleanUp, FindRecipeRuns, FindCrawlRuns, CancelCrawlRuns
<1>2. HolderSees(w)
  BY DEF TimelyInv
<1>3. CASE FindRecipeRuns(w)
  <2>1. /\ workers' = workers /\ UNCHANGED recordVars /\ jobs' = jobs
        /\ cleanups'[w].step = "superseding" /\ cleanups'[w].rows = RecipeRunsToCancel(w)
    BY <1>1, <1>3 DEF FindRecipeRuns, queueVars
  <2>2. Holds(w, j) => cleanups'[w].rows = RunningRecipeRows(j)
    BY <2>1 DEF RecipeRunsToCancel, HoldsToken, Holds, Running
  <2>3. RunningRecipeRows(j)' = RunningRecipeRows(j)
    BY <2>1 DEF RunningRecipeRows, RunningRows, StillRunning, recordVars
  <2> QED
    BY <1>1, <2>1, <2>2, <2>3 DEF HolderSees, CleanupSees, Holds, Running
<1>4. CASE FindCrawlRuns(w)
  <2>1. /\ workers' = workers /\ UNCHANGED recordVars /\ jobs' = jobs
        /\ cleanups[w].step = "superseding" /\ cleanups'[w].step = "widening"
        /\ cleanups'[w].rows = StillRunningOf(cleanups[w].rows) \cup CrawlRunsToCancel(w)
    BY <1>1, <1>4 DEF FindCrawlRuns, queueVars
  <2>2. RunningRows(j)' = RunningRows(j)
    BY <2>1 DEF RunningRows, StillRunning, recordVars
  <2>3. ASSUME Holds(w, j), NEW row \in RunningRows(j)
        PROVE  row \in cleanups'[w].rows
    <3>1. CrawlRunsToCancel(w) = RunningCrawlRows(j)
      BY <2>3 DEF CrawlRunsToCancel, HoldsToken, Holds, Running
    <3>2. RunningRecipeRows(j) \subseteq cleanups[w].rows /\ StillRunning(row)
      BY <1>1, <1>2, <2>1, <2>3 DEF HolderSees, CleanupSees, RunningRows
    <3> QED
      BY <2>1, <2>3, <3>1, <3>2, RowsOfJob DEF StillRunningOf
  <2> QED
    BY <1>1, <2>1, <2>2, <2>3 DEF HolderSees, CleanupSees, Holds, Running
<1>5. CASE CancelCrawlRuns(w)
  <2>1. /\ cleanups[w].step = "widening" /\ CancelRows(StillRunningOf(cleanups[w].rows))
        /\ workers'[w].pc = "failing" /\ workers'[w].job = j /\ workers'[w].token = workers[w].token
        /\ jobs' = jobs
    BY <1>1, <1>5 DEF CancelCrawlRuns, CancelRuns, Goto, Runner
  <2>2. ASSUME Holds(w, j)
        PROVE  RunningRows(j)' = {}
    <3>1. RunningRows(j) \subseteq StillRunningOf(cleanups[w].rows)
      BY <1>1, <1>2, <2>1, <2>2 DEF HolderSees, CleanupSees, RunningRows, StillRunningOf
    <3>2. \A r \in Run : /\ crawlRuns'[r] = IF <<"crawl", r>> \in StillRunningOf(cleanups[w].rows)
                                            THEN "cancelled" ELSE crawlRuns[r]
                         /\ recipeRuns'[r] = IF <<"recipe", r>> \in StillRunningOf(cleanups[w].rows)
                                             THEN [recipeRuns[r] EXCEPT !.status = "cancelled"]
                                             ELSE recipeRuns[r]
      BY <2>1 DEF CancelRows, CrawlsCancelled, RecipesCancelled
    <3>3. ASSUME NEW r \in Run, JobOf(r) = j
          PROVE  crawlRuns'[r] # "running" /\ recipeRuns'[r].status # "running"
      <4>1. recipeRuns[r] \in RecipeRun
        BY <1>1 DEF RecordTypeOK
      <4>2. /\ crawlRuns[r] = "running" => <<"crawl", r>> \in StillRunningOf(cleanups[w].rows)
            /\ recipeRuns[r].status = "running" => <<"recipe", r>> \in StillRunningOf(cleanups[w].rows)
        BY <3>1, <3>3, OpenRow
      <4>3. crawlRuns'[r] # "running"
        BY <3>2, <4>2
      <4>4. recipeRuns'[r].status # "running"
        BY <3>2, <4>1, <4>2 DEF RecipeRun
      <4> QED
        BY <4>3, <4>4
    <3>4. ASSUME NEW row \in Row, JobOf(row[2]) = j
          PROVE  ~StillRunning(row)'
      <4>1. crawlRuns'[row[2]] # "running" /\ recipeRuns'[row[2]].status # "running"
        BY <3>3, <3>4, RunType
      <4> QED
        BY <4>1 DEF StillRunning
    <3> QED
      BY <2>1, <3>4 DEF RunningRows
  <2>3. Holds(w, j)' => Holds(w, j)
    BY <1>1, <2>1, StillHolds DEF TimelyInv, CrawlInv, Holding
  <2> QED
    BY <2>1, <2>2, <2>3 DEF HolderSees
<1> QED
  BY <1>3, <1>4, <1>5 DEF CleanUp

\* Leaving the handler: what it left closed stays closed while the token is held.
LEMMA ReturnsSees ==
    ASSUME TimelyInv, NEW w \in Worker, Returns(w) \/ DatabaseFails(w), [QueueNext]_queueVars
    PROVE  HolderSees(w)'
<1> DEFINE j == workers[w].job
<1>1. /\ workers[w].pc = "handling" /\ workers \in [Worker -> Runner] /\ jobs' = jobs
      /\ UNCHANGED recordVars /\ cleanups'[w].step = "none"
  <2>1. cleanups \in [Worker -> Cleanup] /\ workers \in [Worker -> Runner]
    BY CrawlFacts DEF TimelyInv
  <2> QED
    BY <2>1 DEF Returns, Succeeds, ReturnsError, DatabaseFails, HandlerSucceeds, HandlerFails,
                Leave, NoCleanup
<1>2. /\ workers'[w].job = j /\ workers'[w].token = workers[w].token
      /\ \/ workers'[w].pc = "cancelling"
         \/ workers'[w].pc = "succeeded" /\ Succeeds(w)
  BY <1>1 DEF Returns, Succeeds, ReturnsError, DatabaseFails, HandlerSucceeds, HandlerFails, Goto, Runner
<1>3. CASE workers'[w].pc = "cancelling"
  BY <1>1, <1>3 DEF HolderSees, CleanupSees
<1>4. CASE workers'[w].pc = "succeeded" /\ Succeeds(w)
  <2>1. handlers[w].step = "returned" /\ handlers[w].outcome \in Result
    BY <1>4 DEF Succeeds, Result
  <2>2. RunningRows(j) = {}
    BY <1>1, <2>1, Polled DEF HandlerSees
  <2>3. RunningRows(j)' = {}
    BY <1>1, <1>2, <2>2 DEF RunningRows, StillRunning, recordVars
  <2> QED
    BY <1>2, <1>4, <2>3 DEF HolderSees
<1> QED
  BY <1>2, <1>3, <1>4

LEMMA LosesNone == ASSUME TimelyInv, NEW w \in Worker PROVE ~LoseLease(w)
BY Polled DEF LoseLease

LEMMA QueueOnlySees ==
    ASSUME TimelyInv, NEW w \in Worker, QueueOnly(w), [CrawlNext]_crawlVars
    PROVE  HolderSees(w)'
<1>1. workers \in [Worker -> Runner] /\ UNCHANGED runVars
  BY CrawlFacts DEF TimelyInv, QueueOnly
<1>2. CASE Sweep(w) \/ ClaimNothing(w) \/ Restart(w)
  BY <1>1, <1>2 DEF HolderSees, Sweep, ClaimNothing, Restart, IdleRunner, Holds, Holding, Runner
<1>3. CASE Renew(w)
  <2>1. ~OpenRun(w) /\ ~BeginRecipeRun(w)
    <3>1. workers'[w].beat = Heartbeat /\ workers[w].beat = 0 /\ Heartbeat # 0
      BY <1>1, <1>3, QueueAssumption DEF Renew, Runner
    <3> QED
      BY <3>1 DEF OpenRun, BeginRecipeRun, queueVars
  <2>2. /\ workers'[w].pc = workers[w].pc /\ workers'[w].job = workers[w].job
        /\ workers'[w].token = workers[w].token
    BY <1>1, <1>3 DEF Renew, Runner
  <2> QED
    BY <1>1, <2>1, <2>2, OthersSee DEF runVars
<1>4. CASE ShutDown(w)
  <2>1. workers[w].pc = "handling" => cleanups'[w].step = "none"
    BY <1>1, Polled DEF runVars
  <2> QED
    BY <1>1, <1>4, <2>1 DEF HolderSees, CleanupSees, ShutDown, Goto, Holds, Holding, Runner
<1>5. CASE LockForFailure(w)
  <2>1. /\ workers[w].pc = "failing" /\ workers'[w].pc = "recording" /\ jobs' = jobs
        /\ workers'[w].job = workers[w].job /\ workers'[w].token = workers[w].token
    BY <1>1, <1>5 DEF LockForFailure, Goto, Runner
  <2>2. Holds(w, workers[w].job)
    BY <1>5, <2>1 DEF LockForFailure, OwnsLease, Holds, Running, Holding
  <2>3. RunningRows(workers[w].job) = {}
    BY <2>1, <2>2 DEF TimelyInv, HolderSees
  <2>4. RunningRows(workers[w].job)' = {}
    BY <1>1, <2>1, <2>3 DEF RunningRows, StillRunning, runVars, recordVars
  <2> QED
    BY <2>1, <2>4 DEF HolderSees
<1> QED
  BY <1>2, <1>3, <1>4, <1>5, LosesNone DEF QueueOnly

LEMMA OutsideSees ==
    ASSUME NEW w \in Worker, workers'[w].pc \notin Holding
    PROVE  HolderSees(w)'
BY DEF HolderSees, Holds, Holding

LEMMA LeavesRunner ==
    ASSUME TimelyInv, NEW w \in Worker, Finish(w) \/ CrashCrawl(w)
    PROVE  workers'[w].pc \notin Holding
<1>1. workers \in [Worker -> Runner]
  BY CrawlFacts DEF TimelyInv
<1> QED
  BY <1>1 DEF Finish, CrashCrawl, Complete, LeaseError, RecordFailure, Crash, AfterFailure, IdleRunner, Holding

LEMMA ClaimSees ==
    ASSUME TimelyInv, NEW w \in Worker, ClaimCrawl(w)
    PROVE  HolderSees(w)'
<1>1. /\ workers'[w].pc = "handling" /\ handlers'[w].step = "start" /\ ~handlers'[w].recipe
  BY CrawlFacts DEF TimelyInv, ClaimCrawl, ClaimAny, Claim, IdleRunner, NewHandler, NoHandler
<1> QED
  BY <1>1, HandlerGoesOn DEF HandlerSees, Opened

-----------------------------------------------------------------------------
(* The invariant of timely runners *)

LEMMA OpeningMoves ==
    ASSUME TimelyInv, NEW v \in Worker, handlers'[v] = handlers[v]
    PROVE  ~OpenRun(v) /\ ~BeginRecipeRun(v)
<1>1. handlers \in [Worker -> Handler] /\ handlers[v] \in Handler
  BY CrawlFacts DEF TimelyInv
<1>2. OpenRun(v) => handlers[v].step = "opening" /\ handlers'[v].step \in {"preparing", "crawling"}
  <2> SUFFICES ASSUME OpenRun(v)
               PROVE  handlers[v].step = "opening" /\ handlers'[v].step \in {"preparing", "crawling"}
    OBVIOUS
  <2>1. handlers'[v] = [handlers[v] EXCEPT !.step = IF handlers[v].recipe THEN "preparing" ELSE "crawling",
                                           !.rows = {}]
    BY <1>1 DEF OpenRun
  <2>2. handlers'[v].step = IF handlers[v].recipe THEN "preparing" ELSE "crawling"
    BY <1>1, <2>1 DEF Handler
  <2> QED
    BY <2>2 DEF OpenRun, At
<1>3. BeginRecipeRun(v) => handlers[v].step = "preparing" /\ handlers'[v].step = "crawling"
  BY <1>1 DEF BeginRecipeRun, At, Handler
<1> QED
  BY <1>2, <1>3

LEMMA HandlersElsewhere ==
    ASSUME TimelyInv, NEW w \in Worker, CrawlStep(w), NEW v \in Worker, v # w
    PROVE  workers'[v] = workers[v] /\ handlers'[v] = handlers[v] /\ cleanups'[v] = cleanups[v]
<1>1. workers \in [Worker -> Runner] /\ handlers \in [Worker -> Handler] /\ cleanups \in [Worker -> Cleanup]
  BY CrawlFacts DEF TimelyInv
<1>2. CASE QueueOnly(w) \/ ClaimCrawl(w) \/ Finish(w) \/ CrashCrawl(w)
  <2>1. workers'[v] = workers[v]
    BY <1>1, <1>2, StepElsewhere DEF QueueOnly, ClaimCrawl, Finish, CrashCrawl, Step
  <2> QED
    BY <1>1, <1>2, <2>1 DEF QueueOnly, ClaimCrawl, Finish, CrashCrawl, Leave, runVars
<1>3. CASE HandlerStepOf(w)
  BY <1>1, <1>3 DEF HandlerStepOf, FindAbandoned, LockRecipeRuns, LockCrawlRuns, OpenRun,
     BeginRecipeRun, CloseCrawl, CommitCrawl, DecideRecipe, CommitRecipe, LockToClose, queueVars
<1>4. CASE Returns(w) \/ DatabaseFails(w)
  BY <1>1, <1>4 DEF Returns, Succeeds, ReturnsError, DatabaseFails, HandlerSucceeds, HandlerFails, Goto, Leave
<1>5. CASE CleanUp(w)
  BY <1>1, <1>5 DEF CleanUp, FindRecipeRuns, FindCrawlRuns, CancelCrawlRuns, CancelRuns, Goto, queueVars
<1> QED
  BY <1>2, <1>3, <1>4, <1>5 DEF CrawlStep

LEMMA EverybodySees ==
    ASSUME TimelyInv, [CrawlNext]_crawlVars, NEW v \in Worker
    PROVE  HolderSees(v)'
<1>1. [QueueNext]_queueVars /\ workers \in [Worker -> Runner]
  BY CrawlStepIsQueueStep, CrawlFacts DEF TimelyInv
<1>2. CASE Around \/ UNCHANGED crawlVars
  <2>1. UNCHANGED runVars
    BY <1>2 DEF Around, crawlVars
  <2>2. /\ workers'[v].pc = workers[v].pc /\ workers'[v].job = workers[v].job
        /\ workers'[v].token = workers[v].token
    BY <1>1, <1>2 DEF Around, crawlVars, queueVars, Produce, Enqueue, Insert, Upsert, Withdraw,
                      CancelPending, Tick, Runner
  <2> QED
    BY <2>1, <2>2, OthersSee, OpeningMoves DEF runVars
<1>3. CASE \E w \in Worker : CrawlStep(w)
  <2> PICK w \in Worker : CrawlStep(w)
    BY <1>3
  <2>1. CASE v # w
    BY <2>1, HandlersElsewhere, OthersSee, OpeningMoves
  <2>2. CASE v = w
    BY <1>1, <2>2, QueueOnlySees, ClaimSees, HandlerStepSees, ReturnsSees, CleanupStepSees,
       LeavesRunner, OutsideSees DEF CrawlStep
  <2> QED
    BY <2>1, <2>2
<1> QED
  BY <1>2, <1>3 DEF CrawlNext

LEMMA NobodyLost ==
    ASSUME TimelyInv, [CrawlNext]_crawlVars, NEW v \in Worker
    PROVE  workers'[v].pc # "lost"
<1>1. [QueueNext]_queueVars /\ workers \in [Worker -> Runner] /\ workers[v].pc # "lost" /\ IdleRunner \in Runner
  BY CrawlStepIsQueueStep, CrawlFacts, IdleRunnerType DEF TimelyInv
<1>2. CASE Produce \/ Withdraw \/ Tick \/ UNCHANGED queueVars
  BY <1>1, <1>2 DEF queueVars, Produce, Enqueue, Insert, Upsert, Withdraw, CancelPending, Tick, Runner
<1>3. CASE \E w \in Worker : Step(w)
  <2> PICK w \in Worker : Step(w)
    BY <1>3
  <2>1. CASE v # w
    BY <1>1, <2>1, StepElsewhere
  <2>2. CASE v = w /\ ~LoseLease(w)
    <3>1. workers[w] \in Runner /\ IdleRunner.pc # "lost" /\ AfterFailure(w).pc # "lost"
      BY <1>1 DEF AfterFailure, IdleRunner
    <3>2. CASE Sweep(w) \/ ClaimNothing(w) \/ Renew(w) \/ HandlerSucceeds(w) \/ FailAny(w)
      BY <1>1, <2>2, <3>1, <3>2 DEF Sweep, ClaimNothing, Renew, HandlerSucceeds, FailAny, HandlerFails,
         Goto, Runner
    <3>3. CASE ShutDown(w) \/ CancelRuns(w) \/ LockForFailure(w)
      BY <1>1, <2>2, <3>1, <3>3 DEF ShutDown, CancelRuns, LockForFailure, Goto, Runner
    <3>4. CASE ClaimAny(w)
      <4> PICK j \in Job, age \in ClaimAge(w) : Claim(w, j, age)
        BY <3>4 DEF ClaimAny
      <4> QED
        BY <1>1, <2>2 DEF Claim, IdleRunner
    <3>5. CASE Complete(w) \/ Crash(w) \/ Restart(w)
      BY <1>1, <2>2, <3>1, <3>5 DEF Complete, Crash, Restart
    <3>6. CASE LeaseError(w) \/ RecordFailure(w)
      BY <1>1, <2>2, <3>1, <3>6 DEF LeaseError, RecordFailure
    <3> QED
      BY <2>2, <3>2, <3>3, <3>4, <3>5, <3>6 DEF Step
  <2> QED
    BY <2>1, <2>2, LosesNone
<1> QED
  BY <1>1, <1>2, <1>3 DEF QueueNext

LEMMA OneOfAKindStep ==
    ASSUME TimelyInv, [CrawlNext]_crawlVars
    PROVE  OneOfAKind'
<1> SUFFICES ASSUME NEW j \in Job, NEW a \in RunningRows(j)', NEW b \in RunningRows(j)', a[1] = b[1]
             PROVE  a = b
  BY DEF OneOfAKind
<1>1. CASE \E w \in Worker : (OpenRun(w) \/ BeginRecipeRun(w)) /\ workers[w].job = j
  <2> PICK w \in Worker : (OpenRun(w) \/ BeginRecipeRun(w)) /\ workers[w].job = j
    BY <1>1
  <2>1. \A row \in RunningRows(workers[w].job)' : row = <<row[1], RunOf(w)>>
    BY OpenRunSees, BeginRecipeSees
  <2>2. workers' = workers
    BY DEF OpenRun, BeginRecipeRun, queueVars
  <2> QED
    BY <2>1, <2>2
<1>2. CASE ~\E w \in Worker : (OpenRun(w) \/ BeginRecipeRun(w)) /\ workers[w].job = j
  <2>1. RunningRows(j)' \subseteq RunningRows(j)
    BY <1>2, FewerRows DEF TimelyInv
  <2> QED
    BY <2>1 DEF TimelyInv, OneOfAKind
<1> QED
  BY <1>1, <1>2

LEMMA FollowsStep ==
    ASSUME TimelyInv, [CrawlNext]_crawlVars
    PROVE  RecipeRunFollowsCrawl'
<1>1. RecordTypeOK /\ RecipeRunFollowsCrawl /\ handlers \in [Worker -> Handler]
  BY CrawlFacts DEF TimelyInv
<1>2. \A r \in Run : crawlRuns[r] \in Result => crawlRuns'[r] \in Result
  <2>1. PICK o, w : RecordFate(o, w)
    BY SomeFate DEF TimelyInv
  <2> QED
    BY <2>1, ClosedStays DEF Result, ClosedCrawl
<1>3. ASSUME \A r \in Run : \/ recipeRuns'[r] = recipeRuns[r]
                            \/ /\ recipeRuns[r].status = "running" /\ recipeRuns'[r].status = "cancelled"
                               /\ recipeRuns'[r].crawlRun = recipeRuns[r].crawlRun
      PROVE  RecipeRunFollowsCrawl'
  BY <1>1, <1>2, <1>3 DEF RecipeRunFollowsCrawl, Result
<1>4. ASSUME NEW rows, \A row \in rows : StillRunning(row), recipeRuns' = RecipesCancelled(rows)
      PROVE  RecipeRunFollowsCrawl'
  <2>1. \A r \in Run : <<"recipe", r>> \in rows => recipeRuns[r].status = "running"
    BY <1>4 DEF StillRunning
  <2>2. \A r \in Run : recipeRuns[r] \in RecipeRun
    BY <1>1 DEF RecordTypeOK
  <2>3. \A r \in Run : recipeRuns'[r] = IF <<"recipe", r>> \in rows
                                        THEN [recipeRuns[r] EXCEPT !.status = "cancelled"]
                                        ELSE recipeRuns[r]
    BY <1>4 DEF RecipesCancelled
  <2>4. \A r \in Run : <<"recipe", r>> \in rows =>
            recipeRuns'[r].status = "cancelled" /\ recipeRuns'[r].crawlRun = recipeRuns[r].crawlRun
    BY <2>2, <2>3 DEF RecipeRun
  <2> QED
    BY <1>3, <2>1, <2>3, <2>4
<1>5. CASE UNCHANGED recipeRuns
  BY <1>3, <1>5
<1>6. CASE \E w \in Worker : BeginRecipeRun(w)
  <2> PICK w \in Worker : BeginRecipeRun(w)
    BY <1>6
  <2>1. recipeRuns' = [recipeRuns EXCEPT
                         ![RunOf(w)] = [status |-> "running", crawlRun |-> workers[w].token]]
    BY BeginRecipeSees
  <2> QED
    BY <1>1, <1>2, <2>1 DEF RecipeRunFollowsCrawl, RunOf, RecordTypeOK, Result
<1>7. CASE \E w \in Worker : CommitRecipe(w)
  <2> PICK w \in Worker : CommitRecipe(w)
    BY <1>7
  <2>1. /\ HandlerSees(w) /\ HandlerInv(w) /\ RunOf(w) \in Run /\ handlers[w].step = "deciding"
        /\ HasLocked("handler", w, <<"recipe", RunOf(w)>>)
    <3>1. handlers[w].step = "deciding" /\ workers[w].pc = "handling"
      BY DEF CommitRecipe, At
    <3>2. HandlerSees(w) /\ HandlerInv(w) /\ RunOf(w) \in Run
      BY <3>1, Polled
    <3>3. GivenRun(w) = RunOf(w) /\ handlers[w].rows = {<<"recipe", GivenRun(w)>>}
      BY <3>1, <3>2 DEF HandlerSees, HandlerInv, Opened, GivenRun, RunOf
    <3> QED
      BY <3>1, <3>2, <3>3 DEF HasLocked, LockedRows, Txn, LockingStep
  <2>2. GivenRun(w) = RunOf(w) /\ crawlRuns[RunOf(w)] \in Result
    BY <2>1 DEF HandlerSees, HandlerInv, Opened, GivenRun, RunOf
  <2>3. recipeRuns[RunOf(w)].status = "running"
    BY <2>1, RunType DEF TimelyInv, CrawlInv, LockedAreRunning, Owner, StillRunning
  <2>4. recipeRuns' = [recipeRuns EXCEPT ![RunOf(w)].status = "decided"]
    BY <2>2 DEF CommitRecipe, GivenRun
  <2>5. /\ \A r \in Run : r # RunOf(w) => recipeRuns'[r] = recipeRuns[r]
        /\ recipeRuns'[RunOf(w)].status = "decided"
        /\ recipeRuns'[RunOf(w)].crawlRun = recipeRuns[RunOf(w)].crawlRun
    BY <1>1, <2>1, <2>4 DEF RecordTypeOK, RecipeRun
  <2> QED
    BY <1>1, <1>2, <2>2, <2>3, <2>5 DEF RecipeRunFollowsCrawl, Result
<1>8. CASE \E w \in Worker : OpenRun(w)
  <2> PICK w \in Worker : OpenRun(w)
    BY <1>8
  <2>1. \A row \in handlers[w].rows : StillRunning(row)
    BY LockedFacts DEF TimelyInv, OpenRun, At, LockingStep, LockedRows, Txn, Owner
  <2> QED
    BY <1>4, <2>1 DEF OpenRun
<1>9. CASE \E w \in Worker : CancelCrawlRuns(w)
  BY <1>4, <1>9 DEF CancelCrawlRuns, CancelRows, StillRunningOf
<1>10. CASE Around \/ UNCHANGED crawlVars
  BY <1>5, <1>10 DEF Around, runVars, crawlVars, recordVars
<1>11. CASE \E w \in Worker : CrawlStep(w)
  <2> PICK w \in Worker : CrawlStep(w)
    BY <1>11
  <2>1. CASE QueueOnly(w) \/ ClaimCrawl(w)
    BY <1>5, <2>1 DEF QueueOnly, ClaimCrawl, runVars, recordVars
  <2>2. CASE Returns(w) \/ DatabaseFails(w) \/ Finish(w) \/ CrashCrawl(w)
    BY <1>5, <2>2 DEF Returns, Succeeds, ReturnsError, DatabaseFails, Finish, CrashCrawl, Leave, recordVars
  <2>3. CASE HandlerStepOf(w)
    BY <1>5, <1>6, <1>7, <1>8, <2>3 DEF HandlerStepOf, FindAbandoned, LockRecipeRuns, LockCrawlRuns,
       CloseCrawl, CommitCrawl, DecideRecipe, LockToClose, recordVars
  <2>4. CASE CleanUp(w)
    BY <1>5, <1>9, <2>4 DEF CleanUp, FindRecipeRuns, FindCrawlRuns, recordVars
  <2> QED
    BY <2>1, <2>2, <2>3, <2>4 DEF CrawlStep
<1> QED
  BY <1>10, <1>11 DEF CrawlNext

\* A row becomes pending, completed or cancelled again only by its holder.
LEMMA LetGoFate ==
    ASSUME QueueInv, [QueueNext]_queueVars, NEW j \in Job, jobs'[j].status \in LetGo
    PROVE  \/ jobs[j].status \in LetGo
           \/ \E w \in Worker : /\ Holds(w, j) /\ workers[w].pc \in {"succeeded", "recording"}
                                /\ Complete(w) \/ RecordFailure(w)
<1>1. jobs \in [Job -> JobRow] /\ workers \in [Worker -> Runner]
  BY DEF QueueInv, QueueTypeOK
<1>2. CASE \E w \in Worker : Complete(w)
  <2> PICK w \in Worker : Complete(w)
    BY <1>2
  <2>1. CASE OwnsLease(w) /\ workers[w].job = j
    BY <2>1 DEF Complete, OwnsLease, Holds, Running, Holding
  <2>2. CASE ~(OwnsLease(w) /\ workers[w].job = j)
    <3>1. jobs'[j] = jobs[j]
      BY <1>1, <2>2 DEF Complete
    <3> QED
      BY <3>1
  <2> QED
    BY <2>1, <2>2
<1>3. CASE \E w \in Worker : RecordFailure(w)
  <2> PICK w \in Worker : RecordFailure(w)
    BY <1>3
  <2>1. Holds(w, workers[w].job)
    BY DEF RecordFailure, QueueInv, LockedRowIsOwned
  <2>2. workers[w].job # j => jobs'[j] = jobs[j]
    BY <1>1 DEF RecordFailure
  <2> QED
    BY <2>1, <2>2 DEF RecordFailure
<1>4. CASE (\E w \in Worker : Sweep(w) \/ Renew(w)) \/ Tick
  BY <1>1, <1>4, SweepFate, TickFate DEF TableSwept, TableKept, LetGo
<1>5. CASE \E w \in Worker : ClaimAny(w)
  BY <1>5, ClaimFate DEF ClaimAny, OthersKept, Started, LetGo
<1>6. CASE Produce \/ Withdraw
  BY <1>6, ProduceFate, WithdrawFate DEF Produce, Withdraw, TableKept, OthersKept, Inserted, Cancelled, LetGo
<1>7. CASE UNCHANGED jobs
  BY <1>7
<1>8. CASE \E w \in Worker : \/ ClaimNothing(w) \/ LoseLease(w) \/ HandlerSucceeds(w) \/ FailAny(w)
                             \/ ShutDown(w) \/ CancelRuns(w) \/ LockForFailure(w) \/ LeaseError(w)
                             \/ Crash(w) \/ Restart(w)
  BY <1>7, <1>8 DEF ClaimNothing, LoseLease, HandlerSucceeds, FailAny, HandlerFails, ShutDown,
                    CancelRuns, LockForFailure, LeaseError, Crash, Restart
<1> QED
  BY <1>2, <1>3, <1>4, <1>5, <1>6, <1>7, <1>8 DEF QueueNext, Step, queueVars

LEMMA LetGoStep ==
    ASSUME TimelyInv, [CrawlNext]_crawlVars
    PROVE  ReleasedAreClosed'
<1> SUFFICES ASSUME NEW j \in Job, jobs'[j].status \in LetGo
             PROVE  RunningRows(j)' = {}
  BY DEF ReleasedAreClosed
<1>1. CrawlInv /\ [QueueNext]_queueVars /\ QueueInv
  BY CrawlStepIsQueueStep DEF TimelyInv, CrawlInv
<1>2. RunningRows(j) = {}
  <2>1. CASE jobs[j].status \in LetGo
    BY <2>1 DEF TimelyInv, ReleasedAreClosed
  <2>2. CASE \E w \in Worker : Holds(w, j) /\ workers[w].pc \in {"succeeded", "recording"}
    BY <2>2 DEF TimelyInv, HolderSees, Holds
  <2> QED
    BY <1>1, <2>1, <2>2, LetGoFate
<1>3. \A w \in Worker : OpenRun(w) \/ BeginRecipeRun(w) => workers[w].job # j
  <2> SUFFICES ASSUME NEW w \in Worker, OpenRun(w) \/ BeginRecipeRun(w), workers[w].job = j
               PROVE  FALSE
    OBVIOUS
  <2>1. workers[w].pc = "handling" /\ jobs' = jobs
    BY DEF OpenRun, BeginRecipeRun, At, queueVars
  <2>2. Running(j)
    BY <2>1 DEF TimelyInv, LeaseAhead, Holds
  <2> QED
    BY <2>1, <2>2 DEF Running, LetGo
<1> QED
  BY <1>1, <1>2, <1>3, FewerRows

LEMMA InitTimely == CrawlInit => TimelyInv
<1> SUFFICES ASSUME CrawlInit PROVE TimelyInv
  OBVIOUS
<1>1. CrawlInv
  BY InitCrawlInv
<1>2. \A w \in Worker : workers[w].pc = "idle"
  BY DEF CrawlInit, QueueInit, IdleRunner
<1>3. \A j \in Job : RunningRows(j) = {}
  BY RunType DEF CrawlInit, RunningRows, StillRunning
<1>4. RecipeRunFollowsCrawl
  BY DEF CrawlInit, RecipeRunFollowsCrawl
<1> QED
  BY <1>1, <1>2, <1>3, <1>4 DEF TimelyInv, LeaseAhead, OneOfAKind, ReleasedAreClosed, HolderSees,
                               Holds, Holding

LEMMA NextTimely ==
    ASSUME TimelyInv, [CrawlNext]_crawlVars, Timely, MaxStale + Heartbeat < Lease
    PROVE  TimelyInv'
<1>1. CrawlInv'
  BY NextCrawlInv DEF TimelyInv
<1>2. LeaseAhead'
  BY LeaseStep, CrawlStepIsQueueStep DEF TimelyInv, CrawlInv
<1> QED
  BY <1>1, <1>2, OneOfAKindStep, FollowsStep, LetGoStep, EverybodySees, NobodyLost DEF TimelyInv

LEMMA TimelyInvHolds ==
    ASSUME Timely, MaxStale + Heartbeat < Lease
    PROVE  CrawlSpec => []TimelyInv
BY InitTimely, NextTimely, PTL DEF CrawlSpec

LEMMA AtMostOne ==
    ASSUME NEW S, \A a, b \in S : a = b
    PROVE  Cardinality(S) <= 1
<1>1. CASE S = {}
  BY <1>1, FS_EmptySet
<1>2. CASE S # {}
  <2> PICK x \in S : TRUE
    BY <1>2
  <2>1. S = {x}
    OBVIOUS
  <2>2. Cardinality({x}) = 1
    BY FS_Singleton
  <2> QED
    BY <2>1, <2>2
<1> QED
  BY <1>1, <1>2

\* A reclaimed job cancels what its abandoned attempts left open before it opens its own
\* record: with timely heartbeats a job has one open crawl run and one open recipe run at
\* most, whatever crashes, database failures and interrupted cleanups came before.
THEOREM OneOpenAttemptHolds ==
    ASSUME Timely, MaxStale + Heartbeat < Lease
    PROVE  CrawlSpec => []OneOpenAttempt
<1>1. TimelyInv => OneOpenAttempt
  <2> SUFFICES ASSUME TimelyInv, NEW j \in Job
               PROVE  /\ Cardinality(RunningCrawlRows(j)) <= 1
                      /\ Cardinality(RunningRecipeRows(j)) <= 1
    BY DEF OneOpenAttempt
  <2>1. \A a, b \in RunningCrawlRows(j) : a = b
    BY DEF TimelyInv, OneOfAKind, RunningCrawlRows
  <2>2. \A a, b \in RunningRecipeRows(j) : a = b
    BY DEF TimelyInv, OneOfAKind, RunningRecipeRows
  <2> QED
    BY <2>1, <2>2, AtMostOne
<1> QED
  BY <1>1, TimelyInvHolds, PTL

\* One audit record per attempt: with timely heartbeats a recipe run is about the crawl of
\* its own attempt, and is decided only after that crawl was closed with a result.
THEOREM RecipeRunsFollow ==
    ASSUME Timely, MaxStale + Heartbeat < Lease
    PROVE  CrawlSpec => []RecipeRunFollowsCrawl
BY TimelyInvHolds, PTL DEF TimelyInv

\* With timely heartbeats a job that went back to the queue, was withdrawn there or
\* completed has left no record open behind it.
THEOREM NothingLeftOpen ==
    ASSUME Timely, MaxStale + Heartbeat < Lease
    PROVE  CrawlSpec => []NoOpenRunLeft
<1>1. TimelyInv => NoOpenRunLeft
  BY DEF TimelyInv, ReleasedAreClosed, LetGo, NoOpenRunLeft
<1> QED
  BY <1>1, TimelyInvHolds, PTL
=============================================================================
