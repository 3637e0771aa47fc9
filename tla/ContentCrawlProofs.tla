------------------------- MODULE ContentCrawlProofs -------------------------
(***************************************************************************)
(* Proofs about ContentCrawl: the attempt records and the per-item states  *)
(* agree, closed records are final, and the content that was fetched is    *)
(* neither lost to a re-observation nor written to a private item.  The    *)
(* queue stays within its target, up to the producers that counted it at   *)
(* one time, and the content crawl implements JobAttempts.                 *)
(***************************************************************************)
EXTENDS ContentCrawl, AttemptLayerProofs, FiniteSetTheorems

\* An attempt that has not taken its batch has opened no record.
Unbegun(a) ==
    attempts[a].phase = "none" \/ (attempts[a].phase = "handling" /\ ~handlers[a].begun)
UnopenedRecords ==
    \A a \in Attempt : Unbegun(a) => \A i \in Item : records[<<a, i>>] = "none"

\* What keeps the fetched body through the next re-observation.
SucceededIsStamped ==
    \A i \in Item : states[i].status = "succeeded" =>
                        feed[i].body = "hydrated" /\ feed[i].stamped

ContentInv ==
    /\ AttemptTypes
    /\ ContentTypeOK
    /\ UnclaimedAttempts
    /\ UnopenedRecords
    /\ RunningTogether
    /\ SucceededIsStamped

-----------------------------------------------------------------------------
(* Steps that leave the tables alone *)

\* The handlers after a step in which some attempts may have left their handler.
HandlersKept ==
    /\ handlers' \in [Attempt -> Handler]
    /\ \A b \in Attempt : \/ handlers'[b] = handlers[b]
                          \/ handlers'[b] = NoHandler /\ attempts'[b].phase \notin {"none", "handling"}

\* The processes of attempts after a step fit their phases.
ProcessesFit ==
    \A b \in Attempt : /\ handlers'[b].begun => attempts'[b].phase = "handling"
                       /\ cleanups'[b].open => attempts'[b].phase \in {"lost", "cancelling"}

LEMMA QuietStep ==
    ASSUME ContentInv, AttemptTypes', UnclaimedAttempts', \A b \in Attempt : PhaseChange(b),
           UNCHANGED tableVars, HandlersKept, ProcessesFit,
           cleanups' \in [Attempt -> Cleanup], counted' \subseteq Producer
    PROVE  ContentInv'
<1>1. ContentTypeOK'
    BY DEF ContentInv, ContentTypeOK, tableVars, HandlersKept, ProcessesFit
<1>2. UnopenedRecords'
    <2> SUFFICES ASSUME NEW b \in Attempt, Unbegun(b)', NEW i \in Item
                 PROVE  records[<<b, i>>] = "none"
        BY DEF UnopenedRecords, tableVars
    <2>1. Unbegun(b)
        BY DEF Unbegun, PhaseChange, HandlersKept
    <2> QED BY <2>1 DEF ContentInv, UnopenedRecords
<1>3. RunningTogether' /\ SucceededIsStamped'
    BY DEF ContentInv, RunningTogether, SucceededIsStamped, tableVars
<1> QED BY <1>1, <1>2, <1>3 DEF ContentInv

LEMMA NoHandlerTyped ==
    NoHandler \in Handler /\ ~NoHandler.begun /\ NoCleanup \in Cleanup /\ ~NoCleanup.open
BY DEF NoHandler, Handler, NoCleanup, Cleanup

\* The handlers and cleanups that a step has left alone.
LEMMA UntouchedProcesses ==
    ASSUME ContentInv, UNCHANGED <<handlers, cleanups>>,
           \A b \in Attempt : \/ attempts'[b].phase = attempts[b].phase
                              \/ attempts[b].phase \in {"none", "succeeded", "failing"}
    PROVE  HandlersKept /\ ProcessesFit /\ cleanups' \in [Attempt -> Cleanup]
BY DEF ContentInv, ContentTypeOK, HandlersKept, ProcessesFit

LEMMA SameLayer ==
    ASSUME ContentInv, UNCHANGED attemptVars
    PROVE  AttemptTypes' /\ UnclaimedAttempts' /\ \A b \in Attempt : PhaseChange(b)
BY DEF ContentInv, AttemptTypes, UnclaimedAttempts, PhaseChange, attemptVars

LEMMA QueueKeepsInv ==
    ASSUME ContentAssumption, ContentInv, QueueStep
    PROVE  ContentInv'
<1>1. UNCHANGED <<tableVars, handlers, cleanups, counted>> /\ counted' \subseteq Producer
    BY DEF QueueStep, ContentInv, ContentTypeOK
<1>2. ASSUME NEW a \in Attempt, BeginAttempt(a)
      PROVE  ContentInv'
    <2>1. AttemptTypes' /\ UnclaimedAttempts' /\ \A b \in Attempt : PhaseChange(b)
        BY <1>2, BeginLayer DEF ContentInv
    <2>2. attempts[a].phase = "none" /\ attempts' = [attempts EXCEPT ![a].phase = "handling"]
        <3>1. JobOf(a) \in Job /\ a[2] \in Nat /\ started[JobOf(a)] \in Nat
            BY AttemptShape DEF ContentInv, AttemptTypes
        <3> QED BY <1>2, <3>1 DEF BeginAttempt, Enter, ContentInv, UnclaimedAttempts
    <2>3. \A b \in Attempt : attempts'[b].phase = attempts[b].phase \/ attempts[b].phase = "none"
        BY <2>2 DEF ContentInv, AttemptTypes
    <2> QED BY <1>1, <2>1, <2>3, UntouchedProcesses, QuietStep
<1>3. ASSUME NEW a \in Attempt, CompleteJob(a) \/ FailJob(a)
      PROVE  ContentInv'
    <2>1. RunStep(a)
        BY <1>3 DEF RunStep
    <2>2. AttemptTypes' /\ UnclaimedAttempts' /\ \A b \in Attempt : PhaseChange(b)
        BY <2>1, RunLayer DEF ContentInv
    <2>3. \A b \in Attempt : \/ attempts'[b].phase = attempts[b].phase
                             \/ attempts[b].phase \in {"succeeded", "failing"}
        BY <1>3 DEF CompleteJob, FailJob, LeaveRun, ContentInv, AttemptTypes
    <2> QED BY <1>1, <2>2, <2>3, UntouchedProcesses, QuietStep
<1>4. ASSUME NEW J \in SUBSET Job, SweepJobs(J)
      PROVE  ContentInv'
    <2>1. UNCHANGED <<attempts, started>> /\ status' \in [Job -> LifecycleStatus]
        BY <1>4 DEF SweepJobs, Exhaust, ContentInv, AttemptTypes, LifecycleStatus, Settled
    <2>2. AttemptTypes' /\ UnclaimedAttempts' /\ \A b \in Attempt : PhaseChange(b)
        BY <2>1 DEF ContentInv, AttemptTypes, UnclaimedAttempts, PhaseChange
    <2> QED BY <1>1, <2>1, <2>2, UntouchedProcesses, QuietStep
<1> QED BY <1>2, <1>3, <1>4 DEF QueueStep

LEMMA ProducerKeepsInv ==
    ASSUME ContentInv, NEW p \in Producer, CountJobs(p) \/ InsertJob(p)
    PROVE  ContentInv'
<1>1. UNCHANGED <<attempts, started, tableVars, handlers, cleanups>> /\ counted' \subseteq Producer
    BY DEF CountJobs, InsertJob, Submit, attemptVars, ContentInv, ContentTypeOK
<1>2. status' \in [Job -> LifecycleStatus]
    BY DEF CountJobs, InsertJob, Submit, attemptVars, ContentInv, AttemptTypes, LifecycleStatus
<1>3. AttemptTypes' /\ UnclaimedAttempts' /\ \A b \in Attempt : PhaseChange(b)
    BY <1>1, <1>2 DEF ContentInv, AttemptTypes, UnclaimedAttempts, PhaseChange
<1> QED BY <1>1, <1>3, UntouchedProcesses, QuietStep

\* The handler is dropped: its attempt goes on to another phase.
LEMMA ForgetKeepsInv ==
    ASSUME ContentInv, NEW a \in Attempt, RunStep(a), Forget(a), attempts[a].phase = "handling",
           UNCHANGED <<tableVars, cleanups, counted>>
    PROVE  ContentInv'
<1>1. AttemptTypes' /\ UnclaimedAttempts' /\ (\A b \in Attempt : PhaseChange(b)) /\ Moves(a)
    BY RunLayer, RunStepMoves DEF ContentInv
<1>2. /\ \A b \in Attempt \ {a} : attempts'[b] = attempts[b]
      /\ attempts'[a].phase \notin {"none", "handling"}
    BY <1>1 DEF Moves, ContentInv, AttemptTypes
<1>3. HandlersKept
    BY <1>2, NoHandlerTyped DEF HandlersKept, Forget, ContentInv, ContentTypeOK
<1>4. ProcessesFit
    BY <1>2, NoHandlerTyped DEF ProcessesFit, Forget, ContentInv, ContentTypeOK
<1> QED BY <1>1, <1>3, <1>4, QuietStep DEF ContentInv, ContentTypeOK

LEMMA ErrorKeepsInv ==
    ASSUME ContentInv, NEW a \in Attempt, HandlerError(a)
    PROVE  ContentInv'
<1>1. TRUE \in BOOLEAN
    OBVIOUS
<1>2. RunStep(a) /\ attempts[a].phase = "handling"
    BY <1>1 DEF HandlerError, HandlerStops, RunStep
<1> QED BY <1>2, ForgetKeepsInv DEF HandlerError

LEMMA FinishKeepsInv ==
    ASSUME ContentInv, NEW a \in Attempt, FinishBatch(a)
    PROVE  ContentInv'
<1>1. RunStep(a) /\ attempts[a].phase = "handling"
    BY DEF FinishBatch, HandlerReturns, RunStep
<1> QED BY <1>1, ForgetKeepsInv DEF FinishBatch

LEMMA InterruptKeepsInv ==
    ASSUME ContentInv, NEW a \in Attempt, Interrupt(a)
    PROVE  ContentInv'
<1>1. TRUE \in BOOLEAN
    OBVIOUS
<1>2. RunStep(a) /\ attempts[a].phase = "handling"
    BY <1>1 DEF Interrupt, HandlerStops, LoseAttempt, RunStep
<1> QED BY <1>2, ForgetKeepsInv DEF Interrupt

LEMMA DeathKeepsInv ==
    ASSUME ContentInv, NEW a \in Attempt, RunnerDies(a)
    PROVE  ContentInv'
<1>1. RunStep(a)
    BY DEF RunnerDies, RunStep
<1>2. AttemptTypes' /\ UnclaimedAttempts' /\ (\A b \in Attempt : PhaseChange(b)) /\ Moves(a)
    BY <1>1, RunLayer, RunStepMoves DEF ContentInv
<1>3. /\ \A b \in Attempt \ {a} : attempts'[b] = attempts[b]
      /\ attempts'[a].phase \notin {"none", "handling"}
    BY <1>2 DEF Moves, ContentInv, AttemptTypes
<1>4. HandlersKept
    BY <1>3, NoHandlerTyped DEF HandlersKept, RunnerDies, Forget, ContentInv, ContentTypeOK
<1>5. ProcessesFit
    BY <1>3, NoHandlerTyped DEF ProcessesFit, RunnerDies, Forget, ContentInv, ContentTypeOK
<1>6. cleanups' \in [Attempt -> Cleanup]
    BY NoHandlerTyped DEF RunnerDies, ContentInv, ContentTypeOK
<1> QED BY <1>2, <1>4, <1>5, <1>6, QuietStep DEF RunnerDies, ContentInv, ContentTypeOK

LEMMA FindKeepsInv ==
    ASSUME ContentInv, NEW a \in Attempt, FindRunning(a)
    PROVE  ContentInv'
<1>1. [open |-> TRUE, found |-> Fenced(a)] \in Cleanup
    BY DEF Cleanup, Fenced, RunningRecords
<1>2. cleanups' \in [Attempt -> Cleanup]
    BY <1>1 DEF FindRunning, ContentInv, ContentTypeOK
<1>3. HandlersKept /\ ProcessesFit
    BY DEF FindRunning, HandlersKept, ProcessesFit, ContentInv, ContentTypeOK, attemptVars
<1> QED BY <1>2, <1>3, SameLayer, QuietStep DEF FindRunning, ContentInv, ContentTypeOK

-----------------------------------------------------------------------------
(* Steps that write the tables *)

\* Cancelling running records, and sending their items back, keeps the tables in
\* agreement: an item whose state runs has no other record that runs.
LEMMA CancelKeepsTables ==
    ASSUME ContentInv, NEW rows \in SUBSET Record, \A r \in rows : records[r] = "running"
    PROVE  /\ Cancelled(rows) \in [Record -> RecordStatus]
           /\ Interrupted(states, ItemsOf(rows)) \in [Item -> State]
           /\ \A r \in Record : Cancelled(rows)[r] = "none" <=> records[r] = "none"
           /\ \A r \in Record : Cancelled(rows)[r] = "running" <=> records[r] = "running" /\ r \notin rows
           /\ \A i \in Item :
                Interrupted(states, ItemsOf(rows))[i].status =
                    IF states[i].status = "running" /\ \E r \in rows : r[2] = i
                    THEN "failed" ELSE states[i].status
           /\ \A i \in Item :
                Interrupted(states, ItemsOf(rows))[i].status = "running" <=>
                    \E a \in Attempt : Cancelled(rows)[<<a, i>>] = "running"
<1>1. Cancelled(rows) \in [Record -> RecordStatus]
    BY DEF Cancelled, ContentInv, ContentTypeOK, RecordStatus
<1>2. ASSUME NEW i \in Item
      PROVE  /\ Interrupted(states, ItemsOf(rows))[i] \in State
             /\ Interrupted(states, ItemsOf(rows))[i].status =
                    IF states[i].status = "running" /\ \E r \in rows : r[2] = i
                    THEN "failed" ELSE states[i].status
    <2>1. states[i] \in State
        BY DEF ContentInv, ContentTypeOK
    <2>2. Interrupted(states, ItemsOf(rows))[i] =
             IF i \in ItemsOf(rows) /\ states[i].status = "running"
             THEN [states[i] EXCEPT !.status = "failed"] ELSE states[i]
        BY DEF Interrupted
    <2>3. i \in ItemsOf(rows) <=> \E r \in rows : r[2] = i
        BY DEF ItemsOf
    <2> QED BY <2>1, <2>2, <2>3 DEF State
<1>3. \A r \in Record : /\ Cancelled(rows)[r] = "none" <=> records[r] = "none"
                        /\ Cancelled(rows)[r] = "running" <=> records[r] = "running" /\ r \notin rows
    BY DEF Cancelled
<1>4. Interrupted(states, ItemsOf(rows)) \in [Item -> State]
    BY <1>2 DEF Interrupted
<1>5. ASSUME NEW i \in Item
      PROVE  Interrupted(states, ItemsOf(rows))[i].status = "running" <=>
                \E a \in Attempt : Cancelled(rows)[<<a, i>>] = "running"
    <2>1. states[i].status = "running" <=> \E a \in Attempt : records[<<a, i>>] = "running"
        BY DEF ContentInv, RunningTogether
    <2>2. CASE \E r \in rows : r[2] = i
        <3>1. PICK r \in rows : r[2] = i
            BY <2>2
        <3>2. r = <<r[1], i>> /\ r[1] \in Attempt /\ records[<<r[1], i>>] = "running"
            BY <3>1 DEF Record
        <3>3. \A a \in Attempt : records[<<a, i>>] = "running" => <<a, i>> \in rows
            BY <3>1, <3>2 DEF ContentInv, RunningTogether
        <3>4. \A a \in Attempt : Cancelled(rows)[<<a, i>>] # "running"
            BY <3>3, <1>3 DEF Record
        <3> QED BY <3>4, <2>2, <1>2
    <2>3. CASE ~ \E r \in rows : r[2] = i
        <3>1. \A a \in Attempt : <<a, i>> \notin rows
            BY <2>3
        <3> QED BY <3>1, <2>1, <2>3, <1>2, <1>3 DEF Record
    <2> QED BY <2>2, <2>3
<1> QED BY <1>1, <1>2, <1>3, <1>4, <1>5

LEMMA CancelKeepsInv ==
    ASSUME ContentInv, NEW a \in Attempt, CancelRunning(a)
    PROVE  ContentInv'
<1> DEFINE rows == {r \in cleanups[a].found : records[r] = "running"}
<1>1. rows \in SUBSET Record /\ \A r \in rows : records[r] = "running"
    <2>1. cleanups[a] \in Cleanup
        BY DEF ContentInv, ContentTypeOK
    <2> QED BY <2>1 DEF Cleanup
<1>2. records' = Cancelled(rows) /\ states' = Interrupted(states, ItemsOf(rows))
    BY DEF CancelRunning
<1> HIDE DEF rows
<1>3. RunStep(a)
    BY DEF CancelRunning, RunStep
<1>4. AttemptTypes' /\ UnclaimedAttempts' /\ (\A b \in Attempt : PhaseChange(b)) /\ Moves(a)
    BY <1>3, RunLayer, RunStepMoves DEF ContentInv
<1>5. /\ \A b \in Attempt \ {a} : attempts'[b] = attempts[b]
      /\ attempts'[a].phase \notin {"none", "handling"}
    BY <1>4 DEF Moves, ContentInv, AttemptTypes
<1>6. attempts[a].phase # "handling"
    BY DEF CancelRunning, CleanedUp
<1>7. ContentTypeOK'
    <2>1. states' \in [Item -> State] /\ records' \in [Record -> RecordStatus]
        BY <1>1, <1>2, CancelKeepsTables
    <2>2. cleanups' = [cleanups EXCEPT ![a] = NoCleanup] /\ UNCHANGED <<feed, handlers, counted>>
        BY DEF CancelRunning
    <2>3. \A b \in Attempt : /\ handlers'[b].begun => attempts'[b].phase = "handling"
                             /\ cleanups'[b].open => attempts'[b].phase \in {"lost", "cancelling"}
        BY <2>2, <1>5, <1>6, NoHandlerTyped DEF ContentInv, ContentTypeOK
    <2> QED BY <2>1, <2>2, <2>3, NoHandlerTyped DEF ContentInv, ContentTypeOK
<1>8. UnopenedRecords'
    <2> SUFFICES ASSUME NEW b \in Attempt, Unbegun(b)', NEW i \in Item
                 PROVE  records'[<<b, i>>] = "none"
        BY DEF UnopenedRecords
    <2>1. Unbegun(b)
        BY <1>4 DEF Unbegun, PhaseChange, CancelRunning
    <2> QED BY <2>1, <1>1, <1>2, CancelKeepsTables DEF ContentInv, UnopenedRecords, Record
<1>9. RunningTogether'
    <2> SUFFICES ASSUME NEW i \in Item
                 PROVE  /\ states'[i].status = "running" <=>
                              \E b \in Attempt : records'[<<b, i>>] = "running"
                        /\ \A b, c \in Attempt : records'[<<b, i>>] = "running"
                              /\ records'[<<c, i>>] = "running" => b = c
        BY DEF RunningTogether
    <2>1. \A b \in Attempt : records'[<<b, i>>] = "running" => records[<<b, i>>] = "running"
        BY <1>1, <1>2, CancelKeepsTables DEF Record
    <2>2. \A b, c \in Attempt : records'[<<b, i>>] = "running" /\ records'[<<c, i>>] = "running"
                                   => b = c
        BY <2>1 DEF ContentInv, RunningTogether
    <2>3. states'[i].status = "running" <=> \E b \in Attempt : records'[<<b, i>>] = "running"
        BY <1>1, <1>2, CancelKeepsTables
    <2> QED BY <2>2, <2>3
<1>10. SucceededIsStamped'
    BY <1>1, <1>2, CancelKeepsTables DEF CancelRunning, ContentInv, SucceededIsStamped
<1> QED BY <1>4, <1>7, <1>8, <1>9, <1>10 DEF ContentInv

\* Batches: what the candidates of a batch have in common.
LEMMA BatchOfCandidates ==
    ASSUME NEW table, NEW items, NEW out, Batch(items, table, CandidatesIn(table) \ out)
    PROVE  /\ items \in SUBSET Item
           /\ \A i \in items : table[i].status # "running" /\ ~feed[i].private
BY DEF Batch, CandidatesIn

LEMMA TriedState ==
    ASSUME ContentAssumption, NEW state \in State
    PROVE  Tried(state) \in State /\ Tried(state).status = "running"
<1>1. MaxTries \in Nat /\ state.tries \in 0..MaxTries
    BY DEF ContentAssumption, State
<1>2. (IF state.tries < MaxTries THEN state.tries + 1 ELSE state.tries) \in 0..MaxTries
    BY <1>1
<1>3. Tried(state) = [[state EXCEPT !.status = "running"] EXCEPT
                        !.tries = IF state.tries < MaxTries THEN state.tries + 1 ELSE state.tries]
    BY DEF Tried, State
<1> QED BY <1>2, <1>3 DEF State

LEMMA BeginKeepsInv ==
    ASSUME ContentAssumption, ContentInv, NEW a \in Attempt, BeginBatch(a)
    PROVE  ContentInv'
<1> DEFINE superseded == RunningRecords(JobOf(a))
           table == Interrupted(states, ItemsOf(superseded))
<1>1. superseded \in SUBSET Record /\ \A r \in superseded : records[r] = "running"
    BY DEF RunningRecords
<1>2. PICK out \in SUBSET Item, items \in SUBSET Item :
        /\ Batch(items, table, CandidatesIn(table) \ out)
        /\ states' = [i \in Item |-> IF i \in items THEN Tried(table[i]) ELSE table[i]]
        /\ records' = [r \in Record |-> IF r[1] = a /\ r[2] \in items
                                        THEN "running" ELSE Cancelled(superseded)[r]]
        /\ handlers' = [handlers EXCEPT ![a] = [begun |-> TRUE, todo |-> items]]
    BY DEF BeginBatch
<1>3. /\ UNCHANGED <<attemptVars, feed, cleanups, counted>>
      /\ attempts[a].phase = "handling" /\ ~handlers[a].begun
    BY DEF BeginBatch, Working
<1>4. \A i \in items : table[i].status # "running"
    BY <1>2, BatchOfCandidates
<1> HIDE DEF superseded, table
<1>5. /\ Cancelled(superseded) \in [Record -> RecordStatus]
      /\ table \in [Item -> State]
      /\ \A r \in Record : Cancelled(superseded)[r] = "none" <=> records[r] = "none"
      /\ \A r \in Record : Cancelled(superseded)[r] = "running" => records[r] = "running"
      /\ \A i \in Item : table[i].status = "running" <=>
                            \E b \in Attempt : Cancelled(superseded)[<<b, i>>] = "running"
      /\ \A i \in Item : table[i].status = "succeeded" => states[i].status = "succeeded"
    BY <1>1, CancelKeepsTables DEF table
<1>6. \A i \in items : Tried(table[i]) \in State /\ Tried(table[i]).status = "running"
    BY <1>5, TriedState
<1>7. ContentTypeOK'
    <2>1. states' \in [Item -> State]
        BY <1>2, <1>5, <1>6
    <2>2. records' \in [Record -> RecordStatus]
        BY <1>2, <1>5 DEF RecordStatus
    <2>3. handlers' \in [Attempt -> Handler]
        BY <1>2 DEF ContentInv, ContentTypeOK, Handler
    <2>4. \A b \in Attempt : handlers'[b].begun => attempts'[b].phase = "handling"
        BY <1>2, <1>3 DEF ContentInv, ContentTypeOK, attemptVars
    <2> QED BY <1>3, <2>1, <2>2, <2>3, <2>4 DEF ContentInv, ContentTypeOK, attemptVars
<1>8. UnopenedRecords'
    <2> SUFFICES ASSUME NEW b \in Attempt, Unbegun(b)', NEW i \in Item
                 PROVE  records'[<<b, i>>] = "none"
        BY DEF UnopenedRecords
    <2>1. b # a
        BY <1>2, <1>3 DEF Unbegun, attemptVars, ContentInv, ContentTypeOK
    <2>2. Unbegun(b)
        BY <2>1, <1>2, <1>3 DEF Unbegun, attemptVars, ContentInv, ContentTypeOK
    <2>3. <<b, i>> \in Record
        BY DEF Record
    <2>4. records'[<<b, i>>] = Cancelled(superseded)[<<b, i>>]
        BY <2>1, <2>3, <1>2
    <2> QED BY <2>2, <2>3, <2>4, <1>5 DEF ContentInv, UnopenedRecords
<1>9. RunningTogether'
    <2> SUFFICES ASSUME NEW i \in Item
                 PROVE  /\ states'[i].status = "running" <=>
                              \E b \in Attempt : records'[<<b, i>>] = "running"
                        /\ \A b, c \in Attempt : records'[<<b, i>>] = "running"
                              /\ records'[<<c, i>>] = "running" => b = c
        BY DEF RunningTogether
    <2>1. \A b \in Attempt : <<b, i>> \in Record
        BY DEF Record
    <2>2. \A b \in Attempt : records'[<<b, i>>] =
             IF b = a /\ i \in items THEN "running" ELSE Cancelled(superseded)[<<b, i>>]
        BY <2>1, <1>2
    <2>3. CASE i \in items
        <3>1. states'[i].status = "running" /\ table[i].status # "running"
            BY <2>3, <1>2, <1>4, <1>6
        <3>2. \A b \in Attempt : Cancelled(superseded)[<<b, i>>] # "running"
            BY <3>1, <1>5
        <3> QED BY <2>2, <2>3, <3>1, <3>2
    <2>4. CASE i \notin items
        <3>1. states'[i] = table[i]
            BY <2>4, <1>2
        <3>2. \A b \in Attempt : records'[<<b, i>>] = "running" => records[<<b, i>>] = "running"
            BY <2>1, <2>2, <2>4, <1>5
        <3>3. \A b, c \in Attempt : records'[<<b, i>>] = "running"
                                    /\ records'[<<c, i>>] = "running" => b = c
            BY <3>2 DEF ContentInv, RunningTogether
        <3>4. \A b \in Attempt : records'[<<b, i>>] = Cancelled(superseded)[<<b, i>>]
            BY <2>2, <2>4
        <3>5. table[i].status = "running" <=>
                \E b \in Attempt : Cancelled(superseded)[<<b, i>>] = "running"
            BY <1>5
        <3>6. states'[i].status = "running" <=> table[i].status = "running"
            BY <3>1
        <3>7. (\E b \in Attempt : Cancelled(superseded)[<<b, i>>] = "running")
                <=> \E b \in Attempt : records'[<<b, i>>] = "running"
            BY <3>4
        <3> QED BY <3>3, <3>5, <3>6, <3>7
    <2> QED BY <2>3, <2>4
<1>10. SucceededIsStamped'
    <2>1. \A i \in Item : states'[i].status = "succeeded" => states[i].status = "succeeded"
        BY <1>2, <1>5, <1>6
    <2> QED BY <2>1, <1>3 DEF ContentInv, SucceededIsStamped
<1>11. AttemptTypes' /\ UnclaimedAttempts'
    BY <1>3, SameLayer
<1> QED BY <1>7, <1>8, <1>9, <1>10, <1>11 DEF ContentInv

\* A result closes the record that runs for the item and takes the item out of the
\* running state.
LEMMA CloseKeepsInv ==
    ASSUME ContentInv, NEW a \in Attempt, NEW i \in Item, NEW outcome \in {"succeeded", "failed"},
           NEW s \in State, AttemptRuns(a, i), Working(a), Close(a, i, outcome),
           handlers[a].begun,
           states' = [states EXCEPT ![i] = s], s.status # "running",
           feed' \in [Item -> FeedItem],
           \A k \in Item \ {i} : feed'[k] = feed[k],
           s.status = "succeeded" => feed'[i].body = "hydrated" /\ feed'[i].stamped
    PROVE  ContentInv'
<1>1. /\ UNCHANGED <<attemptVars, cleanups, counted>>
      /\ records' = [records EXCEPT ![<<a, i>>] = outcome]
      /\ handlers' = [handlers EXCEPT ![a].todo = @ \ {i}]
    BY DEF Close
<1>2. <<a, i>> \in Record
    BY DEF Record
<1>3. AttemptTypes' /\ UnclaimedAttempts'
    BY <1>1, SameLayer
<1>4. handlers' \in [Attempt -> Handler] /\ \A b \in Attempt : handlers'[b].begun = handlers[b].begun
    <2>1. handlers[a] \in Handler
        BY DEF ContentInv, ContentTypeOK
    <2>2. handlers' = [handlers EXCEPT ![a] = [handlers[a] EXCEPT !.todo = handlers[a].todo \ {i}]]
        BY <1>1
    <2>3. [handlers[a] EXCEPT !.todo = handlers[a].todo \ {i}] \in Handler
        BY <2>1 DEF Handler
    <2>4. [handlers[a] EXCEPT !.todo = handlers[a].todo \ {i}].begun = handlers[a].begun
        BY <2>1 DEF Handler
    <2> QED BY <2>2, <2>3, <2>4 DEF ContentInv, ContentTypeOK
<1>5. ContentTypeOK'
    <2>1. states' \in [Item -> State] /\ records' \in [Record -> RecordStatus]
        BY <1>1, <1>2 DEF ContentInv, ContentTypeOK, RecordStatus
    <2> QED BY <2>1, <1>1, <1>4 DEF ContentInv, ContentTypeOK, attemptVars
<1>6. UnopenedRecords'
    <2> SUFFICES ASSUME NEW b \in Attempt, Unbegun(b)', NEW k \in Item
                 PROVE  records'[<<b, k>>] = "none"
        BY DEF UnopenedRecords
    <2>1. Unbegun(b)
        BY <1>1, <1>4 DEF Unbegun, attemptVars
    <2>2. b # a
        BY <2>1 DEF Unbegun, Working
    <2>3. records'[<<b, k>>] = records[<<b, k>>]
        BY <2>2, <1>1 DEF ContentInv, ContentTypeOK, Record
    <2> QED BY <2>1, <2>3 DEF ContentInv, UnopenedRecords
<1>7. RunningTogether'
    <2> SUFFICES ASSUME NEW k \in Item
                 PROVE  /\ states'[k].status = "running" <=>
                              \E b \in Attempt : records'[<<b, k>>] = "running"
                        /\ \A b, c \in Attempt : records'[<<b, k>>] = "running"
                              /\ records'[<<c, k>>] = "running" => b = c
        BY DEF RunningTogether
    <2>1. \A b \in Attempt : <<b, k>> \in Record
        BY DEF Record
    <2>2. \A b \in Attempt : records'[<<b, k>>] = "running" <=>
                                records[<<b, k>>] = "running" /\ (b # a \/ k # i)
        BY <2>1, <1>1, <1>2 DEF ContentInv, ContentTypeOK
    <2>3. CASE k = i
        <3>1. \A b \in Attempt : records[<<b, i>>] = "running" => b = a
            BY DEF AttemptRuns, ContentInv, RunningTogether
        <3>2. \A b \in Attempt : records'[<<b, k>>] # "running"
            BY <2>2, <2>3, <3>1
        <3>3. states'[k].status # "running"
            BY <2>3 DEF ContentInv, ContentTypeOK
        <3> QED BY <3>2, <3>3
    <2>4. CASE k # i
        <3>1. states'[k] = states[k]
            BY <2>4 DEF ContentInv, ContentTypeOK
        <3>2. \A b \in Attempt : records'[<<b, k>>] = "running" <=> records[<<b, k>>] = "running"
            BY <2>2, <2>4
        <3> QED BY <3>1, <3>2 DEF ContentInv, RunningTogether
    <2> QED BY <2>3, <2>4
<1>8. SucceededIsStamped'
    <2> SUFFICES ASSUME NEW k \in Item, states'[k].status = "succeeded"
                 PROVE  feed'[k].body = "hydrated" /\ feed'[k].stamped
        BY DEF SucceededIsStamped
    <2>1. CASE k = i
        BY <2>1 DEF ContentInv, ContentTypeOK
    <2>2. CASE k # i
        BY <2>2 DEF ContentInv, ContentTypeOK, SucceededIsStamped
    <2> QED BY <2>1, <2>2
<1> QED BY <1>3, <1>5, <1>6, <1>7, <1>8 DEF ContentInv

LEMMA WorkIsBegun ==
    ASSUME ContentInv, NEW a \in Attempt, NEW i \in Item, AttemptRuns(a, i), Working(a)
    PROVE  handlers[a].begun
BY DEF ContentInv, UnopenedRecords, Unbegun, AttemptRuns, Working

LEMMA SucceedKeepsInv ==
    ASSUME ContentInv, NEW a \in Attempt, NEW i \in Item, SucceedItem(a, i)
    PROVE  ContentInv'
<1>1. CASE AttemptRuns(a, i) /\ ItemTakesContent(i)
    <2> DEFINE s == [states[i] EXCEPT !.status = "succeeded"]
    <2>1. states[i] \in State /\ feed[i] \in FeedItem
        BY DEF ContentInv, ContentTypeOK
    <2>2. s \in State /\ s.status = "succeeded"
        BY <2>1 DEF State
    <2>3. /\ feed' = [feed EXCEPT ![i].body = "hydrated", ![i].stamped = TRUE]
          /\ states' = [states EXCEPT ![i] = s]
          /\ Close(a, i, "succeeded") /\ Working(a)
        BY <1>1 DEF SucceedItem
    <2>4. feed' = [feed EXCEPT ![i] =
                     [[feed[i] EXCEPT !.body = "hydrated"] EXCEPT !.stamped = TRUE]]
        BY <2>3 DEF ContentInv, ContentTypeOK
    <2>5. [[feed[i] EXCEPT !.body = "hydrated"] EXCEPT !.stamped = TRUE] \in FeedItem
        BY <2>1 DEF FeedItem
    <2>6. feed' \in [Item -> FeedItem] /\ \A k \in Item \ {i} : feed'[k] = feed[k]
        BY <2>4, <2>5 DEF ContentInv, ContentTypeOK
    <2>7. feed'[i].body = "hydrated" /\ feed'[i].stamped
        BY <2>1, <2>4 DEF FeedItem, ContentInv, ContentTypeOK
    <2> HIDE DEF s
    <2> QED BY <1>1, <2>2, <2>3, <2>6, <2>7, WorkIsBegun, CloseKeepsInv
<1>2. CASE ~(AttemptRuns(a, i) /\ ItemTakesContent(i))
    BY <1>2, ErrorKeepsInv DEF SucceedItem
<1> QED BY <1>1, <1>2

LEMMA FailKeepsInv ==
    ASSUME ContentInv, NEW a \in Attempt, NEW i \in Item, NEW retryable \in BOOLEAN,
           FailItem(a, i, retryable)
    PROVE  ContentInv'
<1>1. CASE AttemptRuns(a, i)
    <2>1. states[i] \in State
        BY DEF ContentInv, ContentTypeOK
    <2>2. FailedState(states[i], retryable) \in State
          /\ FailedState(states[i], retryable).status \in {"failed", "permanent_failure"}
        BY <2>1 DEF FailedState, State
    <2>3. /\ states' = [states EXCEPT ![i] = FailedState(states[i], retryable)]
          /\ UNCHANGED feed /\ Close(a, i, "failed") /\ Working(a)
        BY <1>1 DEF FailItem
    <2>4. feed' \in [Item -> FeedItem] /\ \A k \in Item \ {i} : feed'[k] = feed[k]
        BY <2>3 DEF ContentInv, ContentTypeOK
    <2> QED BY <1>1, <2>2, <2>3, <2>4, WorkIsBegun, CloseKeepsInv
<1>2. CASE ~AttemptRuns(a, i)
    BY <1>2, ErrorKeepsInv DEF FailItem
<1> QED BY <1>1, <1>2

\* What the source crawl does to an item keeps the body of one that is stamped.
LEMMA ItemStepKeepsInv ==
    ASSUME ContentInv, NEW i \in Item, ItemStep(i)
    PROVE  ContentInv'
<1>1. UNCHANGED <<attemptVars, states, records, handlers, cleanups, counted>>
    BY DEF ItemStep, Quarantine, Observe
<1>2. /\ feed' \in [Item -> FeedItem]
      /\ \A k \in Item : /\ feed'[k].stamped = feed[k].stamped
                         /\ feed[k].stamped => feed'[k].body = feed[k].body
    <2>1. feed[i] \in FeedItem
        BY DEF ContentInv, ContentTypeOK
    <2>2. CASE Quarantine(i)
        BY <2>1, <2>2 DEF Quarantine, FeedItem, ContentInv, ContentTypeOK
    <2>3. ASSUME NEW releases \in BOOLEAN, Observe(i, releases)
          PROVE  <1>2!1 /\ <1>2!2
        <3> DEFINE item == [[feed[i] EXCEPT !.body = IF feed[i].stamped THEN feed[i].body
                                                     ELSE "observed"]
                              EXCEPT !.private = feed[i].private /\ ~releases]
        <3>1. item \in FeedItem /\ item.stamped = feed[i].stamped
              /\ (feed[i].stamped => item.body = feed[i].body)
            BY <2>1 DEF FeedItem
        <3>2. feed' = [feed EXCEPT ![i] = item]
            BY <2>3 DEF Observe, PreservesHydrated, ContentInv, ContentTypeOK
        <3> HIDE DEF item
        <3> QED BY <3>1, <3>2 DEF ContentInv, ContentTypeOK
    <2> QED BY <2>2, <2>3 DEF ItemStep
<1>3. AttemptTypes' /\ UnclaimedAttempts'
    BY <1>1, SameLayer
<1>4. ContentTypeOK'
    BY <1>1, <1>2 DEF ContentInv, ContentTypeOK, attemptVars
<1>5. UnopenedRecords' /\ RunningTogether'
    BY <1>1 DEF ContentInv, UnopenedRecords, Unbegun, RunningTogether, attemptVars
<1>6. SucceededIsStamped'
    BY <1>1, <1>2 DEF ContentInv, SucceededIsStamped
<1> QED BY <1>3, <1>4, <1>5, <1>6 DEF ContentInv

-----------------------------------------------------------------------------
(* The inductive invariant, and what follows from it *)

LEMMA InitContentInv ==
    ASSUME ContentAssumption, ContentInit
    PROVE  ContentInv
<1>1. ContentTypeOK
    <2>1. 0 \in 0..MaxTries
        BY DEF ContentAssumption
    <2> QED BY <2>1 DEF ContentInit, ContentTypeOK, FeedItem, State, RecordStatus, Handler,
                        NoHandler, Cleanup, NoCleanup
<1>2. AttemptTypes /\ UnclaimedAttempts
    BY DEF ContentInit, AttemptsInit, LifecycleInit, AttemptTypes, UnclaimedAttempts,
           Process, Phase, LifecycleStatus
<1>3. \A a \in Attempt, i \in Item : <<a, i>> \in Record
    BY DEF Record
<1>4. UnopenedRecords /\ RunningTogether /\ SucceededIsStamped
    BY <1>3 DEF ContentInit, UnopenedRecords, RunningTogether, SucceededIsStamped
<1> QED BY <1>1, <1>2, <1>4 DEF ContentInv

LEMMA StepKeepsContentInv ==
    ASSUME ContentAssumption, ContentInv, [ContentNext]_contentVars
    PROVE  ContentInv'
<1>1. CASE QueueStep
    BY <1>1, QueueKeepsInv
<1>2. ASSUME NEW p \in Producer, CountJobs(p) \/ InsertJob(p)
      PROVE  ContentInv'
    BY <1>2, ProducerKeepsInv
<1>3. ASSUME NEW a \in Attempt, HandlerStepOf(a)
      PROVE  ContentInv'
    <2>1. CASE BeginBatch(a)
        BY <2>1, BeginKeepsInv
    <2>2. CASE BatchFails(a)
        BY <2>2, ErrorKeepsInv DEF BatchFails
    <2>3. CASE FinishBatch(a)
        BY <2>3, FinishKeepsInv
    <2>4. ASSUME NEW i \in Item, SucceedItem(a, i)
          PROVE  ContentInv'
        BY <2>4, SucceedKeepsInv
    <2>5. ASSUME NEW i \in Item, NEW retryable \in BOOLEAN, FailItem(a, i, retryable)
          PROVE  ContentInv'
        BY <2>5, FailKeepsInv
    <2> QED BY <1>3, <2>1, <2>2, <2>3, <2>4, <2>5 DEF HandlerStepOf
<1>4. ASSUME NEW a \in Attempt, RunnerStep(a)
      PROVE  ContentInv'
    BY <1>4, FindKeepsInv, CancelKeepsInv, InterruptKeepsInv, DeathKeepsInv DEF RunnerStep
<1>5. ASSUME NEW i \in Item, ItemStep(i)
      PROVE  ContentInv'
    BY <1>5, ItemStepKeepsInv
<1>6. CASE UNCHANGED contentVars
    BY <1>6 DEF contentVars, attemptVars, tableVars, ContentInv, AttemptTypes, ContentTypeOK,
                UnclaimedAttempts, UnopenedRecords, Unbegun, RunningTogether, SucceededIsStamped
<1> QED BY <1>1, <1>2, <1>3, <1>4, <1>5, <1>6 DEF ContentNext

\* The two tables, the handlers and the attempts below them fit together in every
\* state of content_crawling.rs and its callers.
THEOREM ContentInvHolds == ContentSpec => []ContentInv
<1>1. ContentInit => ContentInv
    BY ContentAssumption, InitContentInv
<1>2. ContentInv /\ [ContentNext]_contentVars => ContentInv'
    BY ContentAssumption, StepKeepsContentInv
<1> QED BY <1>1, <1>2, PTL DEF ContentSpec

LEMMA ContentStepIsAttemptStep ==
    ASSUME [ContentNext]_contentVars
    PROVE  [AttemptsNext]_attemptVars
<1>1. ASSUME NEW a \in Attempt, AttemptStep(a)
      PROVE  AttemptsNext
    BY <1>1 DEF AttemptsNext
<1>2. ASSUME NEW a \in Attempt, HandlerStepOf(a)
      PROVE  [AttemptsNext]_attemptVars
    <2>1. ASSUME HandlerStops(a, TRUE) \/ HandlerReturns(a)
          PROVE  AttemptsNext
        BY <1>1, <2>1 DEF AttemptStep
    <2> QED BY <1>2, <2>1 DEF HandlerStepOf, BeginBatch, BatchFails, FinishBatch, SucceedItem, FailItem,
                              HandlerError, Close
<1>3. ASSUME NEW a \in Attempt, RunnerStep(a)
      PROVE  [AttemptsNext]_attemptVars
    <2>1. ASSUME HandlerStops(a, TRUE) \/ LoseAttempt(a) \/ CleanedUp(a) \/ Die(a)
          PROVE  AttemptsNext
        BY <1>1, <2>1 DEF AttemptStep
    <2> QED BY <1>3, <2>1 DEF RunnerStep, FindRunning, CancelRunning, Interrupt, RunnerDies
<1>4. CASE QueueStep
    BY <1>4 DEF QueueStep, AttemptsNext, AttemptStep
<1>5. ASSUME NEW p \in Producer, CountJobs(p) \/ InsertJob(p)
      PROVE  [AttemptsNext]_attemptVars
    BY <1>5 DEF CountJobs, InsertJob, AttemptsNext, JobStep
<1>6. ASSUME NEW i \in Item, ItemStep(i)
      PROVE  UNCHANGED attemptVars
    BY <1>6 DEF ItemStep, Quarantine, Observe
<1>7. CASE UNCHANGED contentVars
    BY <1>7 DEF contentVars
<1> QED BY <1>2, <1>3, <1>4, <1>5, <1>6, <1>7 DEF ContentNext

(* The content crawl with its producers and cleanups does nothing to jobs and attempts that
   JobAttempts does not allow, which in turn is what the queue implements. *)
THEOREM ContentRefinesAttempts == ContentSpec => AttemptsSpec
<1>1. ContentInit => AttemptsInit
    BY DEF ContentInit
<1> QED BY <1>1, ContentStepIsAttemptStep, PTL DEF ContentSpec, AttemptsSpec

\* The tables and processes of the content crawl have the shapes the code gives them.
THEOREM ContentTypeCorrect == ContentSpec => []ContentTypeOK
<1>1. ContentInv => ContentTypeOK
    BY DEF ContentInv
<1> QED BY <1>1, ContentInvHolds, PTL

\* content_crawl_state says "running" exactly while one attempt record for the item
\* runs, for any number of jobs, attempts, items and producers.
THEOREM RecordsAgree == ContentSpec => []RunningTogether
<1>1. ContentInv => RunningTogether
    BY DEF ContentInv
<1> QED BY <1>1, ContentInvHolds, PTL

\* The stamp of the content crawl keeps the fetched body of every succeeded item
\* through the source crawl's re-observations.
THEOREM HydratedStays == ContentSpec => []SucceededIsHydrated
<1>1. ContentInv => SucceededIsHydrated
    BY DEF ContentInv, SucceededIsStamped, SucceededIsHydrated
<1> QED BY <1>1, ContentInvHolds, PTL

\* The steps that leave the records, or the feed, alone.
LEMMA RecordSteps ==
    ASSUME [ContentNext]_contentVars
    PROVE  \/ records' = records
           \/ \E a \in Attempt : \/ BeginBatch(a) \/ CancelRunning(a)
                                 \/ \E i \in Item : \E outcome \in {"succeeded", "failed"} :
                                        AttemptRuns(a, i) /\ Close(a, i, outcome)
<1>1. CASE \E a \in Attempt : HandlerStepOf(a)
    <2>1. PICK a \in Attempt : HandlerStepOf(a)
        BY <1>1
    <2>2. CASE BatchFails(a) \/ FinishBatch(a) \/ HandlerError(a)
        BY <2>2 DEF BatchFails, HandlerError, FinishBatch, tableVars
    <2>3. ASSUME NEW i \in Item, SucceedItem(a, i)
          PROVE  HandlerError(a) \/ (AttemptRuns(a, i) /\ Close(a, i, "succeeded"))
        BY <2>3 DEF SucceedItem
    <2>4. ASSUME NEW i \in Item, NEW retryable \in BOOLEAN, FailItem(a, i, retryable)
          PROVE  HandlerError(a) \/ (AttemptRuns(a, i) /\ Close(a, i, "failed"))
        BY <2>4 DEF FailItem
    <2> QED BY <2>1, <2>2, <2>3, <2>4 DEF HandlerStepOf
<1>2. CASE \E a \in Attempt : RunnerStep(a)
    BY <1>2 DEF RunnerStep, FindRunning, Interrupt, RunnerDies, tableVars
<1>3. CASE QueueStep \/ \E p \in Producer : CountJobs(p) \/ InsertJob(p)
    BY <1>3 DEF QueueStep, CountJobs, InsertJob, tableVars
<1>4. CASE \E i \in Item : ItemStep(i)
    BY <1>4 DEF ItemStep, Quarantine, Observe
<1>5. CASE UNCHANGED contentVars
    BY <1>5 DEF contentVars, tableVars
<1> QED BY <1>1, <1>2, <1>3, <1>4, <1>5 DEF ContentNext

\* No handler, however late, and no cleanup rewrites an attempt record that was
\* closed before (content_crawling.rs, the status tests of every UPDATE).
THEOREM ClosedRecordsStay == ContentSpec => ClosedRecordsAreFinal
<1> DEFINE Closed(r) == records[r] \in {"succeeded", "failed", "cancelled"}
           Kept == \A r \in Record : Closed(r) => records'[r] = records[r]
<1>1. ContentInv /\ [ContentNext]_contentVars => Kept
    <2> SUFFICES ASSUME ContentInv, [ContentNext]_contentVars, NEW r \in Record, Closed(r)
                 PROVE  records'[r] = records[r]
        OBVIOUS
    <2>1. CASE records' = records
        BY <2>1
    <2>2. ASSUME NEW a \in Attempt, BeginBatch(a)
          PROVE  records'[r] = records[r]
        <3>1. Unbegun(a)
            BY <2>2 DEF BeginBatch, Working, Unbegun
        <3>2. r = <<r[1], r[2]>> /\ r[1] \in Attempt /\ r[2] \in Item
            BY DEF Record
        <3>3. r[1] # a
            BY <3>1, <3>2 DEF ContentInv, UnopenedRecords
        <3>4. records'[r] = Cancelled(RunningRecords(JobOf(a)))[r]
            BY <2>2, <3>3 DEF BeginBatch
        <3> QED BY <3>4 DEF Cancelled, RunningRecords
    <2>3. ASSUME NEW a \in Attempt, CancelRunning(a)
          PROVE  records'[r] = records[r]
        BY <2>3 DEF CancelRunning, Cancelled
    <2>4. ASSUME NEW a \in Attempt, NEW i \in Item, NEW outcome \in {"succeeded", "failed"},
                 AttemptRuns(a, i), Close(a, i, outcome)
          PROVE  records'[r] = records[r]
        <3>1. r # <<a, i>>
            BY <2>4 DEF AttemptRuns
        <3> QED BY <2>4, <3>1 DEF Close, ContentInv, ContentTypeOK
    <2> QED BY <2>1, <2>2, <2>3, <2>4, RecordSteps
<1> QED BY <1>1, ContentInvHolds, PTL DEF ContentSpec, ClosedRecordsAreFinal

\* A batch that selected an item before its quarantine does not write the article
\* to it (content_crawling.rs, is_private = FALSE in the UPDATE of feed_items).
THEOREM PrivateUntouched == ContentSpec => PrivateIsNotWritten
<1> DEFINE Unwritten == \A i \in Item : feed[i].private /\ feed[i].body = "observed" =>
                                            feed'[i].body = "observed"
<1>1. ContentInv /\ [ContentNext]_contentVars => Unwritten
    <2> SUFFICES ASSUME ContentInv, [ContentNext]_contentVars, NEW i \in Item,
                        feed[i].private, feed[i].body = "observed"
                 PROVE  feed'[i].body = "observed"
        OBVIOUS
    <2>1. CASE feed' = feed
        BY <2>1
    <2>2. ASSUME NEW a \in Attempt, NEW k \in Item, SucceedItem(a, k)
          PROVE  feed'[i].body = "observed"
        BY <2>2 DEF SucceedItem, HandlerError, ItemTakesContent, tableVars, ContentInv,
                    ContentTypeOK
    <2>3. ASSUME NEW k \in Item, ItemStep(k)
          PROVE  feed'[i].body = "observed"
        <3>1. CASE Quarantine(k)
            BY <3>1 DEF Quarantine, ContentInv, ContentTypeOK, FeedItem
        <3>2. ASSUME NEW releases \in BOOLEAN, Observe(k, releases)
              PROVE  feed'[i].body = "observed"
            BY <3>2 DEF Observe, ContentInv, ContentTypeOK, FeedItem
        <3> QED BY <2>3, <3>1, <3>2 DEF ItemStep
    <2>4. feed' = feed \/ (\E a \in Attempt, k \in Item : SucceedItem(a, k))
                       \/ \E k \in Item : ItemStep(k)
        BY DEF ContentNext, QueueStep, CountJobs, InsertJob, HandlerStepOf, BeginBatch, BatchFails,
               HandlerError, FinishBatch, FailItem, RunnerStep, FindRunning, CancelRunning,
               Interrupt, RunnerDies, contentVars, tableVars
    <2> QED BY <2>1, <2>2, <2>3, <2>4
<1> QED BY <1>1, ContentInvHolds, PTL DEF ContentSpec, PrivateIsNotWritten

-----------------------------------------------------------------------------
(* The target of active jobs *)

LEMMA FiniteJobs ==
    ASSUME ContentAssumption
    PROVE  IsFiniteSet(Job) /\ IsFiniteSet(ActiveJobs) /\ ActiveJobs \subseteq Job
<1>1. MaxOcc = 1 /\ IsFiniteSet(Key) /\ 1..1 = {1} /\ IsFiniteSet(1..1)
    <2>1. 1..1 = {1}
        OBVIOUS
    <2>2. IsFiniteSet({1})
        BY FS_Singleton
    <2> QED BY <2>1, <2>2 DEF ContentAssumption
<1>2. IsFiniteSet(Key \X (1..1))
    BY <1>1, FS_Product
<1>3. IsFiniteSet(Job)
    BY <1>1, <1>2 DEF Job
<1>4. ActiveJobs \in SUBSET Job
    BY DEF ActiveJobs
<1> QED BY <1>3, <1>4, FS_Subset

LEMMA CountedProducers ==
    ASSUME ContentAssumption, counted \subseteq Producer
    PROVE  /\ IsFiniteSet(counted) /\ Cardinality(counted) \in Nat
           /\ Cardinality(Producer) \in Nat /\ Cardinality(counted) <= Cardinality(Producer)
BY FS_Subset, FS_CardinalityType DEF ContentAssumption

\* Every step but a producer's insert leaves the jobs that are not active as they are.
LEMMA OnlyInsertActivates ==
    ASSUME ContentInv, [ContentNext]_contentVars,
           ~ \E p \in Producer : CountJobs(p) \/ InsertJob(p)
    PROVE  ActiveJobs' \subseteq ActiveJobs /\ counted' = counted
<1> DEFINE Calm == ActiveJobs' \subseteq ActiveJobs /\ counted' = counted
<1>1. status' = status /\ counted' = counted => Calm
    BY DEF ActiveJobs
<1>2. CASE QueueStep
    <2>1. counted' = counted
        BY <1>2 DEF QueueStep
    <2>2. ASSUME NEW a \in Attempt, BeginAttempt(a) \/ CompleteJob(a) \/ FailJob(a)
          PROVE  ActiveJobs' \subseteq ActiveJobs
        <3>1. JobOf(a) \in Job
            BY AttemptShape
        <3> QED BY <2>2, <3>1 DEF BeginAttempt, Start, CompleteJob, FailJob, Settle, Requeue,
                                  ActiveJobs, ContentInv, AttemptTypes
    <2>3. ASSUME NEW J \in SUBSET Job, SweepJobs(J)
          PROVE  ActiveJobs' \subseteq ActiveJobs
        BY <2>3 DEF SweepJobs, Exhaust, ActiveJobs
    <2> QED BY <1>2, <2>1, <2>2, <2>3 DEF QueueStep
<1>3. ASSUME NEW a \in Attempt, HandlerStepOf(a)
      PROVE  Calm
    <2>1. status' = status /\ counted' = counted
        BY <1>3 DEF HandlerStepOf, BeginBatch, BatchFails, FinishBatch, SucceedItem, FailItem, Close,
                    HandlerError, HandlerStops, HandlerReturns, attemptVars
    <2> QED BY <2>1, <1>1
<1>4. ASSUME NEW a \in Attempt, RunnerStep(a)
      PROVE  Calm
    <2>1. status' = status /\ counted' = counted
        BY <1>4 DEF RunnerStep, FindRunning, CancelRunning, CleanedUp, Interrupt, HandlerStops,
                    LoseAttempt, RunnerDies, Die, attemptVars
    <2> QED BY <2>1, <1>1
<1>5. ASSUME NEW i \in Item, ItemStep(i)
      PROVE  Calm
    BY <1>5, <1>1 DEF ItemStep, Quarantine, Observe, attemptVars
<1>6. CASE UNCHANGED contentVars
    BY <1>6, <1>1 DEF contentVars, attemptVars
<1> QED BY <1>2, <1>3, <1>4, <1>5, <1>6 DEF ContentNext

\* A slot is counted while the target leaves room, or before the others insert.
LEMMA CountKeepsTarget ==
    ASSUME ContentAssumption, ContentInv, NEW p \in Producer, CountJobs(p)
    PROVE  JobsWithinTarget'
<1>1. ActiveJobs' = ActiveJobs /\ counted' = counted \cup {p}
    BY DEF CountJobs, ActiveJobs, attemptVars
<1>2. Cardinality(ActiveJobs) < Concurrency /\ Cardinality(ActiveJobs) \in Nat
    BY FiniteJobs, FS_CardinalityType DEF CountJobs, BelowTarget
<1>3. Cardinality(counted \cup {p}) \in Nat /\ Cardinality(counted \cup {p}) <= Cardinality(Producer)
    <2>1. counted \cup {p} \subseteq Producer
        BY DEF ContentInv, ContentTypeOK
    <2> QED BY <2>1, FS_Subset, FS_CardinalityType DEF ContentAssumption
<1>4. Cardinality(Producer) \in Nat /\ Concurrency \in Nat
    BY FS_CardinalityType DEF ContentAssumption
<1> QED BY <1>1, <1>2, <1>3, <1>4 DEF JobsWithinTarget

\* The insert takes the slot that was counted.
LEMMA InsertKeepsTarget ==
    ASSUME ContentAssumption, ContentInv, JobsWithinTarget, NEW p \in Producer, InsertJob(p)
    PROVE  JobsWithinTarget'
<1>1. PICK j \in Job : Submit(j)
    BY DEF InsertJob
<1>2. ActiveJobs' \subseteq ActiveJobs \cup {j}
    BY <1>1 DEF Submit, ActiveJobs, ContentInv, AttemptTypes
<1>3. /\ IsFiniteSet(ActiveJobs \cup {j}) /\ Cardinality(ActiveJobs) \in Nat
      /\ Cardinality(ActiveJobs \cup {j}) <= Cardinality(ActiveJobs) + 1
    <2>1. IsFiniteSet(ActiveJobs)
        BY FiniteJobs
    <2>2. Cardinality(ActiveJobs) \in Nat
        BY <2>1, FS_CardinalityType
    <2>3. /\ IsFiniteSet(ActiveJobs \cup {j})
          /\ Cardinality(ActiveJobs \cup {j}) =
                 IF j \in ActiveJobs THEN Cardinality(ActiveJobs) ELSE Cardinality(ActiveJobs) + 1
        BY <2>1, FS_AddElement
    <2> QED BY <2>2, <2>3
<1>4. /\ Cardinality(ActiveJobs') \in Nat
      /\ Cardinality(ActiveJobs') <= Cardinality(ActiveJobs) + 1
    <2>1. IsFiniteSet(ActiveJobs') /\ Cardinality(ActiveJobs') <= Cardinality(ActiveJobs \cup {j})
        <3> ActiveJobs' \in SUBSET (ActiveJobs \cup {j})
            BY <1>2
        <3> QED BY <1>3, FS_Subset
    <2>2. Cardinality(ActiveJobs') \in Nat /\ Cardinality(ActiveJobs \cup {j}) \in Nat
        BY <2>1, <1>3, FS_CardinalityType
    <2> QED BY <2>1, <2>2, <1>3
<1>5. /\ counted' = counted \ {p} /\ p \in counted
      /\ Cardinality(counted \ {p}) = Cardinality(counted) - 1 /\ Cardinality(counted) \in Nat
    <2>1. IsFiniteSet(counted) /\ Cardinality(counted) \in Nat
        BY CountedProducers DEF ContentInv, ContentTypeOK
    <2>2. p \in counted /\ counted' = counted \ {p}
        BY DEF InsertJob
    <2> QED BY <2>1, <2>2, FS_RemoveElement
<1>6. Cardinality(Producer) \in Nat /\ Concurrency \in Nat
    BY FS_CardinalityType DEF ContentAssumption
<1>7. Cardinality(counted') = Cardinality(counted) - 1 /\ Cardinality(ActiveJobs) \in Nat
    BY <1>3, <1>5
<1>8. Cardinality(ActiveJobs) + Cardinality(counted) < Concurrency + Cardinality(Producer)
    BY DEF JobsWithinTarget
<1>9. Cardinality(ActiveJobs') + Cardinality(counted') < Concurrency + Cardinality(Producer)
    BY <1>4, <1>5, <1>6, <1>7, <1>8
<1> QED BY <1>9 DEF JobsWithinTarget

LEMMA OthersKeepTarget ==
    ASSUME ContentAssumption, JobsWithinTarget, counted \subseteq Producer,
           ActiveJobs' \subseteq ActiveJobs, counted' = counted
    PROVE  JobsWithinTarget'
<1>1. Cardinality(ActiveJobs) \in Nat /\ IsFiniteSet(ActiveJobs') /\ Cardinality(ActiveJobs') <= Cardinality(ActiveJobs)
    BY FiniteJobs, FS_Subset, FS_CardinalityType
<1>2. Cardinality(ActiveJobs') \in Nat
    BY <1>1, FS_CardinalityType
<1>3. Cardinality(Producer) \in Nat /\ Concurrency \in Nat /\ Cardinality(counted) \in Nat
    BY CountedProducers DEF ContentAssumption
<1> QED BY <1>1, <1>2, <1>3 DEF JobsWithinTarget

\* The queue of content jobs stays within the target, and beyond it only by the inserts whose
\* count was read before the others committed: at most one for each other process that
\* enqueues (enqueue_due_content_crawl_job of content_crawling.rs, the INSERT ... SELECT).
THEOREM TargetIsKept == ContentSpec => []JobsWithinTarget
<1>1. ContentInit => JobsWithinTarget
    <2> SUFFICES ASSUME ContentInit PROVE JobsWithinTarget
        OBVIOUS
    <2>1. ActiveJobs = {} /\ counted = {}
        BY DEF ContentInit, AttemptsInit, LifecycleInit, ActiveJobs
    <2>2. Concurrency \in Nat \ {0} /\ Cardinality(Producer) \in Nat
        BY ContentAssumption, FS_CardinalityType DEF ContentAssumption
    <2> QED BY <2>1, <2>2, FS_EmptySet DEF JobsWithinTarget
<1>2. ContentInv /\ JobsWithinTarget /\ [ContentNext]_contentVars => JobsWithinTarget'
    <2> SUFFICES ASSUME ContentInv, JobsWithinTarget, [ContentNext]_contentVars
                 PROVE  JobsWithinTarget'
        OBVIOUS
    <2>1. ASSUME NEW p \in Producer, CountJobs(p) \/ InsertJob(p)
          PROVE  JobsWithinTarget'
        BY <2>1, ContentAssumption, CountKeepsTarget, InsertKeepsTarget
    <2>2. CASE ~ \E p \in Producer : CountJobs(p) \/ InsertJob(p)
        BY <2>2, ContentAssumption, OnlyInsertActivates, OthersKeepTarget DEF ContentInv, ContentTypeOK
    <2> QED BY <2>1, <2>2
<1> QED BY <1>1, <1>2, ContentInvHolds, PTL DEF ContentSpec
=============================================================================
