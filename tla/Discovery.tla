----------------------------- MODULE Discovery -----------------------------
(***************************************************************************)
(* The discovery of a company's sources: discovery_runs and the candidates *)
(* they bring (crates/feed-db/src/discovery.rs), the handler of            *)
(* discover_company jobs (crates/feed-jobs/src/lib.rs) and the search      *)
(* itself (crates/feed-discovery/src/lib.rs), on JobAttempts.  Responses   *)
(* come in any order, and one source is met under several addresses: what  *)
(* is kept of it must not depend on which was met first.                   *)
(***************************************************************************)
EXTENDS JobAttempts, WebAdapter, FiniteSets, FiniteSetsExt

CONSTANTS
    DiscoveryKey,    \* keys of the discover_company jobs
    Address,         \* URLs
    SourceOf,        \* [SourceKind -> [Address -> canonical_source_key of the URL]]
    PageOf,          \* [Address -> the URL without its query]
    Ignored,         \* ignored_source_candidate: sitemaps, comment feeds and such
    Plainness,       \* [Address -> Nat]: preferred_source_url, the smaller the better
    EntryPoint,      \* configured URLs of the company
    AdapterSeed,     \* URLs that the web adapter suggests
    ProbePath,       \* common feed paths of their origins
    SitemapPath,     \* sitemaps that robots.txt and convention name
    LinksOf,         \* [Address -> observations that its page links to]
    LandingPage,     \* entries that are candidates themselves: not a homepage
    MaxFound         \* max_candidates

\* Confidences in percent.
Confidence == {65, 70, 75, 85, 90, 96, 97, 99}
SourceKind == {"feed", "html", "sitemap"}
Observation == [url : Address, kind : SourceKind, confidence : Confidence]

ASSUME DiscoveryAssumption ==
    /\ EntryPoint \cup AdapterSeed \cup ProbePath \cup SitemapPath \subseteq Address
    /\ Plainness \in [Address -> Nat] /\ MaxFound \in Nat
    /\ PageOf \in [Address -> Address]
    /\ \A u, v \in Address : PageOf[u] = PageOf[v] => SourceOf["html"][u] = SourceOf["html"][v]
    /\ \A u \in Address : LinksOf[u] \subseteq Observation

VARIABLES
    discoveries,     \* [DiscoveryAttempt -> status of the run that the attempt has begun]
    discoverers,     \* [DiscoveryAttempt -> Discoverer], the handler futures
    known            \* source_candidates: what completed runs have stored

discoveryVars == <<attemptVars, discoveries, discoverers, known>>

DiscoveryJob == {j \in Job : KeyOf(j) \in DiscoveryKey}
DiscoveryAttempt == {a \in Attempt : JobOf(a) \in DiscoveryJob}

Target == EntryPoint \cup AdapterSeed \cup ProbePath

\* A DiscoveredSource: seen are its observations.
Found == [url : Address, kind : SourceKind, confidence : Confidence, seen : SUBSET Observation]

\* todo: what the page at hand shows and has not been accumulated.  reached: an entry was fetched.
Discoverer == [at : {"none", "begun", "fetching", "probed", "searched", "refused"},
               pending : SUBSET Target, reached : BOOLEAN, todo : SUBSET Observation,
               found : SUBSET Found, transient : BOOLEAN]
NoDiscoverer == [at |-> "none", pending |-> {}, reached |-> FALSE, todo |-> {}, found |-> {},
                 transient |-> FALSE]

DiscoveryInit ==
    /\ AttemptsInit
    /\ discoveries = [a \in DiscoveryAttempt |-> "none"]
    /\ discoverers = [a \in DiscoveryAttempt |-> NoDiscoverer]
    /\ known = {}

-----------------------------------------------------------------------------
(* CandidateAccumulator *)

\* Mutant: the plainer address is taken whatever is known of it.
PlainerReplaces(new, old) ==
    new.confidence > old.confidence \/ Plainness[new.url] < Plainness[old.url]

Replaces(new, old) ==
    \/ new.confidence > old.confidence
    \/ new.confidence = old.confidence /\ Plainness[new.url] < Plainness[old.url]

SameSource(c, o) == c.kind = o.kind /\ SourceOf[c.kind][c.url] = SourceOf[c.kind][o.url]

\* insert: a source that is new is not taken any more when the limit is reached.
Accumulate(found, o) ==
    LET same == {c \in found : SameSource(c, o)}
    IN  IF o.kind # "sitemap" /\ o.url \in Ignored THEN found
        ELSE IF same # {}
        THEN {IF ~SameSource(c, o) THEN c
              ELSE [url |-> IF Replaces(o, c) THEN o.url ELSE c.url, kind |-> c.kind,
                    confidence |-> IF o.confidence > c.confidence THEN o.confidence
                                   ELSE c.confidence,
                    seen |-> c.seen \cup {o}] : c \in found}
        ELSE IF Cardinality(found) >= MaxFound THEN found
        ELSE found \cup {[url |-> o.url, kind |-> o.kind, confidence |-> o.confidence,
                          seen |-> {o}]}

-----------------------------------------------------------------------------
(* The handler *)

Discovers(a, at) == attempts[a].phase = "handling" /\ discoverers[a].at = at

\* begin_discovery_run: a run of its own for every attempt.
BeginDiscovery(a) ==
    /\ Discovers(a, "none") /\ discoveries[a] = "none"
    /\ discoveries' = [discoveries EXCEPT ![a] = "running"]
    /\ discoverers' = [discoverers EXCEPT ![a].at = "begun"]
    /\ UNCHANGED <<attemptVars, known>>

Refuses(a, transient) ==
    discoverers' = [discoverers EXCEPT ![a] =
                       [NoDiscoverer EXCEPT !.at = "refused", !.transient = transient]]

\* request_web_adapter, and the seeds that an extraction has left in the job instead.
Seedings ==
    [called : {FALSE}, refusal : {"none"}, seeds : SUBSET AdapterSeed]
        \cup {s \in [called : {TRUE}, refusal : Outcomes("discover"), seeds : SUBSET AdapterSeed] :
                s.refusal = "none" \/ s.seeds = {}}

\* When the adapter fails, the search goes on from the configured entry points, if there are
\* any.  Without any URL to begin with the company has no sources, if the adapter has said so;
\* otherwise the search is refused, as it is for a URL that may not be fetched.
GatherSeeds(a) ==
    /\ Discovers(a, "begun")
    /\ \E s \in Seedings :
          CASE EntryPoint \cup s.seeds # {} ->
                 \/ discoverers' = [discoverers EXCEPT ![a].at = "fetching",
                                        ![a].pending = EntryPoint \cup s.seeds \cup ProbePath]
                 \/ Refuses(a, FALSE)
            [] EntryPoint \cup s.seeds = {} /\ s.refusal # "none" ->
                 Refuses(a, s.refusal = "transient")
            [] EntryPoint \cup s.seeds = {} /\ s.refusal = "none" ->
                 IF s.called THEN discoverers' = [discoverers EXCEPT ![a].at = "searched"]
                             ELSE Refuses(a, FALSE)
    /\ UNCHANGED <<attemptVars, discoveries, known>>

\* process_fetched_target: what a response says, at the address that redirects led to.
Observed(t, page, final) ==
    LET entry == t \in EntryPoint \cup AdapterSeed
    IN  CASE page = "feed" -> {[url |-> final, kind |-> "feed", confidence |-> IF entry THEN 99 ELSE 96]}
          [] page = "html" /\ entry ->
                (IF t \in LandingPage THEN {[url |-> final, kind |-> "html", confidence |-> 75]} ELSE {})
                    \cup LinksOf[final]
          [] OTHER -> {}

\* The targets are fetched concurrently, with redirects to wherever they lead; a response is
\* processed to its end.
Respond(a, t) ==
    /\ Discovers(a, "fetching") /\ t \in discoverers[a].pending /\ discoverers[a].todo = {}
    /\ \E page \in {"failed", "feed", "html"}, final \in Address :
          discoverers' = [discoverers EXCEPT
              ![a].pending = @ \ {t},
              ![a].todo = Observed(t, page, final),
              ![a].reached = @ \/ (page # "failed" /\ t \notin ProbePath)]
    /\ UNCHANGED <<attemptVars, discoveries, known>>

AccumulateNext(a) ==
    /\ attempts[a].phase = "handling"
    /\ \E o \in discoverers[a].todo :
          discoverers' = [discoverers EXCEPT ![a].todo = @ \ {o}, ![a].found = Accumulate(@, o)]
    /\ UNCHANGED <<attemptVars, discoveries, known>>

\* augment_with_sitemaps, after all of it; a failure here is none of the search.
ProbeSitemaps(a) ==
    /\ Discovers(a, "fetching") /\ discoverers[a].pending = {} /\ discoverers[a].todo = {}
    /\ \E sitemaps \in SUBSET SitemapPath, confidence \in {70, 85} :
          discoverers' = [discoverers EXCEPT ![a].at = "probed",
              ![a].todo = {[url |-> u, kind |-> "sitemap", confidence |-> confidence] : u \in sitemaps}]
    /\ UNCHANGED <<attemptVars, discoveries, known>>

\* AllEntryPointsFailed
EndSearch(a) ==
    /\ Discovers(a, "probed") /\ discoverers[a].todo = {}
    /\ IF ~discoverers[a].reached /\ discoverers[a].found = {} THEN Refuses(a, TRUE)
       ELSE discoverers' = [discoverers EXCEPT ![a].at = "searched"]
    /\ UNCHANGED <<attemptVars, discoveries, known>>

\* finish: an HTML candidate is stored without the query of its URL.
StoredUrl(c) == IF c.kind = "html" THEN PageOf[c.url] ELSE c.url
IsOf(k, c) == k.url = StoredUrl(c) /\ k.kind = c.kind

\* A candidate that is known keeps the greater confidence, and its decision (Candidates).
Stored(c, a) ==
    [url |-> StoredUrl(c), kind |-> c.kind, run |-> a,
     confidence |-> Max({c.confidence} \cup {k.confidence : k \in {k \in known : IsOf(k, c)}})]

\* complete_discovery_run does not ask for the run's status.
CompleteDiscovery(a) ==
    /\ Discovers(a, "searched")
    /\ known' = {k \in known : \A c \in discoverers[a].found : ~IsOf(k, c)}
                    \cup {Stored(c, a) : c \in discoverers[a].found}
    /\ discoveries' = [discoveries EXCEPT ![a] = "completed"]
    /\ HandlerReturns(a)
    /\ discoverers' = [discoverers EXCEPT ![a] = NoDiscoverer]

\* fail_discovery_run does.
FailDiscovery(a) ==
    /\ Discovers(a, "refused")
    /\ IF discoveries[a] = "running"
       THEN /\ discoveries' = [discoveries EXCEPT ![a] = "failed"]
            /\ HandlerStops(a, discoverers[a].transient)
       ELSE HandlerStops(a, TRUE) /\ UNCHANGED discoveries
    /\ discoverers' = [discoverers EXCEPT ![a] = NoDiscoverer]
    /\ UNCHANGED known

-----------------------------------------------------------------------------
InterruptDiscovery(a) ==
    /\ HandlerStops(a, TRUE) \/ LoseAttempt(a)
    /\ discoverers' = [discoverers EXCEPT ![a] = NoDiscoverer]
    /\ UNCHANGED <<discoveries, known>>

\* cancel_running_discovery_runs_for_job: the runs of every attempt of the job.
CancelDiscoveries(a) ==
    /\ CleanedUp(a)
    /\ discoveries' = [r \in DiscoveryAttempt |->
           IF Current(a) /\ JobOf(r) = JobOf(a) /\ discoveries[r] = "running"
           THEN "cancelled" ELSE discoveries[r]]
    /\ UNCHANGED <<discoverers, known>>

DiscovererDies(a) ==
    /\ Die(a)
    /\ discoverers' = [discoverers EXCEPT ![a] = NoDiscoverer]
    /\ UNCHANGED <<discoveries, known>>

\* enqueue_due_discovery_jobs: the company is due by its last finished run, and the target of
\* active jobs leaves room; an operator and an extraction queue jobs as well.
DiscoveryQueueStep ==
    /\ \/ \E a \in DiscoveryAttempt : BeginAttempt(a) \/ CompleteJob(a) \/ FailJob(a)
       \/ \E j \in DiscoveryJob : JobStep(j)
       \/ \E J \in SUBSET DiscoveryJob : J # {} /\ SweepJobs(J)
    /\ UNCHANGED <<discoveries, discoverers, known>>

DiscovererStep(a) ==
    \/ BeginDiscovery(a) \/ GatherSeeds(a) \/ AccumulateNext(a) \/ ProbeSitemaps(a) \/ EndSearch(a)
    \/ CompleteDiscovery(a) \/ FailDiscovery(a)
    \/ InterruptDiscovery(a) \/ CancelDiscoveries(a) \/ DiscovererDies(a)
    \/ \E t \in Target : Respond(a, t)

DiscoveryNext == DiscoveryQueueStep \/ \E a \in DiscoveryAttempt : DiscovererStep(a)

DiscoverySpec == DiscoveryInit /\ [][DiscoveryNext]_discoveryVars

-----------------------------------------------------------------------------
\* Types, and that the run a candidate names as its evidence is a completed one.
DiscoveryTypeOK ==
    /\ discoveries \in [DiscoveryAttempt -> {"none", "running", "completed", "failed", "cancelled"}]
    /\ \A a \in DiscoveryAttempt :
          /\ discoverers[a].pending \subseteq Target /\ discoverers[a].todo \subseteq Observation
          /\ \A c \in discoverers[a].found : c \in Found
          /\ Cardinality(discoverers[a].found) <= MaxFound
    /\ \A k \in known : discoveries[k.run] = "completed"
    /\ \A k, l \in known : k.url = l.url /\ k.kind = l.kind => k = l

(* In whatever order the responses come, a source is reported with the greatest confidence it
   was observed with, at the plainest of the addresses it had this confidence at: a late,
   less certain sighting changes neither (CandidateAccumulator::insert). *)
FoundAtItsBest ==
    \A a \in DiscoveryAttempt : \A c \in discoverers[a].found :
        LET best == {o \in c.seen : o.confidence = c.confidence}
        IN  /\ \A o \in c.seen : o.confidence <= c.confidence
            /\ \E o \in best : o.url = c.url /\ \A p \in best : Plainness[o.url] <= Plainness[p.url]
(* A job that is completed has a run that its last attempt has completed itself, so that the
   company is not due again on the word of an attempt that failed or was cancelled
   (complete_discovery_run, enqueue_due_discovery_jobs). *)
CompletedDiscoveryHasRun ==
    \A j \in DiscoveryJob : status[j] = "completed" => discoveries[<<j, started[j]>>] = "completed"
=============================================================================
