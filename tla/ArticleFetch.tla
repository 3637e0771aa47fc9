---------------------------- MODULE ArticleFetch ----------------------------
(***************************************************************************)
(* The article crawler (crates/feed-crawler/src/lib.rs): batches of        *)
(* candidate pages are fetched by streams of bounded width, under request  *)
(* slots that all batches of a process share, one set for the process and  *)
(* one for each host; a page may redirect, to another host too, and lead   *)
(* to the resource of its framework.  The report of a batch names the      *)
(* article or the failure of every candidate; a recipe crawl judges it.    *)
(***************************************************************************)
EXTENDS Naturals, FiniteSets

CONSTANTS
    CrawlBatch,              \* crawls under way in the process
    MaxCandidate,       \* candidates are numbered as the batches list them
    BatchOf, HostOf,    \* [candidate -> batch], [candidate -> host of its URL]
    CanonicalUrl,          \* canonical URLs pages may resolve to
    MaxConcurrency, MaxPerHostConcurrency,
    MaxRedirects        \* 5

ASSUME ArticleLimitsAssumption ==
    /\ MaxPerHostConcurrency \in Nat \ {0} /\ MaxConcurrency \in Nat
    /\ MaxPerHostConcurrency <= MaxConcurrency     \* HtmlArticleCrawler::new
    /\ MaxRedirects \in Nat /\ MaxCandidate \in Nat

VARIABLES
    fetches,   \* [Candidate -> Fetch]
    arrivals,  \* candidates whose group's results came in
    reports    \* [CrawlBatch -> Report]

fetchVars == <<fetches, arrivals, reports>>

Candidate == 1..MaxCandidate
Host == {HostOf[c] : c \in Candidate}
Members(b) == {c \in Candidate : BatchOf[c] = b}

\* An article, or the document the listing links to in its place; or an error.
Item == [kind : {"item"}, canonical : CanonicalUrl]
Failure == [kind |-> "failure"]
Pending == [kind |-> "pending"]

\* resource: what is requested, the page or the data its framework renders it from.
Fetch == [at : {"queued", "host", "slot", "request", "done"}, host : Host,
          resource : {"page", "sveltekit", "aem"}, hops : 0..MaxRedirects,
          result : Item \cup {Failure, Pending}]

Queued(c) == [at |-> "queued", host |-> HostOf[c], resource |-> "page", hops |-> 0,
              result |-> Pending]

\* judged: not yet, by crawl_candidates, or by the recipe.
Report == [stage : {"open", "collected", "judged"}, items : SUBSET Candidate,
           failures : SUBSET Candidate]

FetchInit ==
    /\ fetches = [c \in Candidate |-> Queued(c)]
    /\ arrivals = {}
    /\ reports = [b \in CrawlBatch |-> [stage |-> "open", items |-> {}, failures |-> {}]]

-----------------------------------------------------------------------------
\* crawl_candidates: one group for each host, in the order of the listing.
Group(c) == {d \in Candidate : BatchOf[d] = BatchOf[c] /\ HostOf[d] = HostOf[c]}
GroupDone(G) == \A c \in G : fetches[c].at = "done"
First(G) == CHOOSE c \in G : \A d \in G : c <= d

PerHost == IF MaxConcurrency < MaxPerHostConcurrency THEN MaxConcurrency
           ELSE MaxPerHostConcurrency
HostConcurrency == IF MaxConcurrency \div PerHost = 0 THEN 1 ELSE MaxConcurrency \div PerHost

\* buffered: in a group, results leave in order and make room in that order.
Buffered(c) ==
    Cardinality({d \in Group(c) : d <= c /\ \E e \in Group(c) : e <= d /\ fetches[e].at # "done"})
        <= PerHost

\* buffer_unordered: groups start in order and make room as they finish.
GroupStarts(c) ==
    Cardinality({First(Group(d)) : d \in {x \in Members(BatchOf[c]) :
            First(Group(x)) < First(Group(c)) /\ ~GroupDone(Group(x))}}) < HostConcurrency
\* Mutant: a request for a framework's data keeps the slot of the page.
HostHoldersKept(h) ==
    {c \in Candidate : /\ fetches[c].host = h
                       /\ \/ fetches[c].at \in {"slot", "request"}
                          \/ fetches[c].at = "host" /\ fetches[c].resource # "page"}

\* Requests that hold a slot of a host: with that of the host alone, or with both.
HostHolders(h) == {c \in Candidate : fetches[c].host = h /\ fetches[c].at \in {"slot", "request"}}
SlotHolders == {c \in Candidate : fetches[c].at = "request"}

Step(c, fields) == fetches' = [fetches EXCEPT ![c] = fields]
Done(c, result) == Step(c, [Queued(c) EXCEPT !.at = "done", !.result = result])

Begin(c) ==
    /\ fetches[c].at = "queued"
    /\ GroupStarts(c) /\ Buffered(c)
    /\ Step(c, [fetches[c] EXCEPT !.at = "host"])
    /\ UNCHANGED <<arrivals, reports>>

\* acquire_request_permits takes the host's slot first.
AcquireHost(c) ==
    /\ fetches[c].at = "host"
    /\ Cardinality(HostHolders(fetches[c].host)) < MaxPerHostConcurrency
    /\ Step(c, [fetches[c] EXCEPT !.at = "slot"])
    /\ UNCHANGED <<arrivals, reports>>

AcquireSlot(c) ==
    /\ fetches[c].at = "slot"
    /\ Cardinality(SlotHolders) < MaxConcurrency
    /\ Step(c, [fetches[c] EXCEPT !.at = "request"])
    /\ UNCHANGED <<arrivals, reports>>

\* The slots are given back before the next hop; a framework resource stays on its origin.
Redirected(c) ==
    /\ fetches[c].at = "request"
    /\ IF fetches[c].hops = MaxRedirects
       THEN Done(c, Failure)
       ELSE \E h \in Host :
                IF fetches[c].resource # "page" /\ h # fetches[c].host
                THEN Done(c, Failure)
                ELSE Step(c, [fetches[c] EXCEPT !.at = "host", !.host = h, !.hops = @ + 1])
    /\ UNCHANGED <<arrivals, reports>>

\* An address that may not be fetched, a failed request, an error status, a page too large.
FetchFails(c) ==
    /\ fetches[c].at \in {"host", "request"}
    /\ Done(c, Failure)
    /\ UNCHANGED <<arrivals, reports>>

\* A page, with its embedded data or not, or a framework's data with an article; or one that
\* has none, where a document may stand for it.
Extracted(c) ==
    /\ fetches[c].at = "request"
    /\ \E result \in Item \cup {Failure} : Done(c, result)
    /\ UNCHANGED <<arrivals, reports>>

\* A recipe's browser fetches the page without a slot.
BrowserFetched(c) ==
    /\ fetches[c].at = "host" /\ fetches[c].resource = "page" /\ fetches[c].hops = 0
    /\ \E result \in Item : Done(c, result)
    /\ UNCHANGED <<arrivals, reports>>

\* A page without an article is followed to SvelteKit's data, else to AEM's model; whatever
\* goes wrong with the former, the latter is tried.
FollowFramework(c) ==
    /\ \E next \in {"sveltekit", "aem"} :
        /\ \/ fetches[c].at = "request" /\ fetches[c].resource = "page"
           \/ /\ fetches[c].at \in {"host", "request"} /\ fetches[c].resource = "sveltekit"
              /\ next = "aem"
        /\ Step(c, [fetches[c] EXCEPT !.at = "host", !.resource = next, !.hops = 0])
    /\ UNCHANGED <<arrivals, reports>>

\* collect: a group that is done hands its results over.
Arrive(c) ==
    /\ c = First(Group(c)) /\ GroupDone(Group(c)) /\ c \notin arrivals
    /\ arrivals' = arrivals \cup Group(c)
    /\ UNCHANGED <<fetches, reports>>

-----------------------------------------------------------------------------
IsItem(c) == fetches[c].result.kind = "item"
\* Results are taken in the order of the listing: the first candidate with a canonical URL keeps it: for the others it is a failure.
Represents(c) ==
    /\ IsItem(c)
    /\ \A d \in Members(BatchOf[c]) \ {c} :
           (IsItem(d) /\ fetches[d].result.canonical = fetches[c].result.canonical)
               => c < d

CollectReport(b) ==
    /\ reports[b].stage = "open"
    /\ Members(b) \subseteq arrivals
    /\ LET kept == {c \in Members(b) : Represents(c)}
       IN  reports' = [reports EXCEPT ![b] = [stage |-> "collected", items |-> kept,
                                              failures |-> Members(b) \ kept]]
    /\ UNCHANGED <<fetches, arrivals>>

\* Articles that share their body under other titles are moved to the failures; the recipe
\* crawl moves also what is outside its scope, the listing itself, badly titled or dated in
\* the future.
JudgeReport(b) ==
    /\ reports[b].stage = "collected"
    /\ \E refused \in SUBSET reports[b].items :
          reports' = [reports EXCEPT ![b] = [stage |-> "judged", items |-> @.items \ refused,
                                             failures |-> @.failures \cup refused]]
    /\ UNCHANGED <<fetches, arrivals>>

Advance(c) ==
    \/ Begin(c) \/ AcquireHost(c) \/ AcquireSlot(c)
    \/ Redirected(c) \/ FetchFails(c) \/ Extracted(c) \/ BrowserFetched(c) \/ FollowFramework(c)

FetchNext ==
    \/ \E c \in Candidate : Advance(c) \/ Arrive(c)
    \/ \E b \in CrawlBatch : CollectReport(b) \/ JudgeReport(b)

\* A slot that stays free is taken, and a request ends: it times out at the latest.
AfterWaiting(c) == fetches[c].at = "request" /\ Advance(c)

FetchSpec ==
    /\ FetchInit /\ [][FetchNext]_fetchVars
    /\ \A c \in Candidate :
          /\ WF_fetchVars(Begin(c)) /\ WF_fetchVars(AcquireHost(c))
          /\ WF_fetchVars(AcquireSlot(c)) /\ WF_fetchVars(AfterWaiting(c))
          /\ WF_fetchVars(Arrive(c))
    /\ \A b \in CrawlBatch : WF_fetchVars(CollectReport(b))

-----------------------------------------------------------------------------
FetchTypeOK ==
    /\ fetches \in [Candidate -> Fetch]
    /\ arrivals \subseteq Candidate
    /\ reports \in [CrawlBatch -> Report]

(* However many batches fetch at once and wherever redirects lead, no host and no process has
   more requests under way than it has slots (acquire_request_permits). *)
SlotsAreHeld ==
    /\ \A h \in Host : Cardinality(HostHolders(h)) <= MaxPerHostConcurrency
    /\ Cardinality(SlotHolders) <= MaxConcurrency

\* What a fetch waits for is there.
CanGoOn(c) ==
    CASE fetches[c].at = "queued"  -> GroupStarts(c) /\ Buffered(c)
      [] fetches[c].at = "host"    -> Cardinality(HostHolders(fetches[c].host)) < MaxPerHostConcurrency
      [] fetches[c].at = "slot"    -> Cardinality(SlotHolders) < MaxConcurrency
      [] fetches[c].at = "request" -> TRUE
      [] fetches[c].at = "done"    -> FALSE

(* Slots, groups and buffers never make all fetches wait for one another: while one is not done,
   one has what it waits for (crawl_candidates, acquire_request_permits). *)
SomeFetchGoesOn ==
    (\E c \in Candidate : fetches[c].at # "done") => \E c \in Candidate : CanGoOn(c)

(* A report names every candidate of its batch, each once, and no two articles of it are one
   page: whatever the batches after it fetch, its results stay (crawl_candidates). *)
ReportsAccount ==
    \A b \in CrawlBatch : reports[b].stage # "open" =>
        /\ reports[b].items \cup reports[b].failures = Members(b)
        /\ reports[b].items \cap reports[b].failures = {}
        /\ \A c, d \in reports[b].items :
              IsItem(c) /\ (fetches[c].result = fetches[d].result => c = d)

(* Every batch that has begun gets its report, whatever redirects across hosts, frameworks and
   other batches compete for the slots: nobody keeps one while waiting for another request's
   (fetch_article drops its permits before each further request). *)
Begun(b) == \E c \in Members(b) : fetches[c].at # "queued"
BatchSettles == \A b \in CrawlBatch : Begun(b) ~> (reports[b].stage # "open")
=============================================================================
