----------------------------- MODULE CrawlGates -----------------------------
(***************************************************************************)
(* What a crawl has to pass before its articles are published:             *)
(* CrawlJobHandler::handle and handle_recipe_crawl of crates/feed-jobs,    *)
(* with HtmlRecipeCrawler::crawl of crates/feed-crawler and the queries    *)
(* and quarantines of crates/feed-db.  Crawls of several outlets run at    *)
(* once, and each reads what the others have published, judges by what it  *)
(* has read, and withdraws theirs or gives up its own.                     *)
(***************************************************************************)
EXTENDS Naturals, FiniteSets

CONSTANTS
    Outlet,          \* sources that are crawled
    Story,           \* articles, by the identity of their URLs
    Registries,      \* what may be known of the outlets: a set of [Outlet -> OutletRow]
    Fetches,         \* what a fetch may bring: a set of [Story -> FetchResult]
    Alike,           \* sets of articles with less than half as many titles or bodies
    MinDiscovered, MinAccepted, MinRatio,    \* RecipeCorrectnessPolicy, the ratio in basis points
    MinSample,       \* articles that show what a publication is about: 5
    MinCovered       \* articles that make a recipe the double of another: 3

\* The texts that decide are tables: which articles name the company, and which do so against the
\* company of another outlet.  repeats: <<s, t>> when the outlet brings s under the title and the
\* day of t.
OutletRow == [kind : {"recipe", "feed"}, company : Nat, issuer : Nat, publication : Nat, rank : Nat,
              excluded : BOOLEAN, scopeRequired : BOOLEAN,
              mentions : SUBSET Story, scoped : SUBSET (Story \X Outlet),
              repeats : SUBSET (Story \X Story)]

FetchResult == {"unseen", "kept", "transient", "artifact", "unfit"}

ASSUME GatesAssumption ==
    /\ Registries \subseteq [Outlet -> OutletRow]
    /\ Fetches \subseteq [Story -> FetchResult]
    /\ IsFiniteSet(Story)
    /\ \A n \in {MinDiscovered, MinAccepted, MinRatio, MinSample, MinCovered} : n \in Nat

VARIABLES
    registry,        \* the rows of companies, sources and recipes that no crawl changes
    live,            \* outlets that are approved, with an active recipe that needs no rebuild
    articles,        \* [Outlet -> [Story -> its feed item]]
    gates            \* [Outlet -> its crawl]

gateVars == <<registry, live, articles, gates>>

\* quarantine_reason: withdrawn for one that a later crawl may release, held for one that it may not.
Article == {"absent", "public", "withdrawn", "held"}
Seen == FetchResult \cup {"scope", "cross", "topic"}

\* correctness_reasons, and the ones that recompute_recipe_report_correctness decides.
Threshold == {"discovered", "accepted", "ratio", "diversity"}
Recomputed == Threshold \cup {"relevance"}
Reason == Recomputed \cup {"topic", "excluded", "duplicate", "claimed", "flawed",
                           "companyFeed", "approvedFeed", "activeRecipe"}

Stage == {"idle", "fetching", "fetched", "claimed", "judged", "weighed", "publishing", "failing"}
Report == [seen : [Story -> Seen], reasons : SUBSET Reason]
Gate == [at : Stage, report : Report, claims : SUBSET (Outlet \X Story)]

Blank == [seen |-> [s \in Story |-> "unseen"], reasons |-> {}]
Closed == [at |-> "idle", report |-> Blank, claims |-> {}]

GatesInit ==
    /\ registry \in Registries
    /\ live = Outlet
    /\ articles = [o \in Outlet |-> [s \in Story |-> "absent"]]
    /\ gates = [o \in Outlet |-> Closed]

HasRecipe(o) == registry[o].kind = "recipe"

\* company_identity_claim_conflicts: two share classes of one issuer are no rivals.
Distinct(o, r) ==
    registry[o].company # registry[r].company /\ registry[o].issuer # registry[r].issuer

Mentions(o, s) == s \in registry[o].mentions
IsScoped(o, s, rivals) == \A r \in rivals : <<s, r>> \in registry[o].scoped

\* ratio_bps
RatioBps(n, of) == IF of = 0 THEN 0 ELSE (10000 * (IF n < of THEN n ELSE of)) \div of

-----------------------------------------------------------------------------
(* The report of a recipe's crawl *)

Kept(report) == {s \in Story : report.seen[s] = "kept"}
FoundIn(report) == {s \in Story : report.seen[s] # "unseen"}

Shortfalls(report) ==
    LET found == Cardinality(FoundIn(report))
        kept == Cardinality(Kept(report))
    IN  {r \in Threshold : CASE r = "discovered" -> found < MinDiscovered
                             [] r = "accepted" -> kept < MinAccepted
                             [] r = "ratio" -> RatioBps(kept, found) < MinRatio
                             [] r = "diversity" -> Kept(report) \in Alike}

\* Mutant: reasons are only ever added by the gates, never looked at again.
KeepsReasons(report) == report

\* After articles were taken out.
Recompute(report) == [report EXCEPT !.reasons = (@ \ Recomputed) \cup Shortfalls(report)]

TakeOut(report, stories, why) ==
    [report EXCEPT !.seen = [s \in Story |->
        IF s \in stories /\ @[s] = "kept" THEN why ELSE @[s]]]

Because(report, why) == [report EXCEPT !.reasons = @ \cup why]

\* crawl_with_cache
Fetched(page) ==
    LET report == [seen |-> page, reasons |-> {}]
    IN  Because(report, Shortfalls(report))

\* apply_company_scope_filter
InScope(o, report) ==
    LET filtered == Recompute(TakeOut(report, {s \in Story : ~Mentions(o, s)}, "scope"))
        relevance == RatioBps(Cardinality(Kept(filtered)), Cardinality(Kept(report)))
    IN  IF ~registry[o].scopeRequired THEN report
        ELSE Because(filtered, IF Kept(report) # {} /\ relevance < 5000 THEN {"relevance"} ELSE {})

\* apply_dominant_editorial_namespace_filter: what lies outside of the section that most are in.
Outside(report) ==
    {out \in SUBSET Kept(report) : /\ Cardinality(Kept(report) \ out) >= MinSample
                                   /\ 2 * Cardinality(out) < Cardinality(Kept(report))}
InNamespace(report, out) == Recompute(TakeOut(report, out, "artifact"))

\* apply_recipe_publication_topic_compromise_filter, once four in five of a sample are gambling spam.
Compromised(report) == Because(Recompute(TakeOut(report, Story, "topic")), {"topic"})

\* quarantine_source_public_items_for_topic_compromise
Withhold(o) ==
    [articles EXCEPT ![o] = [s \in Story |-> IF @[s] = "public" THEN "held" ELSE @[s]]]

\* quarantine_feed_items_for_cross_company_scope, where an item is withdrawn if it still is public.
GiveWay(items) ==
    [r \in Outlet |-> [s \in Story |->
        IF <<r, s>> \in items /\ articles[r][s] = "public" THEN "withdrawn" ELSE articles[r][s]]]

-----------------------------------------------------------------------------
(* Fetching *)

Advance(o, stage, report) ==
    gates' = [gates EXCEPT ![o] = [at |-> stage, report |-> report, claims |-> @.claims]]

\* Who else has the publication is read before the fetch and counts after it.
Ownership(o) ==
    LET others == {r \in live \ {o} :
                     HasRecipe(r) /\ registry[r].publication = registry[o].publication}
    IN  {w \in {"claimed", "duplicate", "excluded"} :
            CASE w = "claimed" -> \E r \in others : Distinct(o, r)
              [] w = "duplicate" -> \E r \in others : /\ registry[r].company = registry[o].company
                                                      /\ registry[r].rank < registry[o].rank
              [] w = "excluded" -> registry[o].excluded}

BeginFetch(o) ==
    /\ gates[o].at = "idle" /\ o \in live
    /\ Advance(o, "fetching", Because(Blank, IF HasRecipe(o) THEN Ownership(o) ELSE {}))
    /\ UNCHANGED <<registry, live, articles>>

FetchRecipe(o, page) ==
    /\ gates[o].at = "fetching" /\ HasRecipe(o)
    /\ LET scoped == InScope(o, Fetched(page))
       IN  \E narrowed \in {scoped} \cup {InNamespace(scoped, out) : out \in Outside(scoped)} :
             LET owned == gates[o].report.reasons
             IN  \/ /\ Advance(o, "fetched", Because(narrowed, owned))
                    /\ UNCHANGED articles
                 \/ /\ Cardinality(Kept(narrowed)) >= MinSample
                    /\ Advance(o, "fetched", Because(Compromised(narrowed), owned))
                    /\ articles' = Withhold(o)
    /\ UNCHANGED <<registry, live>>

\* Titles, editorial scope and topic are tested at once; a feed that fails them is not published.
FetchFeed(o, page) ==
    /\ gates[o].at = "fetching" /\ ~HasRecipe(o)
    /\ LET report == [seen |-> page, reasons |-> {}]
       IN  \/ /\ Advance(o, "fetched", report)
              /\ UNCHANGED articles
           \/ /\ Kept(report) # {}
              /\ Advance(o, "failing", Blank)
              /\ UNCHANGED articles
           \/ /\ Cardinality(Kept(report)) >= MinSample
              /\ Advance(o, "failing", Blank)
              /\ articles' = Withhold(o)
    /\ UNCHANGED <<registry, live>>

-----------------------------------------------------------------------------
(* Articles that several companies claim *)

\* list_public_feed_item_company_claims
ReadClaims(o) ==
    /\ gates[o].at = "fetched"
    /\ gates' = [gates EXCEPT ![o] = [at |-> "claimed", report |-> @.report, claims |->
           {c \in live \X Kept(@.report) : articles[c[1]][c[2]] = "public"}]]
    /\ UNCHANGED <<registry, live, articles>>

\* distinct_competing_companies
Claimants(o, s, claims) == {r \in Outlet : <<r, s>> \in claims /\ Distinct(o, r)}

\* Items of others, and of the outlet itself, that do not name their company in a contest.
Contested(o) ==
    {c \in gates[o].claims :
        LET rivals == Claimants(c[1], c[2], gates[o].claims) \cup (IF Distinct(c[1], o) THEN {o} ELSE {})
        IN  rivals # {} /\ ~IsScoped(c[1], c[2], rivals)}

\* cross_company_raw_item_scope_rejections
Rejected(o) ==
    {s \in Kept(gates[o].report) :
        LET rivals == Claimants(o, s, gates[o].claims)
        IN  rivals # {} /\ ~IsScoped(o, s, rivals)}

\* prepare_cross_company_item_scope, which leaves everything alone without a claim of another issuer.
SettleClaims(o) ==
    LET uncontested == \A c \in gates[o].claims : ~Distinct(o, c[1])
        report == gates[o].report
        settled == TakeOut(report, Rejected(o), "cross")
    IN  /\ gates[o].at = "claimed"
        /\ articles' = GiveWay(IF uncontested THEN {} ELSE Contested(o))
        /\ Advance(o, "judged", IF HasRecipe(o) /\ Rejected(o) # {} THEN Recompute(settled) ELSE settled)
        /\ UNCHANGED <<registry, live>>

-----------------------------------------------------------------------------
(* Overlaps with what is published *)

\* recipe_overlaps_approved_feed, recipe_overlaps_active_recipe
HalfOf(matched, accepted) == matched # {} /\ RatioBps(Cardinality(matched), Cardinality(accepted)) >= 5000
DoubleOf(matched, accepted) ==
    /\ Cardinality(matched) >= MinCovered
    /\ RatioBps(Cardinality(matched), Cardinality(accepted)) >= 8000

Shows(r, s) == r \in live /\ articles[r][s] = "public"

\* list_approved_feed_item_company_claims, distinct_company_approved_feed_claim: one company at a time.
FeedOfAnother(o, kept) ==
    \E x \in Outlet :
        /\ Distinct(o, x)
        /\ HalfOf({s \in kept : \E r \in Outlet : /\ ~HasRecipe(r) /\ Shows(r, s)
                                                  /\ registry[r].company = registry[x].company}, kept)

\* A signature is a title and a day, raw_crawl_item_signature_candidate; the address matches, or it.
Known(o, s, r) == Shows(r, s) \/ \E t \in Story : <<s, t>> \in registry[o].repeats /\ Shows(r, t)

\* list_approved_feed_item_url_matches, list_approved_feed_item_signature_matches
OnFeeds(o, kept) ==
    {s \in kept : \E r \in Outlet : /\ ~HasRecipe(r) /\ Known(o, s, r)
                                    /\ registry[r].company = registry[o].company}

PublicItems(r) == Cardinality({s \in Story : articles[r][s] = "public"})

\* active_recipe_counts: the recipe with more public items, or else the older one.
Preferred(r, o) ==
    \/ PublicItems(r) > PublicItems(o)
    \/ PublicItems(r) = PublicItems(o) /\ registry[r].rank < registry[o].rank

\* list_preferred_active_recipe_item_url_matches, .._signature_matches
OnPreferred(o, kept) ==
    {s \in kept : \E r \in Outlet \ {o} : /\ HasRecipe(r) /\ Known(o, s, r) /\ o \in live
                                          /\ registry[r].company = registry[o].company
                                          /\ Preferred(r, o)}

\* Flawed: the publication or an article is not of the form that it has to have.
WeighRecipe(o) ==
    LET kept == Kept(gates[o].report)
    IN  /\ gates[o].at = "judged" /\ HasRecipe(o)
        /\ \E flaws \in SUBSET {"flawed"} :
              Advance(o, "weighed", Because(gates[o].report, flaws \cup
               {w \in {"companyFeed", "approvedFeed", "activeRecipe"} :
                    CASE w = "companyFeed" -> FeedOfAnother(o, kept)
                      [] w = "approvedFeed" -> HalfOf(OnFeeds(o, kept), kept)
                      [] w = "activeRecipe" -> DoubleOf(OnPreferred(o, kept), kept)}))
        /\ UNCHANGED <<registry, live, articles>>

\* feed_company_scope_relevance: half of the articles at least name the company, if they have to.
FeedIsRelevant(o, report) ==
    LET named == {s \in Kept(report) : Mentions(o, s)}
    IN  registry[o].scopeRequired =>
           /\ Kept(report) # {}
           /\ RatioBps(Cardinality(named), Cardinality(Kept(report))) >= 5000

\* batch.items.retain
NamingOnly(o, report) ==
    IF registry[o].scopeRequired THEN TakeOut(report, {s \in Story : ~Mentions(o, s)}, "scope")
    ELSE report

WeighFeed(o) ==
    LET report == gates[o].report
    IN  /\ gates[o].at = "judged" /\ ~HasRecipe(o)
        /\ IF FeedOfAnother(o, Kept(report)) \/ ~FeedIsRelevant(o, report)
           THEN Advance(o, "failing", report)
           ELSE Advance(o, "publishing", NamingOnly(o, report))
        /\ UNCHANGED <<registry, live, articles>>

\* quarantine_recipe_artifact_failures: reasons that are safe to act on, and earlier items that do
\* not name the company.
WithdrawArtifacts(o) ==
    LET report == gates[o].report
        unnamed == IF registry[o].scopeRequired THEN {s \in Story : ~Mentions(o, s)} ELSE {}
    IN  /\ gates[o].at = "weighed"
        /\ articles' = [articles EXCEPT ![o] = [s \in Story |->
               CASE @[s] = "public" /\ (s \in unnamed \/ report.seen[s] = "scope") -> "held"
                 [] @[s] = "public" /\ s \notin unnamed /\ report.seen[s] \in {"artifact", "cross"} -> "withdrawn"
                 [] OTHER -> @[s]]]
        /\ Advance(o, IF report.reasons = {} THEN "publishing" ELSE "failing", report)
        /\ UNCHANGED <<registry, live>>

-----------------------------------------------------------------------------
(* Verdicts *)

\* complete_crawl_run and releasable_quality_quarantine_reason; the items of a feed may fail one by one.
Publish(o) ==
    /\ gates[o].at = "publishing"
    /\ \E taken \in IF HasRecipe(o) THEN {Kept(gates[o].report)} ELSE SUBSET Kept(gates[o].report) :
          articles' = [articles EXCEPT ![o] = [s \in Story |->
              IF s \in taken /\ @[s] \in {"absent", "withdrawn"} THEN "public" ELSE @[s]]]
    /\ gates' = [gates EXCEPT ![o] = Closed]
    /\ UNCHANGED <<registry, live>>

\* recipe_correctness_blocked_by_retryable_fetches
BlockedByFetches(report) ==
    LET transient == {s \in Story : report.seen[s] = "transient"}
        possible == Kept(report) \cup transient
    IN  /\ report.reasons \subseteq {"accepted", "ratio"} /\ transient # {}
        /\ Cardinality(possible) >= MinAccepted
        /\ RatioBps(Cardinality(possible), Cardinality(FoundIn(report))) >= MinRatio

\* runtime_recipe_supersession_reason, and the two that retire for ownership and withdraw all that
\* is public of the outlet; another failure is counted, until the recipe is worn.  A recipe that is
\* not active any more is left alone.
Fail(o) ==
    LET report == gates[o].report
        foreign == report.reasons \cap {"excluded", "companyFeed"} # {}
        gone == foreign \/ report.reasons \cap {"relevance", "approvedFeed", "activeRecipe",
                                                "duplicate"} # {}
    IN  /\ gates[o].at = "failing"
        /\ \/ /\ ~HasRecipe(o) \/ ~gone \/ BlockedByFetches(report) \/ o \notin live
              /\ UNCHANGED <<live, articles>>
           \/ /\ HasRecipe(o) /\ ~BlockedByFetches(report)
              /\ live' = live \ {o}
              /\ articles' = IF foreign THEN Withhold(o) ELSE articles
        /\ gates' = [gates EXCEPT ![o] = Closed]
        /\ UNCHANGED registry

\* A failed fetch, a failed query, a lost lease, a shutdown or a crash.
Abandon(o) ==
    /\ gates[o].at # "idle"
    /\ gates' = [gates EXCEPT ![o] = Closed]
    /\ UNCHANGED <<registry, live, articles>>

\* What builders, validations and operators decide: Recipes and Candidates.
Decide(o) ==
    /\ live' = IF o \in live THEN live \ {o} ELSE live \cup {o}
    /\ UNCHANGED <<registry, articles, gates>>

-----------------------------------------------------------------------------
(* The operator's audit *)

\* collect_news_item_ownership_audit
Collisions ==
    {c \in Outlet \X Story :
        LET rivals == {r \in Outlet : Distinct(c[1], r) /\ Shows(r, c[2])}
        IN  Shows(c[1], c[2]) /\ rivals # {} /\ ~IsScoped(c[1], c[2], rivals)}

\* audit_news_item_ownership, with --apply
Audit ==
    /\ Collisions # {}
    /\ articles' = GiveWay(Collisions)
    /\ UNCHANGED <<registry, live, gates>>

GatesNext ==
    \/ \E o \in Outlet : \/ BeginFetch(o)
                         \/ \E page \in Fetches : FetchRecipe(o, page) \/ FetchFeed(o, page)
                         \/ ReadClaims(o) \/ SettleClaims(o)
                         \/ WeighRecipe(o) \/ WeighFeed(o) \/ WithdrawArtifacts(o)
                         \/ Publish(o) \/ Fail(o) \/ Abandon(o) \/ Decide(o)
    \/ Audit

GatesSpec == GatesInit /\ [][GatesNext]_gateVars

-----------------------------------------------------------------------------
\* Rows, crawls and the audit have their types.
GatesTypeOK ==
    /\ registry \in Registries
    /\ live \subseteq Outlet
    /\ articles \in [Outlet -> [Story -> Article]]
    /\ gates \in [Outlet -> Gate]

\* What is about to be published meets the recipe's numbers as they are by then, after every gate
\* has taken its part out of it: articles found, accepted, their ratio and their diversity, which
\* recompute_recipe_report_correctness judges anew.  Every article of an outlet that has to names
\* its company, and one that another issuer had in public when the crawl looked names it against
\* that issuer.  The share of the batch that is about the company at all is judged once, and
\* forgotten (IrrelevantBatchIsRefused).
PublishedMeetsContract ==
    \A o \in Outlet : gates[o].at = "publishing" =>
        LET kept == Kept(gates[o].report)
            found == FoundIn(gates[o].report)
        IN  /\ HasRecipe(o) => /\ Cardinality(found) >= MinDiscovered
                            /\ Cardinality(kept) >= MinAccepted
                            /\ RatioBps(Cardinality(kept), Cardinality(found)) >= MinRatio
                            /\ kept \notin Alike
            /\ registry[o].scopeRequired => \A s \in kept : Mentions(o, s)
            /\ \A s \in kept : \A r \in Outlet :
                  /\ <<r, s>> \in gates[o].claims
                  /\ registry[r].company # registry[o].company /\ registry[r].issuer # registry[o].issuer
                  => <<s, r>> \in registry[o].scoped

\* "A batch with less than 50% relevant articles records `company_scope_relevance_below_minimum`,
\* publishes nothing, and supersedes that inferred recipe immediately"
\* (docs/company-news-recipes.md:387-389): what is published never comes from a recipe's batch of
\* which more articles did not name the company than are left and were taken out otherwise.
IrrelevantBatchIsRefused ==
    \A o \in Outlet : gates[o].at = "publishing" /\ HasRecipe(o) =>
        LET seen == gates[o].report.seen
            offCompany == {s \in Story : seen[s] = "scope"}
            others == {s \in Story : seen[s] \in {"kept", "cross", "topic", "artifact"}}
        IN  Cardinality(offCompany) <= Cardinality(others)
=============================================================================
