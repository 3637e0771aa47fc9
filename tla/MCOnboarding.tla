---------------------------- MODULE MCOnboarding ----------------------------
(***************************************************************************)
(* Instances of the modules between a company and its approved sources,    *)
(* and of the gates that their crawls pass.  A behaviour works one of      *)
(* them, its part, and leaves the others as they begin; the two parts on   *)
(* JobAttempts read its jobs as jobs of their own.                         *)
(***************************************************************************)
EXTENDS Candidates, Recipes, NewsExtraction, Discovery, UniverseImport, CrawlGates, TLC

VARIABLE part

onboardingVars ==
    <<part, candidateVars, recipeVars, attemptVars, extractions, extractors, requested, seeded,
      discoveries, discoverers, known, universeVars, gateVars>>

MCFeedOf == [c \in Candidate |-> "feed"]
MCCompanyOf == [f \in CandidateFeed |-> "company"]
MCIsSitemap == [c \in Candidate |-> c = 2]
MCMaxTries == <<2, 1>>
MCPublicationOf == [s \in RecipeSource |-> "publication"]
MCMaxAttempts == [k \in Key |-> 2]
MCSourceOf ==
    [k \in SourceKind |-> [u \in Address |-> IF u \in {"home", "page"} THEN "news" ELSE u]]
MCPageOf == [u \in Address |-> IF u = "page" THEN "home" ELSE u]
MCPlainness == [u \in Address |-> IF u = "home" THEN 2 ELSE 1]
MCLinksOf ==
    [u \in Address |->
        IF u = "home" THEN {[url |-> "page", kind |-> "html", confidence |-> 65],
                            [url |-> "page", kind |-> "feed", confidence |-> 97]} ELSE {}]
\* The second revision gives the source id of a company to another one.
MCRowsOf ==
    [d \in Document |->
        IF d = "first"
        THEN {[company |-> "a", id |-> 1, homepage |-> "none", listings |-> {"l"}, primary |-> "l"],
              [company |-> "b", id |-> 2, homepage |-> d, listings |-> {}, primary |-> "none"]}
        ELSE {[company |-> "a", id |-> 1, homepage |-> d, listings |-> {"l"}, primary |-> "none"],
              [company |-> "c", id |-> 2, homepage |-> d, listings |-> {}, primary |-> "none"]}]

\* The first outlet has a recipe.  The second one is of the same company and brings the first article
\* again at another address, or it is of a rival that each of the two names in one article.
MCOutlet(kind, company, rank, required, names, against, again) ==
    [kind |-> kind, company |-> company, issuer |-> company, publication |-> company, rank |-> rank,
     excluded |-> FALSE, scopeRequired |-> required, mentions |-> names, scoped |-> against,
     repeats |-> again]
MCRows(kind, rival) ==
    [o \in Outlet |->
        IF o = "o1" THEN MCOutlet("recipe", 1, 1, ~rival, {"t1"}, IF rival THEN {<<"t1", "o2">>} ELSE {}, {})
        ELSE IF rival THEN MCOutlet(kind, 2, 2, TRUE, {"t2"}, {<<"t2", "o1">>}, {})
        ELSE MCOutlet(kind, 1, 2, FALSE, {"t1", "t2"}, {}, {<<"t2", "t1">>})]
MCRegistries == {MCRows("recipe", FALSE), MCRows("recipe", TRUE), MCRows("feed", TRUE)}
MCFetches ==
    {"t1" :> "kept" @@ "t2" :> "kept", "t1" :> "artifact" @@ "t2" :> "transient"}

OnboardingInit ==
    /\ part \in {"candidates", "recipes", "extraction", "discovery", "universe", "gates"}
    /\ CandidatesInit /\ RecipesInit /\ ExtractionInit /\ DiscoveryInit /\ UniverseInit
    /\ GatesInit /\ (part # "gates" => registry = MCRows("feed", TRUE))

OnboardingNext ==
    /\ UNCHANGED part
    /\ IF part = "candidates" THEN CandidatesNext ELSE UNCHANGED candidateVars
    /\ IF part = "recipes" THEN RecipesNext ELSE UNCHANGED recipeVars
    /\ IF part = "universe" THEN UniverseNext ELSE UNCHANGED universeVars
    /\ IF part = "gates" THEN GatesNext ELSE UNCHANGED gateVars
    /\ CASE part = "extraction" -> ExtractionNext /\ UNCHANGED <<discoveries, discoverers, known>>
         [] part = "discovery" -> DiscoveryNext /\ UNCHANGED <<extractions, extractors, requested, seeded>>
         [] OTHER -> UNCHANGED <<attemptVars, extractions, extractors, requested, seeded,
                                 discoveries, discoverers, known>>

\* The fairness of CandidatesSpec, for the part that is worked.
OnboardingFairness ==
    /\ WF_candidateVars(part = "candidates" /\ EnqueueUnvalidated(FALSE))
    /\ \A v \in Validator : /\ WF_candidateVars(part = "candidates" /\ ValidatorStep(v))
                            /\ WF_candidateVars(part = "candidates" /\ ClaimAny(v))
    /\ \A c \in Candidate : WF_candidateVars(part = "candidates" /\ SweepValidation(c))

OnboardingSpec == OnboardingInit /\ [][OnboardingNext]_onboardingVars /\ OnboardingFairness

-----------------------------------------------------------------------------
\* The type invariants of the parts.
OnboardingTypeOK ==
    CandidatesTypeOK /\ RecipesTypeOK /\ ExtractionTypeOK /\ DiscoveryTypeOK /\ UniverseTypeOK /\ GatesTypeOK
=============================================================================
