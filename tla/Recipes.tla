------------------------------ MODULE Recipes ------------------------------
(***************************************************************************)
(* Company news recipes: one company's crawl recipes with their health,    *)
(* the builders that activate and replace them, and the crawls that judge  *)
(* them (crates/feed-db/src/recipes.rs; the extraction and crawl handlers  *)
(* of crates/feed-jobs/src/lib.rs).  Two recipes may turn out to be of one *)
(* publication, or to bring home the same articles; whoever notices        *)
(* supersedes one of them.  Builders and crawls run in any number of       *)
(* workers, and each decides by what it has read earlier.                  *)
(***************************************************************************)
EXTENDS Naturals

CONSTANTS
    RecipeSource,    \* sources of the company that are crawled by recipe
    PublicationOf,   \* [RecipeSource -> identity of the publication URL]
    RecipeContent,   \* specifications a build may come to, by content hash
    MaxRecipe,       \* bound: versions of all recipes; an id stands for a UUID
    MaxVerified,     \* bound: moments at which a build validates its recipe
    MaxFailures,     \* max_consecutive_failures
    Builder, RecipeCrawl   \* attempts of extract_company_news and crawl_source jobs

ASSUME RecipesAssumption ==
    /\ RecipeSource # {} /\ RecipeContent # {}
    /\ MaxRecipe \in Nat \ {0} /\ MaxVerified \in Nat \ {0} /\ MaxFailures \in Nat \ {0}

VARIABLES
    recipes,         \* company_news_recipes with company_news_recipe_state
    owned,           \* sources that are approved: not disabled as another company's
    recipeQueue,     \* sources with a pending crawl_source job
    builders, recipeCrawls

recipeVars == <<recipes, owned, recipeQueue, builders, recipeCrawls>>

RecipeId == 1..MaxRecipe

\* failures is consecutive_failures, and consecutive_correctness_failures, which is the same
\* number; it is not counted beyond its limit.  A crawl without items is a failure as well, so
\* that the count of empty runs decides nothing under the same limit.
Recipe == [source : RecipeSource, content : RecipeContent,
           status : {"active", "stale", "superseded"}, verified : 1..MaxVerified,
           failures : 0..MaxFailures, rebuild : BOOLEAN]
NoRecipe == [status |-> "none"]

Build == [at : {"idle", "building", "looked", "superseding"}, source : RecipeSource,
          content : RecipeContent, verified : 1..MaxVerified, recipe : RecipeId \cup {0},
          redundant : SUBSET RecipeId]
AnySource == CHOOSE s \in RecipeSource : TRUE
IdleBuilder == [at |-> "idle", source |-> AnySource, content |-> CHOOSE k \in RecipeContent : TRUE,
                verified |-> 1, recipe |-> 0, redundant |-> {}]

\* order: verified_at as it was read with the recipe.
Verdict == {"none", "passed", "failed", "fed", "duplicate", "disowned"}
Crawl == [at : {"idle", "read", "compared", "judged", "retiring"}, recipe : RecipeId,
          order : 1..MaxVerified, duplicate : BOOLEAN, verdict : Verdict]
IdleCrawl == [at |-> "idle", recipe |-> 1, order |-> 1, duplicate |-> FALSE, verdict |-> "none"]

RecipesInit ==
    /\ recipes = [r \in RecipeId |-> NoRecipe]
    /\ owned = RecipeSource
    /\ recipeQueue = {}
    /\ builders = [b \in Builder |-> IdleBuilder]
    /\ recipeCrawls = [c \in RecipeCrawl |-> IdleCrawl]

-----------------------------------------------------------------------------
Existing == {r \in RecipeId : recipes[r] # NoRecipe}
ActiveRecipes == {r \in Existing : recipes[r].status = "active"}
ActiveOf(s) == {r \in ActiveRecipes : recipes[r].source = s}
Working == {r \in ActiveRecipes : ~recipes[r].rebuild}
Publication(r) == PublicationOf[recipes[r].source]

\* supersede_active_company_news_recipe: nothing, unless the recipe is active still.
Supersede(r) ==
    IF r \in ActiveRecipes
    THEN /\ recipes' = [recipes EXCEPT ![r].status = "superseded"]
         /\ recipeQueue' = recipeQueue \ {recipes[r].source}
    ELSE UNCHANGED <<recipes, recipeQueue>>

\* retire_active_company_news_recipe_for_ownership
Disown(r) ==
    IF r \in ActiveRecipes
    THEN /\ recipes' = [recipes EXCEPT ![r].status = "stale", ![r].rebuild = TRUE,
                                       ![r].failures = MaxFailures]
         /\ owned' = owned \ {recipes[r].source}
         /\ recipeQueue' = recipeQueue \ {recipes[r].source}
    ELSE UNCHANGED <<recipes, owned, recipeQueue>>

-----------------------------------------------------------------------------
\* A build of one publication, for a company without healthy recipes or at an operator's word.

\* The recipes are listed and the listing is validated.  What the build will replace: the
\* recipes of the same publication, and others whose articles it brings home.
StartBuild(b) ==
    /\ builders[b].at = "idle"
    /\ \E s \in RecipeSource, k \in RecipeContent, now \in 1..MaxVerified :
        LET same == {r \in ActiveRecipes : Publication(r) = PublicationOf[s]}
        IN  /\ \A r \in Existing : recipes[r].verified <= now
            /\ \E covered \in SUBSET (ActiveRecipes \ same) :
                  builders' = [builders EXCEPT ![b] =
                      [at |-> "building", source |-> s, content |-> k, verified |-> now,
                       recipe |-> 0, redundant |-> same \cup covered]]
    /\ UNCHANGED <<recipes, owned, recipeQueue, recipeCrawls>>

\* What is left of a build is what it supersedes, and the crawl of its recipe, if it has one.
TurnTo(b, recipe, redundant) ==
    builders' = [builders EXCEPT ![b] =
        [IdleBuilder EXCEPT !.at = "superseding", !.source = builders[b].source,
                            !.recipe = recipe, !.redundant = redundant]]

\* An approved feed or an earlier recipe of the build has all of it already.
FindRedundant(b) ==
    /\ builders[b].at = "building"
    /\ TurnTo(b, 0, builders[b].redundant)
    /\ UNCHANGED <<recipes, owned, recipeQueue, recipeCrawls>>

\* activate_company_news_recipe holds the source's advisory lock to its end.
ActivationLock(b) ==
    \A d \in Builder \ {b} : ~(builders[d].at = "looked" /\ builders[d].source = builders[b].source)

\* It looks for an active recipe of the same content.
LookUpRecipe(b) ==
    /\ builders[b].at = "building" /\ builders[b].source \in owned
    /\ ActivationLock(b)
    /\ LET same == {r \in ActiveOf(builders[b].source) : recipes[r].content = builders[b].content}
       IN  builders' = [builders EXCEPT ![b].at = "looked",
                                        ![b].recipe = IF same = {} THEN 0 ELSE CHOOSE r \in same : TRUE]
    /\ UNCHANGED <<recipes, owned, recipeQueue, recipeCrawls>>

\* Mutant: a recipe that works is kept beside the new one.
DisplacedWhenBroken(s) == ActiveOf(s) \ Working

Displaced(s) == ActiveOf(s)

\* The one that was found is verified again, whatever its status is by now; otherwise a new
\* version takes the place of the source's active recipe.
ActivateRecipe(b) ==
    /\ builders[b].at = "looked"
    /\ LET found == builders[b].recipe
           version == [source |-> builders[b].source, content |-> builders[b].content,
                       status |-> "active", verified |-> builders[b].verified,
                       failures |-> 0, rebuild |-> FALSE]
       IN  IF found # 0
           THEN /\ recipes' = [recipes EXCEPT ![found].verified = builders[b].verified,
                                              ![found].failures = 0, ![found].rebuild = FALSE]
                /\ TurnTo(b, found, builders[b].redundant \ {found})
           ELSE \E new \in RecipeId \ Existing :
                /\ recipes' = [r \in RecipeId |->
                       IF r = new THEN version
                       ELSE IF r \in Displaced(builders[b].source)
                            THEN [recipes[r] EXCEPT !.status = "superseded"]
                       ELSE recipes[r]]
                /\ TurnTo(b, new, builders[b].redundant)
    /\ UNCHANGED <<owned, recipeQueue, recipeCrawls>>

\* supersede_redundant_rebuilds: one transaction for each.
SupersedeNext(b) ==
    /\ builders[b].at = "superseding"
    /\ \E r \in builders[b].redundant :
        /\ Supersede(r)
        /\ builders' = [builders EXCEPT ![b].redundant = @ \ {r}]
    /\ UNCHANGED <<owned, recipeCrawls>>

\* The first crawl of an activated recipe is queued last.
EndBuild(b) ==
    /\ builders[b].at = "superseding" /\ builders[b].redundant = {}
    /\ recipeQueue' = IF builders[b].recipe = 0 THEN recipeQueue
                      ELSE recipeQueue \cup {builders[b].source}
    /\ builders' = [builders EXCEPT ![b] = IdleBuilder]
    /\ UNCHANGED <<recipes, owned, recipeCrawls>>

\* The listing is refused, a statement fails or the process dies.
AbandonBuild(b) ==
    /\ builders[b].at # "idle"
    /\ builders' = [builders EXCEPT ![b] = IdleBuilder]
    /\ UNCHANGED <<recipes, owned, recipeQueue, recipeCrawls>>

-----------------------------------------------------------------------------
\* A crawl by recipe.

\* enqueue_due_crawl_jobs, for the recipe in use.
ScheduleRecipeCrawl(s) ==
    /\ s \in owned \ recipeQueue /\ ActiveOf(s) \cap Working # {}
    /\ recipeQueue' = recipeQueue \cup {s}
    /\ UNCHANGED <<recipes, owned, builders, recipeCrawls>>

\* The job is claimed; without a source and a recipe in order it fails for good.
StartRecipeCrawl(c, s) ==
    /\ recipeCrawls[c].at = "idle" /\ s \in recipeQueue
    /\ recipeQueue' = recipeQueue \ {s}
    /\ IF s \in owned /\ ActiveOf(s) \cap Working # {}
       THEN \E r \in ActiveOf(s) \cap Working :
                recipeCrawls' = [recipeCrawls EXCEPT ![c] =
                    [IdleCrawl EXCEPT !.at = "read", !.recipe = r, !.order = recipes[r].verified]]
       ELSE UNCHANGED recipeCrawls
    /\ UNCHANGED <<recipes, owned, builders>>

Before(r, order, id) == recipes[r].verified < order \/ (recipes[r].verified = order /\ r < id)

\* handle_recipe_crawl: an earlier recipe of the same publication makes this one a duplicate.
CompareRecipes(c) ==
    /\ recipeCrawls[c].at = "read"
    /\ LET mine == recipeCrawls[c].recipe
       IN  recipeCrawls' = [recipeCrawls EXCEPT ![c].at = "compared",
               ![c].order = 1,
               ![c].duplicate = \E r \in Working \ {mine} :
                   /\ Publication(r) = Publication(mine)
                   /\ Before(r, recipeCrawls[c].order, mine)]
    /\ UNCHANGED <<recipes, owned, recipeQueue, builders>>

\* list_preferred_active_recipe_item_url_matches goes by another order: the recipe with more
\* public items comes first, and how many these are changes all the time.
MayOverlap(mine) == mine \in Working /\ Working # {mine}

\* The report of the crawl, and what the gates make of it.  A transient failure is recorded
\* without a change of counts and status: there is nothing to close here.
Verdicts(c) ==
    {"failed", "disowned", "fed"}
        \cup (IF recipeCrawls[c].duplicate THEN {} ELSE {"passed"})
        \cup (IF recipeCrawls[c].duplicate \/ MayOverlap(recipeCrawls[c].recipe)
              THEN {"duplicate"} ELSE {})

JudgeRecipe(c) ==
    /\ recipeCrawls[c].at = "compared"
    /\ \E verdict \in Verdicts(c) :
          recipeCrawls' = [recipeCrawls EXCEPT
              ![c] = [IdleCrawl EXCEPT !.at = "judged", !.recipe = recipeCrawls[c].recipe,
                                !.verdict = verdict]]
    /\ UNCHANGED <<recipes, owned, recipeQueue, builders>>

\* Mutant: one failure too late.
WornOutLate(failures) == failures > MaxFailures

WornOut(failures) == failures >= MaxFailures

\* complete_company_news_recipe_run, after the crawl run was closed with the items of a crawl
\* that passed.
CloseRecipeRun(c) ==
    /\ recipeCrawls[c].at = "judged"
    /\ LET r == recipeCrawls[c].recipe
           verdict == recipeCrawls[c].verdict
           count == IF verdict = "passed" THEN 0 ELSE recipes[r].failures + 1
           failed == IF count > MaxFailures THEN MaxFailures ELSE count
       IN  /\ recipes' = [recipes EXCEPT
                  ![r].failures = failed, ![r].rebuild = WornOut(failed),
                  ![r].status = IF WornOut(failed) /\ @ = "active" THEN "stale" ELSE @]
           /\ recipeCrawls' = [recipeCrawls EXCEPT ![c] =
                  IF verdict \in {"fed", "duplicate", "disowned"}
                  THEN [recipeCrawls[c] EXCEPT !.at = "retiring"] ELSE IdleCrawl]
    /\ UNCHANGED <<owned, recipeQueue, builders>>

\* In a transaction of its own.
RetireRecipe(c) ==
    /\ recipeCrawls[c].at = "retiring"
    /\ IF recipeCrawls[c].verdict = "disowned"
       THEN Disown(recipeCrawls[c].recipe)
       ELSE Supersede(recipeCrawls[c].recipe) /\ UNCHANGED owned
    /\ recipeCrawls' = [recipeCrawls EXCEPT ![c] = IdleCrawl]
    /\ UNCHANGED builders

\* A lost lease, a shutdown, an error: the records are CrawlRuns' concern.
AbandonRecipeCrawl(c) ==
    /\ recipeCrawls[c].at # "idle"
    /\ recipeCrawls' = [recipeCrawls EXCEPT ![c] = IdleCrawl]
    /\ UNCHANGED <<recipes, owned, recipeQueue, builders>>

-----------------------------------------------------------------------------
BuilderStep(b) ==
    \/ StartBuild(b) \/ FindRedundant(b) \/ LookUpRecipe(b) \/ ActivateRecipe(b)
    \/ SupersedeNext(b) \/ EndBuild(b) \/ AbandonBuild(b)

RecipeCrawlStep(c) ==
    \/ \E s \in RecipeSource : StartRecipeCrawl(c, s)
    \/ CompareRecipes(c) \/ JudgeRecipe(c) \/ CloseRecipeRun(c) \/ RetireRecipe(c) \/ AbandonRecipeCrawl(c)

RecipesNext ==
    \/ \E b \in Builder : BuilderStep(b)
    \/ \E c \in RecipeCrawl : RecipeCrawlStep(c)
    \/ \E s \in RecipeSource : ScheduleRecipeCrawl(s)

RecipesSpec == RecipesInit /\ [][RecipesNext]_recipeVars

-----------------------------------------------------------------------------
\* Types, and the unique index on the active recipe of a source.
RecipesTypeOK ==
    /\ recipes \in [RecipeId -> Recipe \cup {NoRecipe}]
    /\ \A q, r \in ActiveRecipes : recipes[q].source = recipes[r].source => q = r
    /\ owned \subseteq RecipeSource /\ recipeQueue \subseteq RecipeSource
    /\ builders \in [Builder -> Build]
    /\ recipeCrawls \in [RecipeCrawl -> Crawl]

(* A recipe in use is one that is trusted: it has not failed as often as it may, and nothing
   waits for its rebuild, whatever late verdicts about it, refreshes and replacements of it
   have been written in between (complete_company_news_recipe_run,
   activate_company_news_recipe). *)
ActiveIsTrusted ==
    \A r \in ActiveRecipes : ~recipes[r].rebuild /\ recipes[r].failures < MaxFailures
=============================================================================
