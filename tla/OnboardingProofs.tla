-------------------------- MODULE OnboardingProofs --------------------------
(***************************************************************************)
(* Proofs about the modules between a company and its sources.  Recipes    *)
(* and Candidates: the recipe in use is a trusted one, an operator's       *)
(* rejection is final, and an approved source has an accepted candidate.   *)
(* NewsExtraction: a completed job has a run that its own attempt has      *)
(* completed.  Discovery: what is found does not depend on the order in    *)
(* which it is seen, and a completed job has a completed run.              *)
(* UniverseImport: imports, waves and the seed configuration undo nothing  *)
(* that was decided about a company.  CrawlGates: what is published meets  *)
(* the contract after every gate.  Both users of the attempt layer         *)
(* implement JobAttempts, and MCOnboarding works one part at a time.       *)
(***************************************************************************)
EXTENDS MCOnboarding, AttemptLayerProofs, FiniteSetTheorems

-----------------------------------------------------------------------------
(* Recipes *)

\* The table of recipes: its types, its unique index, and the health of what is in use.
TableInv ==
    /\ recipes \in [RecipeId -> Recipe \cup {NoRecipe}]
    /\ \A q, r \in ActiveRecipes : recipes[q].source = recipes[r].source => q = r
    /\ ActiveIsTrusted

\* What a builder or a crawl has read is a recipe that exists: none is ever deleted.
KnownRecipes ==
    /\ \A b \in Builder : /\ builders[b].redundant \subseteq Existing
                          /\ builders[b].recipe \in Existing \cup {0}
    /\ \A c \in RecipeCrawl : recipeCrawls[c].at # "idle" => recipeCrawls[c].recipe \in Existing

RecipeInv == RecipesTypeOK /\ ActiveIsTrusted /\ KnownRecipes

Actors ==
    /\ owned \subseteq RecipeSource /\ recipeQueue \subseteq RecipeSource
    /\ builders \in [Builder -> Build]
    /\ recipeCrawls \in [RecipeCrawl -> Crawl]
    /\ KnownRecipes

LEMMA RecipeParts == RecipeInv <=> TableInv /\ Actors
BY DEF RecipeInv, TableInv, Actors, RecipesTypeOK

LEMMA ExistingIsRecipe ==
    ASSUME recipes \in [RecipeId -> Recipe \cup {NoRecipe}], NEW r \in RecipeId
    PROVE  r \in Existing <=> recipes[r] \in Recipe
<1>1. recipes[r] \in Recipe => recipes[r].status # "none"
    BY DEF Recipe
<1>2. NoRecipe.status = "none"
    BY DEF NoRecipe
<1> QED BY <1>1, <1>2 DEF Existing

\* One recipe is rewritten, and comes into use only if it was.
LEMMA RewriteRecipe ==
    ASSUME TableInv, NEW r \in Existing, NEW x \in Recipe,
           recipes' = [recipes EXCEPT ![r] = x],
           x.source = recipes[r].source,
           x.status = "active" => /\ recipes[r].status = "active"
                                  /\ ~x.rebuild /\ x.failures < MaxFailures
    PROVE  TableInv' /\ Existing' = Existing
<1>1. r \in RecipeId
    BY DEF Existing
<1>2. recipes' \in [RecipeId -> Recipe \cup {NoRecipe}]
    BY <1>1 DEF TableInv
<1>3. x # NoRecipe
    BY DEF Recipe, NoRecipe
<1>4. Existing' = Existing
    BY <1>1, <1>3 DEF Existing, TableInv
<1>5. ActiveRecipes' \subseteq ActiveRecipes
    BY <1>1, <1>4 DEF ActiveRecipes, TableInv, Existing
<1>6. \A q \in RecipeId : q \in Existing => recipes'[q].source = recipes[q].source
    BY <1>1 DEF TableInv, Existing
<1>7. \A q, p \in ActiveRecipes' : recipes'[q].source = recipes'[p].source => q = p
    BY <1>5, <1>6 DEF TableInv, ActiveRecipes, Existing
<1>8. ActiveIsTrusted'
    <2> SUFFICES ASSUME NEW q \in ActiveRecipes'
                 PROVE  ~recipes'[q].rebuild /\ recipes'[q].failures < MaxFailures
        BY DEF ActiveIsTrusted
    <2>1. CASE q = r
        BY <2>1, <1>1 DEF ActiveRecipes, TableInv
    <2>2. CASE q # r
        BY <2>2, <1>1, <1>5 DEF ActiveRecipes, ActiveIsTrusted, TableInv, Existing
    <2> QED BY <2>1, <2>2
<1> QED BY <1>2, <1>4, <1>7, <1>8 DEF TableInv

LEMMA RecipeTableKept ==
    ASSUME TableInv, UNCHANGED recipes
    PROVE  TableInv' /\ Existing' = Existing
BY DEF TableInv, ActiveRecipes, ActiveIsTrusted, Existing

LEMMA SupersedeLayer ==
    ASSUME TableInv, NEW r \in RecipeId, Supersede(r),
           recipeQueue \subseteq RecipeSource
    PROVE  TableInv' /\ Existing' = Existing /\ recipeQueue' \subseteq RecipeSource
<1>1. CASE r \in ActiveRecipes
    <2> DEFINE x == [recipes[r] EXCEPT !.status = "superseded"]
    <2>1. r \in Existing /\ recipes[r] \in Recipe
        BY <1>1, ExistingIsRecipe DEF ActiveRecipes, TableInv
    <2>2. x \in Recipe /\ x.source = recipes[r].source /\ x.status = "superseded"
        BY <2>1 DEF Recipe
    <2>3. recipes' = [recipes EXCEPT ![r] = x]
        BY <1>1, <2>1 DEF Supersede, TableInv
    <2>4. recipeQueue' \subseteq RecipeSource
        BY <1>1 DEF Supersede
    <2> HIDE DEF x
    <2> QED BY <2>1, <2>2, <2>3, <2>4, RewriteRecipe
<1>2. CASE r \notin ActiveRecipes
    BY <1>2, RecipeTableKept DEF Supersede
<1> QED BY <1>1, <1>2

LEMMA DisownLayer ==
    ASSUME TableInv, NEW r \in RecipeId, Disown(r),
           owned \subseteq RecipeSource, recipeQueue \subseteq RecipeSource
    PROVE  /\ TableInv' /\ Existing' = Existing
           /\ owned' \subseteq RecipeSource /\ recipeQueue' \subseteq RecipeSource
<1>1. CASE r \in ActiveRecipes
    <2> DEFINE x == [recipes[r] EXCEPT !.status = "stale", !.rebuild = TRUE, !.failures = MaxFailures]
    <2>1. r \in Existing /\ recipes[r] \in Recipe
        BY <1>1, ExistingIsRecipe DEF ActiveRecipes, TableInv
    <2>5. MaxFailures \in 0..MaxFailures
        BY RecipesAssumption
    <2>2. x \in Recipe /\ x.source = recipes[r].source /\ x.status = "stale"
        BY <2>1, <2>5 DEF Recipe
    <2>3. recipes' = [recipes EXCEPT ![r] = x]
        BY <1>1, <2>1 DEF Disown, TableInv
    <2>4. owned' \subseteq RecipeSource /\ recipeQueue' \subseteq RecipeSource
        BY <1>1 DEF Disown
    <2> HIDE DEF x
    <2> QED BY <2>1, <2>2, <2>3, <2>4, RewriteRecipe
<1>2. CASE r \notin ActiveRecipes
    BY <1>2, RecipeTableKept DEF Disown
<1> QED BY <1>1, <1>2

-----------------------------------------------------------------------------
(* The builders *)

LEMMA IdleShapes ==
    /\ IdleBuilder \in Build
    /\ \A r \in RecipeId : [IdleCrawl EXCEPT !.recipe = r] \in Crawl
    /\ IdleCrawl \in Crawl
<1>1. 1 \in RecipeId /\ 1 \in 1..MaxVerified
    BY RecipesAssumption DEF RecipeId
<1>2. AnySource \in RecipeSource /\ (CHOOSE k \in RecipeContent : TRUE) \in RecipeContent
    BY RecipesAssumption DEF AnySource
<1>3. IdleBuilder \in Build
    BY <1>1, <1>2 DEF IdleBuilder, Build
<1> QED BY <1>1, <1>3 DEF IdleCrawl, Crawl, Verdict

\* One builder moves on, and knows only recipes that exist.
LEMMA BuilderMoves ==
    ASSUME TableInv, Actors, NEW b \in Builder, NEW x \in Build,
           builders' = [builders EXCEPT ![b] = x],
           x.redundant \subseteq Existing', x.recipe \in Existing' \cup {0},
           TableInv', Existing \subseteq Existing',
           owned' \subseteq RecipeSource, recipeQueue' \subseteq RecipeSource,
           UNCHANGED recipeCrawls
    PROVE  RecipeInv'
<1>1. Actors'
    BY DEF Actors, KnownRecipes
<1> QED BY <1>1, RecipeParts, PTL

Turned(b, q, R) ==
    [IdleBuilder EXCEPT !.at = "superseding", !.source = builders[b].source,
                        !.recipe = q, !.redundant = R]

LEMMA TurnToShape ==
    ASSUME Actors, NEW b \in Builder, NEW q, q \in RecipeId \cup {0}, NEW R, R \subseteq RecipeId
    PROVE  /\ Turned(b, q, R) \in Build
           /\ Turned(b, q, R).recipe = q /\ Turned(b, q, R).redundant = R
BY IdleShapes DEF Actors, Build, IdleBuilder, Turned

LEMMA BuilderStepKeepsRecipes ==
    ASSUME RecipeInv, NEW b \in Builder, BuilderStep(b)
    PROVE  RecipeInv'
<1> USE RecipeParts
<1>1. TableInv /\ Actors
    OBVIOUS
<1>2. /\ builders[b] \in Build /\ builders[b].redundant \subseteq Existing
      /\ builders[b].recipe \in Existing \cup {0}
      /\ Existing \subseteq RecipeId
      /\ builders[b].redundant \subseteq RecipeId
    BY <1>1 DEF Actors, KnownRecipes, Existing
<1>3. CASE StartBuild(b)
    <2>1. PICK s \in RecipeSource, k \in RecipeContent, now \in 1..MaxVerified,
               covered \in SUBSET ActiveRecipes :
              builders' = [builders EXCEPT ![b] =
                  [at |-> "building", source |-> s, content |-> k, verified |-> now, recipe |-> 0,
                   redundant |-> {r \in ActiveRecipes : Publication(r) = PublicationOf[s]}
                                     \cup covered]]
        BY ZenonT(60), <1>3 DEF StartBuild
    <2> DEFINE R == {r \in ActiveRecipes : Publication(r) = PublicationOf[s]} \cup covered
               x == [at |-> "building", source |-> s, content |-> k, verified |-> now,
                     recipe |-> 0, redundant |-> R]
    <2>2. R \subseteq Existing
        BY DEF ActiveRecipes
    <2>3. x \in Build /\ x.redundant = R /\ x.recipe = 0
        BY <1>2, <2>2 DEF Build
    <2>4. TableInv' /\ Existing' = Existing
        BY <1>1, <1>3, RecipeTableKept DEF StartBuild
    <2>5. owned' \subseteq RecipeSource /\ recipeQueue' \subseteq RecipeSource /\ UNCHANGED recipeCrawls
        BY <1>1, <1>3 DEF StartBuild, Actors
    <2>6. builders' = [builders EXCEPT ![b] = x]
        BY <2>1
    <2> HIDE DEF R, x
    <2> QED BY <1>1, <2>2, <2>3, <2>4, <2>5, <2>6, BuilderMoves
<1>4. CASE FindRedundant(b)
    <2> DEFINE x == Turned(b, 0, builders[b].redundant)
    <2>1. x \in Build /\ x.recipe = 0 /\ x.redundant = builders[b].redundant
        BY <1>1, <1>2, TurnToShape
    <2>2. builders' = [builders EXCEPT ![b] = x]
        BY <1>4 DEF FindRedundant, TurnTo, Turned
    <2>3. TableInv' /\ Existing' = Existing
        BY <1>1, <1>4, RecipeTableKept DEF FindRedundant
    <2>4. owned' \subseteq RecipeSource /\ recipeQueue' \subseteq RecipeSource /\ UNCHANGED recipeCrawls
        BY <1>1, <1>4 DEF FindRedundant, Actors
    <2> HIDE DEF x
    <2> QED BY <1>1, <1>2, <2>1, <2>2, <2>3, <2>4, BuilderMoves
<1>5. CASE LookUpRecipe(b)
    <2> DEFINE same == {r \in ActiveOf(builders[b].source) :
                            recipes[r].content = builders[b].content}
               found == IF same = {} THEN 0 ELSE CHOOSE r \in same : TRUE
               x == [builders[b] EXCEPT !.at = "looked", !.recipe = found]
    <2>1. found \in Existing \cup {0}
        BY DEF ActiveOf, ActiveRecipes
    <2>2. builders' = [builders EXCEPT ![b] = x]
        BY <1>1, <1>5 DEF LookUpRecipe, Actors
    <2>3. TableInv' /\ Existing' = Existing
        BY <1>1, <1>5, RecipeTableKept DEF LookUpRecipe
    <2>4. owned' \subseteq RecipeSource /\ recipeQueue' \subseteq RecipeSource /\ UNCHANGED recipeCrawls
        BY <1>1, <1>5 DEF LookUpRecipe, Actors
    <2> HIDE DEF found
    <2>5. x \in Build /\ x.recipe = found /\ x.redundant = builders[b].redundant
        BY <1>2, <2>1 DEF Build
    <2> HIDE DEF x
    <2> QED BY <1>1, <1>2, <2>1, <2>2, <2>3, <2>4, <2>5, BuilderMoves
<1>6. CASE ActivateRecipe(b)
    <2>1. owned' \subseteq RecipeSource /\ recipeQueue' \subseteq RecipeSource /\ UNCHANGED recipeCrawls
        BY <1>1, <1>6 DEF ActivateRecipe, Actors
    <2>2. CASE builders[b].recipe # 0
        <3> DEFINE found == builders[b].recipe
                   y == [recipes[found] EXCEPT !.verified = builders[b].verified,
                                               !.failures = 0, !.rebuild = FALSE]
                   x == Turned(b, found, builders[b].redundant \ {found})
        <3>1. found \in Existing /\ found \in RecipeId
            BY <1>2, <2>2
        <3>2. recipes[found] \in Recipe
            BY <1>1, <3>1, ExistingIsRecipe DEF TableInv
        <3>3. 0 \in 0..MaxFailures /\ 0 < MaxFailures /\ builders[b].verified \in 1..MaxVerified
            BY <1>2, RecipesAssumption DEF Build
        <3>4. /\ y \in Recipe /\ y.source = recipes[found].source
              /\ y.status = recipes[found].status /\ ~y.rebuild /\ y.failures < MaxFailures
            BY <3>2, <3>3 DEF Recipe
        <3>5. recipes' = [recipes EXCEPT ![found] = y] /\ builders' = [builders EXCEPT ![b] = x]
            BY <1>1, <1>6, <2>2, <3>1 DEF ActivateRecipe, TurnTo, Turned, TableInv
        <3>8. builders[b].redundant \ {found} \subseteq RecipeId
            BY <1>2
        <3>6. x \in Build /\ x.recipe = found /\ x.redundant = builders[b].redundant \ {found}
            BY <1>1, <3>1, <3>8, TurnToShape
        <3> HIDE DEF x, y
        <3>7. TableInv' /\ Existing' = Existing
            BY <1>1, <3>1, <3>4, <3>5, RewriteRecipe
        <3> QED BY <1>1, <1>2, <2>1, <3>1, <3>5, <3>6, <3>7, BuilderMoves
    <2>3. CASE builders[b].recipe = 0
        <3> DEFINE s == builders[b].source
                   version == [source |-> s, content |-> builders[b].content,
                               status |-> "active", verified |-> builders[b].verified,
                               failures |-> 0, rebuild |-> FALSE]
        <3>1. PICK new \in RecipeId \ Existing :
                  /\ recipes' = [r \in RecipeId |->
                         IF r = new THEN version
                         ELSE IF r \in Displaced(s)
                              THEN [recipes[r] EXCEPT !.status = "superseded"]
                         ELSE recipes[r]]
                  /\ TurnTo(b, new, builders[b].redundant)
            BY <1>6, <2>3 DEF ActivateRecipe
        <3>2. version \in Recipe /\ version # NoRecipe /\ 0 < MaxFailures
            <4>1. 0 \in 0..MaxFailures /\ 0 < MaxFailures
                BY RecipesAssumption
            <4> QED BY <1>2, <4>1 DEF Recipe, Build, NoRecipe
        <3>3. /\ version.source = s /\ version.status = "active"
              /\ ~version.rebuild /\ version.failures = 0
            OBVIOUS
        <3> HIDE DEF version
        <3>4. ASSUME NEW r \in RecipeId, r # new, r \in Displaced(s)
              PROVE  /\ r \in Existing /\ recipes'[r] \in Recipe /\ recipes'[r] # NoRecipe
                     /\ recipes'[r].source = recipes[r].source /\ recipes'[r].status = "superseded"
            <4>1. r \in Existing /\ recipes[r] \in Recipe
                BY <1>1, <3>4, ExistingIsRecipe DEF Displaced, ActiveOf, ActiveRecipes, TableInv
            <4>2. recipes'[r] = [recipes[r] EXCEPT !.status = "superseded"]
                BY <3>1, <3>4
            <4>3. recipes'[r] \in Recipe /\ recipes'[r].source = recipes[r].source
                  /\ recipes'[r].status = "superseded"
                BY <4>1, <4>2 DEF Recipe
            <4> QED BY <4>1, <4>3 DEF NoRecipe
        <3>5. ASSUME NEW r \in RecipeId, r # new, r \notin Displaced(s)
              PROVE  recipes'[r] = recipes[r]
            BY <3>1, <3>5
        <3>6. recipes'[new] = version
            BY <3>1
        <3>7. recipes' \in [RecipeId -> Recipe \cup {NoRecipe}]
            <4>1. \A r \in RecipeId : recipes'[r] \in Recipe \cup {NoRecipe}
                BY <1>1, <3>2, <3>4, <3>5, <3>6 DEF TableInv
            <4>2. recipes' = [r \in RecipeId |-> recipes'[r]]
                BY <3>1
            <4> QED BY <4>1, <4>2
        <3>8. Existing' = Existing \cup {new}
            BY <3>1, <3>2, <3>4, <3>5, <3>6 DEF Existing
        <3>9. ASSUME NEW r \in ActiveRecipes', r # new
              PROVE  r \in ActiveRecipes /\ recipes'[r] = recipes[r] /\ recipes[r].source # s
            <4>1. r \in RecipeId /\ r \in Existing /\ recipes'[r].status = "active"
                BY <3>8, <3>9 DEF ActiveRecipes, Existing
            <4>2. r \notin Displaced(s)
                BY <3>4, <3>9, <4>1
            <4>3. recipes'[r] = recipes[r]
                BY <3>5, <3>9, <4>1, <4>2
            <4> QED BY <4>1, <4>2, <4>3 DEF Displaced, ActiveOf, ActiveRecipes
        <3>10. \A q, r \in ActiveRecipes' : recipes'[q].source = recipes'[r].source => q = r
            BY <1>1, <3>3, <3>6, <3>9 DEF TableInv
        <3>11. ActiveIsTrusted'
            BY <1>1, <3>2, <3>3, <3>6, <3>9 DEF ActiveIsTrusted, TableInv
        <3>12. TableInv'
            BY <3>7, <3>10, <3>11 DEF TableInv
        <3> DEFINE x == Turned(b, new, builders[b].redundant)
        <3>13. x \in Build /\ x.recipe = new /\ x.redundant = builders[b].redundant
            BY <1>1, <1>2, TurnToShape
        <3>14. builders' = [builders EXCEPT ![b] = x]
            BY <3>1 DEF TurnTo, Turned
        <3> HIDE DEF x
        <3> QED BY <1>1, <1>2, <2>1, <3>8, <3>12, <3>13, <3>14, BuilderMoves
    <2> QED BY <2>2, <2>3
<1>7. CASE SupersedeNext(b)
    <2>1. PICK r \in builders[b].redundant :
              Supersede(r) /\ builders' = [builders EXCEPT ![b].redundant = @ \ {r}]
        BY <1>7 DEF SupersedeNext
    <2> DEFINE x == [builders[b] EXCEPT !.redundant = @ \ {r}]
    <2>2. x \in Build /\ x.recipe = builders[b].recipe /\ x.redundant = builders[b].redundant \ {r}
        BY <1>2 DEF Build
    <2>3. builders' = [builders EXCEPT ![b] = x]
        BY <1>1, <2>1 DEF Actors
    <2>4. TableInv' /\ Existing' = Existing /\ recipeQueue' \subseteq RecipeSource
        BY <1>1, <1>2, <2>1, SupersedeLayer DEF Actors
    <2>5. owned' \subseteq RecipeSource /\ UNCHANGED recipeCrawls
        BY <1>1, <1>7 DEF SupersedeNext, Actors
    <2> HIDE DEF x
    <2> QED BY <1>1, <1>2, <2>2, <2>3, <2>4, <2>5, BuilderMoves
<1>8. CASE EndBuild(b)
    <2>1. TableInv' /\ Existing' = Existing
        BY <1>1, <1>8, RecipeTableKept DEF EndBuild
    <2>2. owned' \subseteq RecipeSource /\ recipeQueue' \subseteq RecipeSource /\ UNCHANGED recipeCrawls
        BY <1>1, <1>2, <1>8 DEF EndBuild, Actors, Build
    <2>3. builders' = [builders EXCEPT ![b] = IdleBuilder]
        BY <1>8 DEF EndBuild
    <2>4. IdleBuilder.recipe = 0 /\ IdleBuilder.redundant = {}
        BY DEF IdleBuilder
    <2> QED BY <1>1, <2>1, <2>2, <2>3, <2>4, IdleShapes, BuilderMoves
<1>9. CASE AbandonBuild(b)
    <2>1. TableInv' /\ Existing' = Existing
        BY <1>1, <1>9, RecipeTableKept DEF AbandonBuild
    <2>2. owned' \subseteq RecipeSource /\ recipeQueue' \subseteq RecipeSource /\ UNCHANGED recipeCrawls
        BY <1>1, <1>9 DEF AbandonBuild, Actors
    <2>3. builders' = [builders EXCEPT ![b] = IdleBuilder]
        BY <1>9 DEF AbandonBuild
    <2>4. IdleBuilder.recipe = 0 /\ IdleBuilder.redundant = {}
        BY DEF IdleBuilder
    <2> QED BY <1>1, <2>1, <2>2, <2>3, <2>4, IdleShapes, BuilderMoves
<1> QED BY <1>3, <1>4, <1>5, <1>6, <1>7, <1>8, <1>9 DEF BuilderStep

-----------------------------------------------------------------------------
(* The crawls by recipe *)

LEMMA CrawlMoves ==
    ASSUME TableInv, Actors, NEW c \in RecipeCrawl, NEW x \in Crawl,
           recipeCrawls' = [recipeCrawls EXCEPT ![c] = x],
           x.at # "idle" => x.recipe \in Existing,
           TableInv', Existing' = Existing,
           owned' \subseteq RecipeSource, recipeQueue' \subseteq RecipeSource,
           UNCHANGED builders
    PROVE  RecipeInv'
<1>1. Actors'
    BY DEF Actors, KnownRecipes
<1> QED BY <1>1, RecipeParts, PTL

LEMMA RecipeCrawlStepKeepsRecipes ==
    ASSUME RecipeInv, NEW c \in RecipeCrawl, RecipeCrawlStep(c)
    PROVE  RecipeInv'
<1> USE RecipeParts
<1>1. TableInv /\ Actors
    OBVIOUS
<1>2. /\ recipeCrawls[c] \in Crawl
      /\ recipeCrawls[c].at # "idle" => recipeCrawls[c].recipe \in Existing
      /\ Existing \subseteq RecipeId
    BY <1>1 DEF Actors, KnownRecipes, Existing
<1>3. ASSUME NEW s \in RecipeSource, StartRecipeCrawl(c, s)
      PROVE  RecipeInv'
    <2>1. TableInv' /\ Existing' = Existing
        BY <1>1, <1>3, RecipeTableKept DEF StartRecipeCrawl
    <2>2. owned' \subseteq RecipeSource /\ recipeQueue' \subseteq RecipeSource /\ UNCHANGED builders
        BY <1>1, <1>3 DEF StartRecipeCrawl, Actors
    <2>3. CASE UNCHANGED recipeCrawls
        <3>1. Actors'
            BY <1>1, <2>1, <2>2, <2>3 DEF Actors, KnownRecipes
        <3> QED BY <2>1, <3>1, RecipeParts, PTL
    <2>4. CASE ~UNCHANGED recipeCrawls
        <3>1. PICK r \in ActiveOf(s) \cap Working :
                  recipeCrawls' = [recipeCrawls EXCEPT ![c] =
                      [IdleCrawl EXCEPT !.at = "read", !.recipe = r, !.order = recipes[r].verified]]
            BY <1>3, <2>4 DEF StartRecipeCrawl
        <3> DEFINE x == [IdleCrawl EXCEPT !.at = "read", !.recipe = r, !.order = recipes[r].verified]
        <3>2. r \in Existing /\ r \in RecipeId
            BY <3>1 DEF ActiveOf, ActiveRecipes, Existing
        <3>3. recipes[r].verified \in 1..MaxVerified
            BY <1>1, <3>2, ExistingIsRecipe DEF TableInv, Recipe
        <3>4. x \in Crawl /\ x.recipe = r
            BY <3>2, <3>3 DEF IdleCrawl, Crawl, Verdict
        <3>5. recipeCrawls' = [recipeCrawls EXCEPT ![c] = x]
            BY <3>1
        <3> HIDE DEF x
        <3> QED BY <1>1, <2>1, <2>2, <3>2, <3>4, <3>5, CrawlMoves
    <2> QED BY <2>3, <2>4
<1>4. CASE CompareRecipes(c)
    <2> DEFINE mine == recipeCrawls[c].recipe
               duplicate == \E r \in Working \ {mine} :
                                /\ Publication(r) = Publication(mine)
                                /\ Before(r, recipeCrawls[c].order, mine)
               x == [recipeCrawls[c] EXCEPT !.at = "compared", !.order = 1, !.duplicate = duplicate]
    <2>1. duplicate \in BOOLEAN
        OBVIOUS
    <2>2. recipeCrawls' = [recipeCrawls EXCEPT ![c] = x]
        BY <1>1, <1>4 DEF CompareRecipes, Actors
    <2>3. 1 \in 1..MaxVerified
        BY RecipesAssumption
    <2> HIDE DEF duplicate
    <2>4. x \in Crawl /\ x.recipe = recipeCrawls[c].recipe
        BY <1>2, <2>1, <2>3 DEF Crawl
    <2>5. recipeCrawls[c].at # "idle"
        BY <1>4 DEF CompareRecipes
    <2>6. TableInv' /\ Existing' = Existing
        BY <1>1, <1>4, RecipeTableKept DEF CompareRecipes
    <2>7. owned' \subseteq RecipeSource /\ recipeQueue' \subseteq RecipeSource /\ UNCHANGED builders
        BY <1>1, <1>4 DEF CompareRecipes, Actors
    <2> HIDE DEF x
    <2> QED BY <1>1, <1>2, <2>2, <2>4, <2>5, <2>6, <2>7, CrawlMoves
<1>5. CASE JudgeRecipe(c)
    <2>1. PICK verdict \in Verdicts(c) :
              recipeCrawls' = [recipeCrawls EXCEPT
                  ![c] = [IdleCrawl EXCEPT !.at = "judged", !.recipe = recipeCrawls[c].recipe,
                                           !.verdict = verdict]]
        BY <1>5 DEF JudgeRecipe
    <2> DEFINE x == [IdleCrawl EXCEPT !.at = "judged", !.recipe = recipeCrawls[c].recipe,
                                      !.verdict = verdict]
    <2>2. verdict \in Verdict
        BY DEF Verdicts, Verdict
    <2>3. 1 \in 1..MaxVerified
        BY RecipesAssumption
    <2>4. x \in Crawl /\ x.recipe = recipeCrawls[c].recipe
        BY <1>2, <2>2, <2>3 DEF IdleCrawl, Crawl
    <2>5. recipeCrawls[c].at # "idle"
        BY <1>5 DEF JudgeRecipe
    <2>6. TableInv' /\ Existing' = Existing
        BY <1>1, <1>5, RecipeTableKept DEF JudgeRecipe
    <2>7. owned' \subseteq RecipeSource /\ recipeQueue' \subseteq RecipeSource /\ UNCHANGED builders
        BY <1>1, <1>5 DEF JudgeRecipe, Actors
    <2>8. recipeCrawls' = [recipeCrawls EXCEPT ![c] = x]
        BY <2>1
    <2> HIDE DEF x
    <2> QED BY <1>1, <1>2, <2>4, <2>5, <2>6, <2>7, <2>8, CrawlMoves
<1>6. CASE CloseRecipeRun(c)
    <2> DEFINE r == recipeCrawls[c].recipe
               count == IF recipeCrawls[c].verdict = "passed" THEN 0 ELSE recipes[r].failures + 1
               failed == IF count > MaxFailures THEN MaxFailures ELSE count
               outcome == IF WornOut(failed) /\ recipes[r].status = "active"
                         THEN "stale" ELSE recipes[r].status
               worn == WornOut(failed)
               y == [recipes[r] EXCEPT !.failures = failed, !.rebuild = worn, !.status = outcome]
               x == [recipeCrawls[c] EXCEPT !.at = "retiring"]
    <2>1. r \in Existing /\ r \in RecipeId /\ recipes[r] \in Recipe
        BY <1>1, <1>2, <1>6, ExistingIsRecipe DEF CloseRecipeRun, TableInv
    <2>2. failed \in 0..MaxFailures /\ worn \in BOOLEAN
        BY <2>1, RecipesAssumption DEF Recipe, WornOut
    <2>3. recipes' = [recipes EXCEPT ![r] = y]
        BY <1>1, <1>6, <2>1 DEF CloseRecipeRun, TableInv
    <2>4. outcome \in {"active", "stale", "superseded"}
        BY <2>1 DEF Recipe
    <2>5. outcome = "active" => recipes[r].status = "active" /\ ~worn /\ failed < MaxFailures
        BY <2>2, RecipesAssumption DEF WornOut
    <2> HIDE DEF failed, outcome, worn
    <2>6. /\ y \in Recipe /\ y.source = recipes[r].source /\ y.status = outcome
          /\ y.rebuild = worn /\ y.failures = failed
        BY <2>1, <2>2, <2>4 DEF Recipe
    <2> HIDE DEF y
    <2>7. TableInv' /\ Existing' = Existing
        BY <1>1, <2>1, <2>3, <2>5, <2>6, RewriteRecipe
    <2>8. owned' \subseteq RecipeSource /\ recipeQueue' \subseteq RecipeSource /\ UNCHANGED builders
        BY <1>1, <1>6 DEF CloseRecipeRun, Actors
    <2>9. x \in Crawl /\ x.recipe = r
        BY <1>2 DEF Crawl
    <2>10. \/ recipeCrawls' = [recipeCrawls EXCEPT ![c] = x]
           \/ recipeCrawls' = [recipeCrawls EXCEPT ![c] = IdleCrawl]
        BY <1>6 DEF CloseRecipeRun
    <2>11. IdleCrawl.at = "idle"
        BY DEF IdleCrawl
    <2> HIDE DEF x
    <2> QED BY <1>1, <2>1, <2>7, <2>8, <2>9, <2>10, <2>11, IdleShapes, CrawlMoves
<1>7. CASE RetireRecipe(c)
    <2>1. recipeCrawls[c].recipe \in RecipeId
        BY <1>2 DEF Crawl
    <2>2. /\ recipeCrawls' = [recipeCrawls EXCEPT ![c] = IdleCrawl] /\ UNCHANGED builders
          /\ \/ Disown(recipeCrawls[c].recipe)
             \/ Supersede(recipeCrawls[c].recipe) /\ UNCHANGED owned
        BY <1>7 DEF RetireRecipe
    <2>3. /\ TableInv' /\ Existing' = Existing
          /\ owned' \subseteq RecipeSource /\ recipeQueue' \subseteq RecipeSource
        BY <1>1, <2>1, <2>2, DisownLayer, SupersedeLayer DEF Actors
    <2>4. IdleCrawl.at = "idle"
        BY DEF IdleCrawl
    <2> QED BY <1>1, <2>2, <2>3, <2>4, IdleShapes, CrawlMoves
<1>8. CASE AbandonRecipeCrawl(c)
    <2>1. TableInv' /\ Existing' = Existing
        BY <1>1, <1>8, RecipeTableKept DEF AbandonRecipeCrawl
    <2>2. /\ owned' \subseteq RecipeSource /\ recipeQueue' \subseteq RecipeSource
          /\ UNCHANGED builders /\ recipeCrawls' = [recipeCrawls EXCEPT ![c] = IdleCrawl]
        BY <1>1, <1>8 DEF AbandonRecipeCrawl, Actors
    <2>3. IdleCrawl.at = "idle"
        BY DEF IdleCrawl
    <2> QED BY <1>1, <2>1, <2>2, <2>3, IdleShapes, CrawlMoves
<1> QED BY <1>3, <1>4, <1>5, <1>6, <1>7, <1>8 DEF RecipeCrawlStep

LEMMA InitRecipeInv ==
    ASSUME RecipesInit
    PROVE  RecipeInv
<1>1. Existing = {} /\ ActiveRecipes = {}
    BY DEF RecipesInit, Existing, ActiveRecipes
<1>2. recipes \in [RecipeId -> Recipe \cup {NoRecipe}]
    BY DEF RecipesInit
<1>3. IdleBuilder.redundant = {} /\ IdleBuilder.recipe = 0 /\ IdleCrawl.at = "idle"
    BY DEF IdleBuilder, IdleCrawl
<1>4. builders \in [Builder -> Build] /\ recipeCrawls \in [RecipeCrawl -> Crawl]
    BY IdleShapes DEF RecipesInit
<1>5. KnownRecipes
    BY <1>3 DEF RecipesInit, KnownRecipes
<1> QED BY <1>1, <1>2, <1>4, <1>5 DEF RecipesInit, RecipeInv, RecipesTypeOK, ActiveIsTrusted

LEMMA StepRecipeInv ==
    ASSUME RecipeInv, [RecipesNext]_recipeVars
    PROVE  RecipeInv'
<1> USE RecipeParts
<1>1. TableInv /\ Actors
    OBVIOUS
<1>2. CASE \E s \in RecipeSource : ScheduleRecipeCrawl(s)
    <2>1. /\ UNCHANGED <<recipes, owned, builders, recipeCrawls>>
          /\ recipeQueue' \subseteq RecipeSource
        BY <1>1, <1>2 DEF ScheduleRecipeCrawl, Actors
    <2>2. TableInv' /\ Existing' = Existing
        BY <1>1, <2>1, RecipeTableKept
    <2>3. Actors'
        BY <1>1, <2>1, <2>2 DEF Actors, KnownRecipes
    <2> QED BY <2>2, <2>3, RecipeParts, PTL
<1>3. CASE UNCHANGED recipeVars
    <2>1. UNCHANGED <<recipes, owned, recipeQueue, builders, recipeCrawls>>
        BY <1>3 DEF recipeVars
    <2>2. TableInv' /\ Existing' = Existing
        BY <1>1, <2>1, RecipeTableKept
    <2>3. Actors'
        BY <1>1, <2>1, <2>2 DEF Actors, KnownRecipes
    <2> QED BY <2>2, <2>3, RecipeParts, PTL
<1> QED BY <1>2, <1>3, BuilderStepKeepsRecipes, RecipeCrawlStepKeepsRecipes DEF RecipesNext

LEMMA RecipesAreKept == RecipesSpec => []RecipeInv
<1>1. RecipesInit => RecipeInv
    BY InitRecipeInv
<1>2. RecipeInv /\ [RecipesNext]_recipeVars => RecipeInv'
    BY StepRecipeInv
<1> QED BY <1>1, <1>2, PTL DEF RecipesSpec

(* Types: in particular the unique index on the active recipe of a source is never violated, by
   builders that activate under the source's advisory lock and crawls that supersede without it
   (activate_company_news_recipe). *)
THEOREM RecipesAreTyped == RecipesSpec => []RecipesTypeOK
<1>1. RecipeInv => RecipesTypeOK
    BY DEF RecipeInv
<1> QED BY <1>1, RecipesAreKept, PTL

(* The recipe in use is one that is trusted, for any number of builders, crawls and recipes
   (complete_company_news_recipe_run, activate_company_news_recipe). *)
THEOREM TrustedRecipes == RecipesSpec => []ActiveIsTrusted
<1>1. RecipeInv => ActiveIsTrusted
    BY DEF RecipeInv
<1> QED BY <1>1, RecipesAreKept, PTL

-----------------------------------------------------------------------------
(* Candidates, decisions and the sources they activate *)

\* As in the types of Candidates, but for the bounds on the numbers of jobs and attempts.
Place == {"idle", "claimed", "begun", "judged", "completed", "activated", "done", "error", "closed"}
Attempted == [at : Place, candidate : Candidate, token : Nat \X Nat, outcome : ValidationOutcome]
QueuedJob == [status : {"none", "pending", "running"}, token : Nat \X Nat]

\* A validator works at a candidate that exists.
ValidatorTypes ==
    /\ queue \in [Candidate -> QueuedJob]
    /\ validators \in [Validator -> Attempted]

DecisionTypes ==
    /\ candidates \in [Candidate -> {"absent", "new", "accepted", "rejected"}]
    /\ feeds \in [CandidateFeed -> {"none", "approved", "disabled"}]
    /\ decisions \in [Candidate -> [automatic : BOOLEAN, vetoed : BOOLEAN]]

CandidateInv == ValidatorTypes /\ DecisionTypes /\ VetoIsFinal /\ ApprovedHasCandidate

\* The transactions that change the status of a candidate.
ReconsiderSome ==
    \E batch \in SUBSET {c \in Candidate : MayReconsider(c)} :
        /\ candidates' = [c \in Candidate |-> IF c \in batch THEN "new" ELSE candidates[c]]
        /\ UNCHANGED <<feeds, decisions>>

DecisionStep ==
    \/ UNCHANGED <<candidates, feeds, decisions>>
    \/ ReconsiderSome
    \/ \E c \in Candidate, byOperator \in BOOLEAN :
           AcceptCandidate(c, byOperator) \/ RejectCandidate(c, byOperator)
    \/ \E c \in Candidate :
           /\ RecordDecision(c, "kept_for_review", FALSE)
           /\ UNCHANGED <<candidates, feeds>>
    \/ \E c \in Candidate :
           /\ candidates[c] = "absent" /\ candidates' = [candidates EXCEPT ![c] = "new"]
           /\ UNCHANGED <<feeds, decisions>>

LEMMA ValidatorCandidate ==
    ASSUME ValidatorTypes, NEW v \in Validator
    PROVE  validators[v].candidate \in Candidate
BY DEF ValidatorTypes, Attempted

LEMMA NextDecides ==
    ASSUME ValidatorTypes, [CandidatesNext]_candidateVars
    PROVE  DecisionStep
<1> USE DEF DecisionStep
<1>1. CASE UNCHANGED candidateVars
    BY <1>1 DEF candidateVars
<1>2. CASE \E includeCovered \in BOOLEAN : EnqueueUnvalidated(includeCovered)
    BY <1>2 DEF EnqueueUnvalidated
<1>3. CASE Reconsider
    <2> DEFINE batch == RankedFirst({c \in Candidate : MayReconsider(c)})
    <2>1. batch \subseteq {c \in Candidate : MayReconsider(c)}
        BY DEF RankedFirst
    <2>2. /\ candidates' = [c \in Candidate |-> IF c \in batch THEN "new" ELSE candidates[c]]
          /\ UNCHANGED <<feeds, decisions>>
        BY <1>3 DEF Reconsider
    <2> HIDE DEF batch
    <2> QED BY <2>1, <2>2 DEF ReconsiderSome
<1>4. ASSUME NEW v \in Validator, ValidatorStep(v) \/ InterruptValidation(v) \/ ValidatorCrash(v)
      PROVE  DecisionStep
    <2> DEFINE c == validators[v].candidate
    <2>1. c \in Candidate
        BY ValidatorCandidate
    <2> HIDE DEF c
    <2>2. CASE BeginValidation(v) \/ JudgeFeed(v) \/ CompleteValidation(v)
        BY <2>2 DEF BeginValidation, JudgeFeed, CompleteValidation
    <2>3. CASE EnqueueFirstCrawl(v) \/ CancelRun(v) \/ SettleValidation(v)
        BY <2>3 DEF EnqueueFirstCrawl, CancelRun, SettleValidation
    <2>4. CASE InterruptValidation(v) \/ ValidatorCrash(v)
        BY <2>4 DEF InterruptValidation, ValidatorCrash
    <2>5. CASE Activate(v)
        <3>1. AcceptCandidate(c, FALSE) \/ UNCHANGED <<candidates, feeds, decisions>>
            BY <2>5 DEF Activate, c
        <3> QED BY <2>1, <3>1
    <2>6. CASE Refuse(v)
        <3>1. RejectCandidate(c, FALSE) \/ UNCHANGED <<candidates, feeds, decisions>>
            BY <2>6 DEF Refuse, c
        <3> QED BY <2>1, <3>1
    <2>7. CASE KeepForReview(v)
        <3>1. \/ RecordDecision(c, "kept_for_review", FALSE) /\ UNCHANGED <<candidates, feeds>>
              \/ UNCHANGED <<candidates, feeds, decisions>>
            BY <2>7 DEF KeepForReview, c
        <3> QED BY <2>1, <3>1
    <2> QED BY <1>4, <2>2, <2>3, <2>4, <2>5, <2>6, <2>7 DEF ValidatorStep
<1>5. ASSUME NEW v \in Validator, NEW c \in Candidate, ClaimValidation(v, c)
      PROVE  DecisionStep
    BY <1>5 DEF ClaimValidation
<1>6. ASSUME NEW c \in Candidate, SweepValidation(c)
      PROVE  DecisionStep
    BY <1>6 DEF SweepValidation
<1>7. ASSUME NEW c \in Candidate, DiscoverCandidate(c)
      PROVE  DecisionStep
    BY <1>7 DEF DiscoverCandidate
<1>8. ASSUME NEW c \in Candidate, OperatorStep(c)
      PROVE  DecisionStep
    BY <1>8 DEF OperatorStep, OperatorValidates, OperatorActivates, OperatorRejects
<1>9. ASSUME NEW f \in CandidateFeed, CrawlLeavesQueue(f)
      PROVE  DecisionStep
    BY <1>9 DEF CrawlLeavesQueue
<1> QED BY <1>1, <1>2, <1>3, <1>4, <1>5, <1>6, <1>7, <1>8, <1>9 DEF CandidatesNext

LEMMA DecisionsAreKept ==
    ASSUME DecisionTypes, VetoIsFinal, ApprovedHasCandidate, DecisionStep
    PROVE  DecisionTypes' /\ VetoIsFinal' /\ ApprovedHasCandidate'
<1>1. CASE UNCHANGED <<candidates, feeds, decisions>>
    BY <1>1 DEF DecisionTypes, VetoIsFinal, ApprovedHasCandidate
<1>2. CASE ReconsiderSome
    <2>1. PICK batch \in SUBSET {c \in Candidate : MayReconsider(c)} :
              /\ candidates' = [c \in Candidate |-> IF c \in batch THEN "new" ELSE candidates[c]]
              /\ UNCHANGED <<feeds, decisions>>
        BY <1>2 DEF ReconsiderSome
    <2>2. \A c \in batch : candidates[c] = "rejected" /\ ~decisions[c].vetoed
        BY DEF MayReconsider
    <2>3. DecisionTypes'
        BY <2>1 DEF DecisionTypes
    <2>4. VetoIsFinal'
        BY <2>1, <2>2 DEF VetoIsFinal
    <2>5. ApprovedHasCandidate'
        BY <2>1, <2>2 DEF ApprovedHasCandidate
    <2> QED BY <2>3, <2>4, <2>5
<1>3. ASSUME NEW c \in Candidate, NEW byOperator \in BOOLEAN, AcceptCandidate(c, byOperator)
      PROVE  DecisionTypes' /\ VetoIsFinal' /\ ApprovedHasCandidate'
    <2>1. /\ candidates[c] = "new" /\ candidates' = [candidates EXCEPT ![c] = "accepted"]
          /\ feeds' = [feeds EXCEPT ![FeedOf[c]] = IF @ = "none" THEN "approved" ELSE @]
          /\ decisions' = [decisions EXCEPT ![c] = [automatic |-> FALSE, vetoed |-> @.vetoed]]
        BY <1>3 DEF AcceptCandidate, RecordDecision, DecisionTypes
    <2>2. FeedOf[c] \in CandidateFeed
        BY DEF CandidateFeed
    <2>3. DecisionTypes'
        BY <2>1, <2>2 DEF DecisionTypes
    <2>4. VetoIsFinal'
        BY <2>1 DEF DecisionTypes, VetoIsFinal
    <2>5. ApprovedHasCandidate'
        BY <2>1, <2>2 DEF DecisionTypes, ApprovedHasCandidate
    <2> QED BY <2>3, <2>4, <2>5
<1>4. ASSUME NEW c \in Candidate, NEW byOperator \in BOOLEAN, RejectCandidate(c, byOperator)
      PROVE  DecisionTypes' /\ VetoIsFinal' /\ ApprovedHasCandidate'
    <2>1. /\ candidates' = [candidates EXCEPT ![c] = "rejected"]
          /\ \/ candidates[c] = "new" /\ feeds' = feeds
             \/ candidates[c] = "accepted" /\ feeds' = [feeds EXCEPT ![FeedOf[c]] = "disabled"]
        BY <1>4 DEF RejectCandidate
    <2>2. FeedOf[c] \in CandidateFeed
        BY DEF CandidateFeed
    <2>3. decisions' \in [Candidate -> [automatic : BOOLEAN, vetoed : BOOLEAN]]
          /\ \A d \in Candidate : d # c => decisions'[d] = decisions[d]
        BY <1>4 DEF RejectCandidate, RecordDecision, DecisionTypes
    <2>4. DecisionTypes'
        BY <2>1, <2>2, <2>3 DEF DecisionTypes
    <2>5. VetoIsFinal'
        BY <2>1, <2>3 DEF DecisionTypes, VetoIsFinal
    <2>6. ApprovedHasCandidate'
        <3> SUFFICES ASSUME NEW f \in CandidateFeed, feeds'[f] = "approved"
                     PROVE  \E d \in Candidate : FeedOf[d] = f /\ candidates'[d] = "accepted"
            BY DEF ApprovedHasCandidate
        <3>1. feeds[f] = "approved"
            BY <2>1, <2>2 DEF DecisionTypes
        <3>2. PICK d \in Candidate : FeedOf[d] = f /\ candidates[d] = "accepted"
            BY <3>1 DEF ApprovedHasCandidate
        <3>3. d # c
            BY <2>1, <2>2, <3>2 DEF DecisionTypes
        <3> QED BY <2>1, <3>2, <3>3 DEF DecisionTypes
    <2> QED BY <2>4, <2>5, <2>6
<1>5. ASSUME NEW c \in Candidate, RecordDecision(c, "kept_for_review", FALSE),
             UNCHANGED <<candidates, feeds>>
      PROVE  DecisionTypes' /\ VetoIsFinal' /\ ApprovedHasCandidate'
    <2>1. /\ decisions' \in [Candidate -> [automatic : BOOLEAN, vetoed : BOOLEAN]]
          /\ \A d \in Candidate : decisions'[d].vetoed = decisions[d].vetoed
        BY <1>5 DEF RecordDecision, DecisionTypes
    <2> QED BY <1>5, <2>1 DEF DecisionTypes, VetoIsFinal, ApprovedHasCandidate
<1>6. ASSUME NEW c \in Candidate, candidates[c] = "absent",
             candidates' = [candidates EXCEPT ![c] = "new"], UNCHANGED <<feeds, decisions>>
      PROVE  DecisionTypes' /\ VetoIsFinal' /\ ApprovedHasCandidate'
    <2>1. DecisionTypes'
        BY <1>6 DEF DecisionTypes
    <2>2. VetoIsFinal'
        BY <1>6 DEF DecisionTypes, VetoIsFinal
    <2>3. ApprovedHasCandidate'
        BY <1>6 DEF DecisionTypes, ApprovedHasCandidate
    <2> QED BY <2>1, <2>2, <2>3
<1> QED BY <1>1, <1>2, <1>3, <1>4, <1>5, <1>6 DEF DecisionStep

LEMMA CandidateShapes ==
    /\ NoValidationToken \in Nat \X Nat
    /\ IdleValidator \in Attempted
    /\ \A outcome \in ValidationOutcome, c \in Candidate, token \in Nat \X Nat :
           [at |-> "claimed", candidate |-> c, token |-> token, outcome |-> outcome] \in Attempted
<1>1. 1 \in Candidate
    BY CandidatesAssumption DEF Candidate
<1> QED BY <1>1 DEF NoValidationToken, IdleValidator, Attempted, ValidationOutcome, Place

LEMMA ValidatorAtTypes ==
    ASSUME ValidatorTypes, NEW v \in Validator, NEW where \in Place, ValidatorAt(v, where)
    PROVE  validators' \in [Validator -> Attempted]
<1> DEFINE outcome == IF where = "completed" THEN validators[v].outcome ELSE "valid"
           x == [validators[v] EXCEPT !.at = where, !.outcome = outcome]
<1>1. outcome \in ValidationOutcome
    BY DEF ValidatorTypes, Attempted, ValidationOutcome
<1>2. validators' = [validators EXCEPT ![v] = x]
    BY DEF ValidatorTypes, ValidatorAt
<1> HIDE DEF outcome
<1>3. x \in Attempted
    BY <1>1 DEF ValidatorTypes, Attempted
<1> HIDE DEF x
<1> QED BY <1>2, <1>3 DEF ValidatorTypes

LEMMA FeedOutcomeIsOne == \A seen : FeedOutcome(seen) \in ValidationOutcome
BY DEF FeedOutcome, ValidationOutcome

LEMMA EnqueueTypes ==
    ASSUME ValidatorTypes, NEW C, EnqueueValidation(C)
    PROVE  queue' \in [Candidate -> QueuedJob]
<1>1. ASSUME NEW c \in Candidate
      PROVE  NewValidation(c) \in QueuedJob
    BY DEF ValidatorTypes, NewValidation, QueuedJob
<1> QED BY <1>1 DEF ValidatorTypes, EnqueueValidation

LEMMA ValidatorTypesKept ==
    ASSUME ValidatorTypes, [CandidatesNext]_candidateVars
    PROVE  ValidatorTypes'
<1>1. CASE UNCHANGED candidateVars
    BY <1>1 DEF candidateVars, ValidatorTypes, Place, QueuedJob
<1>2. CASE \E includeCovered \in BOOLEAN : EnqueueUnvalidated(includeCovered)
    BY <1>2, EnqueueTypes DEF EnqueueUnvalidated, ValidatorTypes, Place, QueuedJob
<1>3. CASE Reconsider
    BY <1>3, EnqueueTypes DEF Reconsider, ValidatorTypes, Place, QueuedJob
<1>4. ASSUME NEW v \in Validator, ValidatorStep(v) \/ InterruptValidation(v) \/ ValidatorCrash(v)
      PROVE  ValidatorTypes'
    <2>1. CASE BeginValidation(v)
        BY <2>1, ValidatorAtTypes DEF BeginValidation, ValidatorTypes, Place, QueuedJob
    <2>2. CASE JudgeFeed(v)
        <3>1. PICK outcome \in ValidationOutcome :
                  validators' = [validators EXCEPT ![v].at = "judged", ![v].outcome = outcome]
            <4>1. \A claimed \in BOOLEAN : FeedOutcomes[claimed] \subseteq ValidationOutcome
                BY FeedOutcomeIsOne DEF FeedOutcomes
            <4>2. SitemapOutcomes \subseteq ValidationOutcome
                  /\ {"invalid", "failed"} \subseteq ValidationOutcome
                BY DEF SitemapOutcomes, ValidationOutcome
            <4>3. ClaimedElsewhere(FeedOf[validators[v].candidate]) \in BOOLEAN
                BY DEF ClaimedElsewhere
            <4> QED BY <2>2, <4>1, <4>2, <4>3 DEF JudgeFeed
        <3>2. queue' = queue
            BY <2>2 DEF JudgeFeed
        <3> QED BY ZenonT(60), <3>1, <3>2 DEF ValidatorTypes, Attempted, Place
    <2>3. CASE CompleteValidation(v)
        BY <2>3, ValidatorAtTypes DEF CompleteValidation, ValidatorTypes, Place, QueuedJob
    <2>4. CASE Activate(v)
        BY <2>4, ValidatorAtTypes DEF Activate, ValidatorTypes, Place, QueuedJob
    <2>5. CASE Refuse(v)
        BY <2>5, ValidatorAtTypes DEF Refuse, ValidatorTypes, Place, QueuedJob
    <2>6. CASE KeepForReview(v)
        BY <2>6, ValidatorAtTypes DEF KeepForReview, ValidatorTypes, Place, QueuedJob
    <2>7. CASE EnqueueFirstCrawl(v) \/ CancelRun(v) \/ InterruptValidation(v)
        BY <2>7, ValidatorAtTypes DEF EnqueueFirstCrawl, CancelRun, InterruptValidation, ValidatorTypes, Place, QueuedJob
    <2>8. CASE SettleValidation(v)
        BY <2>8, CandidateShapes, ValidatorCandidate DEF SettleValidation, ValidatorTypes, Place, QueuedJob
    <2>9. CASE ValidatorCrash(v)
        BY <2>9, CandidateShapes DEF ValidatorCrash, ValidatorTypes, Place, QueuedJob
    <2> QED BY <1>4, <2>1, <2>2, <2>3, <2>4, <2>5, <2>6, <2>7, <2>8, <2>9 DEF ValidatorStep
<1>5. ASSUME NEW v \in Validator, NEW c \in Candidate, ClaimValidation(v, c)
      PROVE  ValidatorTypes'
    <2> DEFINE token == <<queue[c].token[1], queue[c].token[2] + 1>>
    <2>1. token \in Nat \X Nat
        BY DEF ValidatorTypes, QueuedJob
    <2>2. /\ queue' = [queue EXCEPT ![c] = [status |-> "running", token |-> token]]
          /\ validators' = [validators EXCEPT
                 ![v] = [at |-> "claimed", candidate |-> c, token |-> token, outcome |-> "valid"]]
        BY <1>5 DEF ClaimValidation
    <2> HIDE DEF token
    <2>3. "valid" \in ValidationOutcome
        BY DEF ValidationOutcome
    <2> QED BY <2>1, <2>2, <2>3, CandidateShapes DEF ValidatorTypes, QueuedJob
<1>6. ASSUME NEW c \in Candidate, SweepValidation(c) \/ DiscoverCandidate(c)
      PROVE  ValidatorTypes'
    BY <1>6 DEF SweepValidation, DiscoverCandidate, ValidatorTypes, Place, QueuedJob
<1>7. ASSUME NEW c \in Candidate, OperatorStep(c)
      PROVE  ValidatorTypes'
    BY <1>7, EnqueueTypes DEF OperatorStep, OperatorValidates, OperatorActivates, OperatorRejects,
                              ValidatorTypes, Place, QueuedJob
<1>8. ASSUME NEW f \in CandidateFeed, CrawlLeavesQueue(f)
      PROVE  ValidatorTypes'
    BY <1>8 DEF CrawlLeavesQueue, ValidatorTypes, Place, QueuedJob
<1> QED BY <1>1, <1>2, <1>3, <1>4, <1>5, <1>6, <1>7, <1>8 DEF CandidatesNext

LEMMA InitCandidateInv ==
    ASSUME CandidatesInit
    PROVE  CandidateInv
<1>1. NoValidation \in QueuedJob
    BY CandidateShapes DEF NoValidation, QueuedJob
<1>2. ValidatorTypes
    BY <1>1, CandidateShapes DEF CandidatesInit, ValidatorTypes, Place, QueuedJob
<1> QED BY <1>2 DEF CandidatesInit, CandidateInv, DecisionTypes, VetoIsFinal, ApprovedHasCandidate

\* The jobs that there are have a number, and no job is claimed more often than it may be.
JobTokens ==
    \A c \in Candidate : /\ queue[c].token[2] <= MaxTries[c]
                         /\ queue[c].status # "none" => queue[c].token[1] > 0

AnyToken == ValidationToken \cup {NoValidationToken}
AttemptTokens == \A v \in Validator : validators[v].token \in AnyToken

ValidationTables ==
    /\ validations \in [Candidate -> ValidationRow]
    /\ crawlQueue \subseteq CandidateFeed
    /\ leaseFaults \in 0..MaxLeaseFaults

LEMMA TriesAreNat == \A c \in Candidate : MaxTries[c] \in Nat
BY CandidatesAssumption DEF Candidate

LEMMA EnqueueNumbers ==
    ASSUME ValidatorTypes, JobTokens, NEW C, EnqueueValidation(C)
    PROVE  JobTokens'
<1> SUFFICES ASSUME NEW c \in Candidate
             PROVE  /\ queue'[c].token[2] <= MaxTries[c]
                    /\ queue'[c].status # "none" => queue'[c].token[1] > 0
    BY DEF JobTokens
<1>1. queue[c].token[1] \in Nat /\ queue[c].token[2] \in Nat /\ MaxTries[c] \in Nat
    BY TriesAreNat DEF ValidatorTypes, QueuedJob
<1>2. CASE c \in C
    <2>1. queue'[c].token = <<queue[c].token[1] + 1, 0>>
        BY <1>2 DEF EnqueueValidation, NewValidation
    <2> QED BY <1>1, <2>1
<1>3. CASE c \notin C
    BY <1>3 DEF EnqueueValidation, JobTokens
<1> QED BY <1>2, <1>3

LEMMA JobTokensKept ==
    ASSUME ValidatorTypes, JobTokens, [CandidatesNext]_candidateVars
    PROVE  JobTokens'
<1>1. CASE UNCHANGED queue
    BY <1>1 DEF JobTokens
<1>2. ASSUME NEW C, EnqueueValidation(C)
      PROVE  JobTokens'
    BY <1>2, EnqueueNumbers
<1>3. ASSUME NEW v \in Validator, NEW c \in Candidate, ClaimValidation(v, c)
      PROVE  JobTokens'
    <2>1. /\ queue[c].token[2] < MaxTries[c] /\ queue[c].status # "none"
          /\ queue' = [queue EXCEPT ![c] = [status |-> "running",
                           token |-> <<queue[c].token[1], queue[c].token[2] + 1>>]]
        BY <1>3 DEF ClaimValidation, LeaseRunsOut
    <2>2. queue[c].token[1] \in Nat /\ queue[c].token[2] \in Nat /\ MaxTries[c] \in Nat
        BY TriesAreNat DEF ValidatorTypes, QueuedJob
    <2>3. /\ queue'[c].token[1] = queue[c].token[1]
          /\ queue'[c].token[2] = queue[c].token[2] + 1
          /\ \A d \in Candidate : d # c => queue'[d] = queue[d]
        BY <2>1 DEF ValidatorTypes
    <2>4. queue'[c].token[2] <= MaxTries[c]
        BY <2>1, <2>2, <2>3
    <2> QED BY <2>1, <2>3, <2>4 DEF JobTokens
<1>4. ASSUME NEW c \in Candidate, NEW next \in {"none", "pending"}, HasJob(c),
             queue' = [queue EXCEPT ![c].status = next]
      PROVE  JobTokens'
    <2>1. \A d \in Candidate :
              /\ queue'[d].token = queue[d].token
              /\ queue'[d].status # "none" => queue[d].status # "none"
        BY <1>4 DEF ValidatorTypes, QueuedJob, HasJob
    <2> QED BY <2>1 DEF JobTokens
<1>5. ASSUME NEW c \in Candidate, SweepValidation(c)
      PROVE  JobTokens'
    BY <1>4, <1>5 DEF SweepValidation, LeaseRunsOut, HasJob
<1>6. ASSUME NEW v \in Validator, SettleValidation(v)
      PROVE  JobTokens'
    <2> DEFINE c == validators[v].candidate
    <2>1. c \in Candidate
        BY ValidatorCandidate
    <2>2. \/ UNCHANGED queue
          \/ /\ HasJob(c)
             /\ \E next \in {"none", "pending"} : queue' = [queue EXCEPT ![c].status = next]
        BY <1>6 DEF SettleValidation, HoldsValidation, HasJob
    <2> HIDE DEF c
    <2> QED BY <1>1, <1>4, <2>1, <2>2
<1>7. ASSUME NEW v \in Validator,
             ValidatorStep(v) \/ InterruptValidation(v) \/ ValidatorCrash(v)
      PROVE  UNCHANGED queue \/ SettleValidation(v)
    BY <1>7 DEF ValidatorStep, BeginValidation, JudgeFeed, CompleteValidation, Activate, Refuse,
                KeepForReview, EnqueueFirstCrawl, CancelRun, InterruptValidation, ValidatorCrash
<1>8. ASSUME NEW c \in Candidate, DiscoverCandidate(c) \/ OperatorStep(c)
      PROVE  UNCHANGED queue \/ EnqueueValidation({c})
    BY <1>8 DEF DiscoverCandidate, OperatorStep, OperatorValidates, OperatorActivates, OperatorRejects
<1>9. ASSUME NEW f \in CandidateFeed, CrawlLeavesQueue(f)
      PROVE  UNCHANGED queue
    BY <1>9 DEF CrawlLeavesQueue
<1>10. CASE Reconsider \/ \E includeCovered \in BOOLEAN : EnqueueUnvalidated(includeCovered)
    BY <1>2, <1>10 DEF Reconsider, EnqueueUnvalidated
<1> QED BY <1>1, <1>2, <1>3, <1>5, <1>6, <1>7, <1>8, <1>9, <1>10 DEF CandidatesNext, candidateVars

LEMMA AttemptTokensKept ==
    ASSUME ValidatorTypes, JobTokens, AttemptTokens, [CandidatesNext]_candidateVars
    PROVE  AttemptTokens'
<1>1. CASE UNCHANGED validators
    BY <1>1 DEF AttemptTokens
<1>2. ASSUME NEW v \in Validator, NEW at, NEW outcome,
             validators' = [validators EXCEPT ![v].at = at, ![v].outcome = outcome]
      PROVE  AttemptTokens'
    <2>1. \A w \in Validator : validators'[w].token = validators[w].token
        BY <1>2 DEF ValidatorTypes, Attempted
    <2> QED BY <2>1 DEF AttemptTokens
<1>3. ASSUME NEW v \in Validator, NEW at, ValidatorAt(v, at)
      PROVE  AttemptTokens'
    <2> DEFINE outcome == IF at = "completed" THEN validators[v].outcome ELSE "valid"
    <2>1. validators' = [validators EXCEPT ![v].at = at, ![v].outcome = outcome]
        BY <1>3 DEF ValidatorAt, ValidatorTypes, Attempted
    <2> HIDE DEF outcome
    <2> QED BY <1>2, <2>1
<1>4. ASSUME NEW v \in Validator, validators' = [validators EXCEPT ![v] = IdleValidator]
      PROVE  AttemptTokens'
    BY <1>4 DEF AttemptTokens, AnyToken, IdleValidator, ValidatorTypes
<1>5. ASSUME NEW v \in Validator, NEW c \in Candidate, ClaimValidation(v, c)
      PROVE  AttemptTokens'
    <2> DEFINE token == <<queue[c].token[1], queue[c].token[2] + 1>>
    <2>1. queue[c].token[1] \in Nat \ {0}
        BY <1>5 DEF ClaimValidation, LeaseRunsOut, JobTokens, ValidatorTypes, QueuedJob
    <2>2. queue[c].token[2] + 1 \in 1..MaxTries[c]
        BY <1>5, TriesAreNat DEF ClaimValidation, ValidatorTypes, QueuedJob
    <2>3. token \in AnyToken
        BY <2>1, <2>2 DEF AnyToken, ValidationToken
    <2>4. validators' = [validators EXCEPT
              ![v] = [at |-> "claimed", candidate |-> c, token |-> token, outcome |-> "valid"]]
        BY <1>5 DEF ClaimValidation
    <2> HIDE DEF token
    <2>5. \A w \in Validator : validators'[w].token = IF w = v THEN token ELSE validators[w].token
        BY <2>4 DEF ValidatorTypes
    <2> QED BY <2>3, <2>5 DEF AttemptTokens
<1>6. ASSUME NEW v \in Validator,
             ValidatorStep(v) \/ InterruptValidation(v) \/ ValidatorCrash(v)
      PROVE  \/ \E at : ValidatorAt(v, at)
             \/ \E outcome : validators' = [validators EXCEPT ![v].at = "judged", ![v].outcome = outcome]
             \/ validators' = [validators EXCEPT ![v] = IdleValidator]
    BY <1>6 DEF ValidatorStep, BeginValidation, JudgeFeed, CompleteValidation, Activate, Refuse,
                KeepForReview, EnqueueFirstCrawl, CancelRun, SettleValidation, InterruptValidation,
                ValidatorCrash
<1>7. ASSUME NEW c \in Candidate, SweepValidation(c) \/ DiscoverCandidate(c) \/ OperatorStep(c)
      PROVE  UNCHANGED validators
    BY <1>7 DEF SweepValidation, DiscoverCandidate, OperatorStep, OperatorValidates,
                OperatorActivates, OperatorRejects
<1>8. ASSUME NEW f \in CandidateFeed, CrawlLeavesQueue(f)
      PROVE  UNCHANGED validators
    BY <1>8 DEF CrawlLeavesQueue
<1>9. CASE Reconsider \/ \E includeCovered \in BOOLEAN : EnqueueUnvalidated(includeCovered)
    BY <1>1, <1>9 DEF Reconsider, EnqueueUnvalidated
<1>10. ASSUME NEW v \in Validator,
              ValidatorStep(v) \/ InterruptValidation(v) \/ ValidatorCrash(v)
       PROVE  AttemptTokens'
    BY <1>2, <1>3, <1>4, <1>6, <1>10
<1> QED BY <1>1, <1>5, <1>7, <1>8, <1>9, <1>10 DEF CandidatesNext, candidateVars

LEMMA FaultsCount ==
    ASSUME leaseFaults \in 0..MaxLeaseFaults,
           UNCHANGED leaseFaults \/ (leaseFaults < MaxLeaseFaults /\ leaseFaults' = leaseFaults + 1)
    PROVE  leaseFaults' \in 0..MaxLeaseFaults
BY CandidatesAssumption

LEMMA ValidationTablesKept ==
    ASSUME ValidatorTypes, AttemptTokens, ValidationTables, [CandidatesNext]_candidateVars
    PROVE  ValidationTables'
<1>1. \A outcome : ValidationOver(outcome) \in ValidationRow
    BY DEF ValidationOver, ValidationRow
<1>2. ASSUME NEW v \in Validator,
             ValidatorStep(v) \/ InterruptValidation(v) \/ ValidatorCrash(v)
      PROVE  ValidationTables'
    <2> DEFINE c == validators[v].candidate
    <2>1. c \in Candidate /\ FeedOf[c] \in CandidateFeed
        BY ValidatorCandidate DEF CandidateFeed
    <2>2. validators[v].token \in AnyToken
        BY DEF AttemptTokens
    <2>3. /\ \/ UNCHANGED validations
             \/ validations' = [validations EXCEPT ![c] = [status |-> "running", token |-> validators[v].token]]
             \/ \E outcome : validations' = [validations EXCEPT ![c] = ValidationOver(outcome)]
          /\ UNCHANGED leaseFaults \/ (leaseFaults < MaxLeaseFaults /\ leaseFaults' = leaseFaults + 1)
          /\ crawlQueue' \subseteq crawlQueue \cup {FeedOf[c]}
        <3>1. CASE BeginValidation(v) \/ JudgeFeed(v) \/ CompleteValidation(v)
            BY <3>1 DEF BeginValidation, JudgeFeed, CompleteValidation
        <3>2. CASE Activate(v) \/ Refuse(v) \/ KeepForReview(v)
            BY <3>2 DEF Activate, Refuse, KeepForReview, RejectCandidate
        <3>3. CASE EnqueueFirstCrawl(v) \/ CancelRun(v) \/ SettleValidation(v)
            BY <3>3 DEF EnqueueFirstCrawl, CancelRun, SettleValidation
        <3>4. CASE InterruptValidation(v) \/ ValidatorCrash(v)
            BY <3>4 DEF InterruptValidation, ValidatorCrash
        <3> QED BY <1>2, <3>1, <3>2, <3>3, <3>4 DEF ValidatorStep
    <2> HIDE DEF c
    <2>4. [status |-> "running", token |-> validators[v].token] \in ValidationRow
        BY <2>2 DEF ValidationRow, AnyToken
    <2>5. validations' \in [Candidate -> ValidationRow]
        BY <1>1, <2>1, <2>3, <2>4 DEF ValidationTables
    <2>6. crawlQueue' \subseteq CandidateFeed
        BY <2>1, <2>3 DEF ValidationTables
    <2> QED BY <2>3, <2>5, <2>6, FaultsCount DEF ValidationTables
<1>3. ASSUME NEW v \in Validator, NEW c \in Candidate, ClaimValidation(v, c)
      PROVE  ValidationTables'
    BY <1>3, FaultsCount DEF ClaimValidation, LeaseRunsOut, ValidationTables
<1>4. ASSUME NEW c \in Candidate, SweepValidation(c)
      PROVE  ValidationTables'
    BY <1>4, FaultsCount DEF SweepValidation, LeaseRunsOut, ValidationTables
<1>5. ASSUME NEW c \in Candidate, DiscoverCandidate(c) \/ OperatorStep(c)
      PROVE  ValidationTables'
    <2>1. UNCHANGED <<validations, leaseFaults>> /\ crawlQueue' \subseteq crawlQueue
        BY <1>5 DEF DiscoverCandidate, OperatorStep, OperatorValidates, OperatorActivates,
                    OperatorRejects, RejectCandidate
    <2> QED BY <2>1 DEF ValidationTables
<1>6. ASSUME NEW f \in CandidateFeed, CrawlLeavesQueue(f)
      PROVE  ValidationTables'
    BY <1>6 DEF CrawlLeavesQueue, ValidationTables
<1>7. CASE Reconsider \/ \E includeCovered \in BOOLEAN : EnqueueUnvalidated(includeCovered)
    BY <1>7 DEF Reconsider, EnqueueUnvalidated, ValidationTables
<1>8. CASE UNCHANGED candidateVars
    BY <1>8 DEF candidateVars, ValidationTables
<1> QED BY <1>2, <1>3, <1>4, <1>5, <1>6, <1>7, <1>8 DEF CandidatesNext

ValidationInv == CandidateInv /\ JobTokens /\ AttemptTokens /\ ValidationTables

LEMMA InitValidationInv ==
    ASSUME CandidatesInit
    PROVE  ValidationInv
<1>1. JobTokens
    BY TriesAreNat DEF CandidatesInit, JobTokens, NoValidation, NoValidationToken
<1>2. AttemptTokens
    BY DEF CandidatesInit, AttemptTokens, AnyToken, IdleValidator
<1>3. ValidationTables
    <2>1. NeverValidated \in ValidationRow
        BY DEF NeverValidated, ValidationRow
    <2> QED BY <2>1, CandidatesAssumption DEF CandidatesInit, ValidationTables
<1> QED BY <1>1, <1>2, <1>3, InitCandidateInv DEF ValidationInv

LEMMA StepValidationInv ==
    ASSUME ValidationInv, [CandidatesNext]_candidateVars
    PROVE  ValidationInv'
<1>1. CandidateInv'
    BY NextDecides, DecisionsAreKept, ValidatorTypesKept DEF CandidateInv, ValidationInv
<1> QED BY <1>1, JobTokensKept, AttemptTokensKept, ValidationTablesKept DEF CandidateInv, ValidationInv

LEMMA ValidationIsTyped ==
    ASSUME ValidationInv
    PROVE  CandidatesTypeOK
<1>1. queue \in [Candidate -> ValidationJob]
    BY DEF ValidationInv, CandidateInv, ValidatorTypes, QueuedJob, ValidationJob
<1>2. \A v \in Validator : validators[v] \in ValidationAttempt
    BY DEF ValidationInv, CandidateInv, ValidatorTypes, Attempted, Place, AttemptTokens, AnyToken,
           ValidationAttempt
<1>3. validators \in [Validator -> ValidationAttempt]
    BY <1>2 DEF ValidationInv, CandidateInv, ValidatorTypes
<1> QED BY <1>1, <1>3 DEF ValidationInv, CandidateInv, DecisionTypes, Decision, ValidationTables,
                          CandidatesTypeOK

(* Candidates, their jobs and their validations are typed: no job is claimed more often than it
   may be, and every attempt's token is one of a claim (claim_next_job, validation.rs). *)
THEOREM CandidatesAreTyped == CandidatesSpec => []CandidatesTypeOK
<1>1. CandidatesInit => ValidationInv
    BY InitValidationInv
<1>2. ValidationInv /\ [CandidatesNext]_candidateVars => ValidationInv'
    BY StepValidationInv
<1>3. ValidationInv => CandidatesTypeOK
    BY ValidationIsTyped
<1> QED BY <1>1, <1>2, <1>3, PTL DEF CandidatesSpec

LEMMA CandidatesAreKept == CandidatesSpec => []CandidateInv
<1>1. CandidatesInit => CandidateInv
    BY InitCandidateInv
<1>2. CandidateInv /\ [CandidatesNext]_candidateVars => CandidateInv'
    BY NextDecides, DecisionsAreKept, ValidatorTypesKept DEF CandidateInv
<1> QED BY <1>1, <1>2, PTL DEF CandidatesSpec

(* An operator's rejection is final, for any number of candidates, validators and jobs
   (accept_source_candidate_with_decision, reconsider_automatically_rejected_scope_candidates). *)
THEOREM Vetoes == CandidatesSpec => []VetoIsFinal
<1>1. CandidateInv => VetoIsFinal
    BY DEF CandidateInv
<1> QED BY <1>1, CandidatesAreKept, PTL

(* A source is approved only as long as one of its candidates is accepted, however many
   candidates share it (reject_source_candidate_with_decision disables it). *)
THEOREM ApprovedSources == CandidatesSpec => []ApprovedHasCandidate
<1>1. CandidateInv => ApprovedHasCandidate
    BY DEF CandidateInv
<1> QED BY <1>1, CandidatesAreKept, PTL

-----------------------------------------------------------------------------
(* Extraction runs *)

ExtractionTables ==
    /\ extractions \in [ExtractionAttempt -> Extraction]
    /\ extractors \in [ExtractionAttempt -> Extractor]
    /\ requested \in [ExtractionAttempt -> SUBSET ExtractionAttempt]
    /\ seeded \subseteq ExtractionAttempt

OneRunningExtraction ==
    \A q, r \in ExtractionAttempt :
        /\ JobOf(q) = JobOf(r) /\ q # r /\ extractions[q].status = "running"
        => extractions[r].status # "running"

\* A handler that has begun works on a run of its job.
ExtractorHasRun ==
    \A a \in ExtractionAttempt : extractors[a].at # "none" =>
        /\ attempts[a].phase = "handling"
        /\ extractors[a].run \in ExtractionAttempt /\ JobOf(extractors[a].run) = JobOf(a)

\* An attempt that has not begun a run has none of its own.
Unopened(a) == attempts[a].phase = "none" \/ (attempts[a].phase = "handling" /\ extractors[a].at = "none")
UnopenedHasNoRun == \A a \in ExtractionAttempt : Unopened(a) => extractions[a].status = "none"

\* The attempt has completed a run of its job by itself.
HasCompleted(a) ==
    \E r \in ExtractionAttempt :
        JobOf(r) = JobOf(a) /\ extractions[r].status = "completed" /\ extractions[r].by = a

SucceededHasCompleted ==
    \A a \in ExtractionAttempt : attempts[a].phase = "succeeded" => HasCompleted(a)

ExtractionInv ==
    /\ AttemptTypes /\ UnclaimedAttempts
    /\ ExtractionTables /\ OneRunningExtraction
    /\ ExtractorHasRun /\ UnopenedHasNoRun
    /\ SucceededHasCompleted /\ CompletedExtractionHasRun

LEMMA ExtractionAttemptShape ==
    ASSUME NEW a \in ExtractionAttempt
    PROVE  /\ a \in Attempt /\ JobOf(a) \in ExtractionJob /\ JobOf(a) \in Job
           /\ a = <<JobOf(a), a[2]>> /\ a[2] \in Nat
BY AttemptShape DEF ExtractionAttempt, ExtractionJob

\* A completed run is not touched any more.
CompletedRunsStay ==
    \A r \in ExtractionAttempt : extractions[r].status = "completed" => extractions'[r] = extractions[r]

\* What is left to show of a step: of its attempts, and of its job.
LEMMA ExtractionStep ==
    ASSUME ExtractionInv, AttemptTypes', UnclaimedAttempts', ExtractionTables',
           OneRunningExtraction', ExtractorHasRun', UnopenedHasNoRun', CompletedRunsStay,
           \A a \in ExtractionAttempt : attempts'[a].phase = "succeeded" =>
               attempts[a].phase = "succeeded" \/ HasCompleted(a)',
           CompletedKept \/ CompletedExtractionHasRun'
    PROVE  ExtractionInv'
<1>1. \A a \in ExtractionAttempt : HasCompleted(a) => HasCompleted(a)'
    BY DEF HasCompleted, CompletedRunsStay
<1>2. SucceededHasCompleted'
    BY <1>1 DEF ExtractionInv, SucceededHasCompleted
<1>3. CompletedExtractionHasRun'
    BY DEF ExtractionInv, CompletedExtractionHasRun, CompletedKept, CompletedRunsStay, ExtractionJob
<1> QED BY <1>2, <1>3 DEF ExtractionInv

\* The handler goes on, with the run it has.
LEMMA HandlerGoesOn ==
    ASSUME ExtractionInv, NEW a \in ExtractionAttempt, NEW x \in Extractor,
           extractors[a].at # "none", x.at # "none", x.run = extractors[a].run,
           extractors' = [extractors EXCEPT ![a] = x],
           UNCHANGED <<attemptVars, extractions>>,
           requested' \in [ExtractionAttempt -> SUBSET ExtractionAttempt],
           seeded' \subseteq ExtractionAttempt
    PROVE  ExtractionInv'
<1> USE DEF attemptVars
<1>1. AttemptTypes' /\ UnclaimedAttempts' /\ CompletedKept
    BY DEF ExtractionInv, AttemptTypes, UnclaimedAttempts, CompletedKept
<1>2. ExtractionTables' /\ OneRunningExtraction' /\ CompletedRunsStay
    BY DEF ExtractionInv, ExtractionTables, OneRunningExtraction, CompletedRunsStay
<1>3. ExtractorHasRun' /\ UnopenedHasNoRun'
    BY DEF ExtractionInv, ExtractionTables, ExtractorHasRun, UnopenedHasNoRun, Unopened
<1> QED BY <1>1, <1>2, <1>3, ExtractionStep

\* An attempt that leaves its handler, or moves on after it.
LEMMA AttemptGoesOn ==
    ASSUME ExtractionInv, NEW a \in ExtractionAttempt, RunStep(a),
           \/ extractors' = [extractors EXCEPT ![a] = NoExtractor]
           \/ extractors' = extractors /\ attempts[a].phase # "handling",
           extractions' \in [ExtractionAttempt -> Extraction],
           \A r \in ExtractionAttempt : \/ extractions'[r] = extractions[r]
                                        \/ /\ extractions[r].status = "running"
                                           /\ extractions'[r].status # "running",
           attempts'[a].phase = "succeeded" => HasCompleted(a)',
           UNCHANGED <<requested, seeded>>
    PROVE  ExtractionInv'
<1>1. a \in Attempt
    BY ExtractionAttemptShape
<1>2. /\ AttemptTypes' /\ UnclaimedAttempts' /\ \A b \in Attempt : PhaseChange(b)
      /\ Moves(a) /\ attempts[a].phase # "none"
    BY <1>1, RunLayer, RunStepMoves DEF ExtractionInv
<1>3. /\ \A b \in Attempt \ {a} : attempts'[b] = attempts[b]
      /\ attempts'[a].phase \notin {"none", "handling"}
    BY <1>1, <1>2 DEF Moves, ExtractionInv, AttemptTypes
<1>4. NoExtractor \in Extractor /\ NoExtractor.at = "none"
    BY DEF NoExtractor, Extractor
<1>5. ExtractionTables'
    BY <1>4 DEF ExtractionInv, ExtractionTables
<1>6. OneRunningExtraction' /\ CompletedRunsStay
    BY DEF ExtractionInv, OneRunningExtraction, CompletedRunsStay
<1>7. \A b \in ExtractionAttempt : b # a => extractors'[b] = extractors[b] /\ b \in Attempt
    BY ExtractionAttemptShape DEF ExtractionInv, ExtractionTables
<1>8. extractors'[a].at = "none"
    BY <1>4 DEF ExtractionInv, ExtractionTables, ExtractorHasRun
<1>9. ExtractorHasRun'
    BY <1>3, <1>7, <1>8 DEF ExtractionInv, ExtractorHasRun
<1>10. UnopenedHasNoRun'
    BY <1>3, <1>7 DEF ExtractionInv, UnopenedHasNoRun, Unopened
<1>11. \A b \in ExtractionAttempt : attempts'[b].phase = "succeeded" =>
           attempts[b].phase = "succeeded" \/ HasCompleted(b)'
    BY <1>3, ExtractionAttemptShape
<1>12. CompletedKept \/ CompletedExtractionHasRun'
    <2>1. CASE CompletedKept
        BY <2>1
    <2>2. CASE /\ attempts[a].phase = "succeeded" /\ Current(a)
               /\ status' = [status EXCEPT ![JobOf(a)] = "completed"] /\ UNCHANGED started
        <3>1. HasCompleted(a)'
            BY <2>2, <1>6 DEF ExtractionInv, SucceededHasCompleted, HasCompleted, CompletedRunsStay
        <3>2. a = <<JobOf(a), started'[JobOf(a)]>>
            BY <2>2, ExtractionAttemptShape DEF Current
        <3>3. ASSUME NEW j \in ExtractionJob, status'[j] = "completed", j # JobOf(a)
              PROVE  status[j] = "completed"
            BY <2>2, <3>3 DEF ExtractionJob, ExtractionInv, AttemptTypes
        <3> QED BY ZenonT(60), <1>6, <2>2, <3>1, <3>2, <3>3
                DEF ExtractionInv, CompletedExtractionHasRun, HasCompleted, CompletedRunsStay
    <2> QED BY <1>1, <2>1, <2>2, RunStepCompletes DEF ExtractionInv
<1> QED BY <1>2, <1>5, <1>6, <1>9, <1>10, <1>11, <1>12, ExtractionStep

LEMMA ExtractorShape ==
    ASSUME ExtractionInv, NEW a \in ExtractionAttempt
    PROVE  extractors[a] \in Extractor /\ extractors = [b \in ExtractionAttempt |-> extractors[b]]
BY DEF ExtractionInv, ExtractionTables

\* Whatever a web adapter replies, the handler goes on or refuses in one of two ways.
LEMMA OutcomeIsOne ==
    ASSUME NEW client, NEW refusal \in Outcomes(client)
    PROVE  refusal \in {"none", "permanent", "transient"}
BY DEF Outcomes, RefusalOf

GoesOn(a) ==
    \E x \in Extractor : /\ x.at # "none" /\ x.run = extractors[a].run
                         /\ extractors' = [extractors EXCEPT ![a] = x]

\* The steps of a handler that has begun: all but its first and its last.
LEMMA WorkKeepsInv ==
    ASSUME ExtractionInv, NEW a \in ExtractionAttempt,
           AskAdapter(a) \/ ReadArticles(a) \/ ImportOrigin(a) \/ BuildRecipes(a) \/ SeedDiscovery(a)
    PROVE  ExtractionInv'
<1>1. /\ extractors[a] \in Extractor /\ extractors[a].at # "none"
      /\ UNCHANGED <<attemptVars, extractions>>
    BY ExtractorShape DEF AskAdapter, ReadArticles, ImportOrigin, BuildRecipes, SeedDiscovery, Handles
<1>2. extractors[a].run \in ExtractionAttempt
    BY <1>1 DEF ExtractionInv, ExtractorHasRun
<1>3. /\ requested' \in [ExtractionAttempt -> SUBSET ExtractionAttempt]
      /\ seeded' \subseteq ExtractionAttempt
    BY <1>2 DEF AskAdapter, ReadArticles, ImportOrigin, BuildRecipes, SeedDiscovery, RequestId,
                ExtractionInv, ExtractionTables
<1>4. GoesOn(a)
    <2>1. ASSUME NEW refusal \in {"permanent", "transient"}, RefuseWith(a, refusal)
          PROVE  GoesOn(a)
        <3> DEFINE x == [extractors[a] EXCEPT !.at = "refused", !.refusal = refusal, !.left = {}]
        <3>1. x \in Extractor /\ x.at # "none" /\ x.run = extractors[a].run
            BY <1>1 DEF Extractor
        <3>2. extractors' = [extractors EXCEPT ![a] = x]
            BY <2>1, ExtractorShape DEF RefuseWith
        <3> HIDE DEF x
        <3> QED BY <3>1, <3>2 DEF GoesOn
    <2>2. ASSUME NEW at \in {"answered", "imported", "built"},
                 extractors' = [extractors EXCEPT ![a].at = at]
          PROVE  GoesOn(a)
        <3> DEFINE x == [extractors[a] EXCEPT !.at = at]
        <3>1. x \in Extractor /\ x.at # "none" /\ x.run = extractors[a].run
            BY <1>1 DEF Extractor
        <3>2. extractors' = [extractors EXCEPT ![a] = x]
            BY <2>2, ExtractorShape
        <3> HIDE DEF x
        <3> QED BY <3>1, <3>2 DEF GoesOn
    <2>3. ASSUME NEW origins \in SUBSET Origin,
                 \/ extractors' = [extractors EXCEPT ![a].at = "read", ![a].left = origins]
                 \/ extractors' = [extractors EXCEPT ![a].left = origins]
          PROVE  GoesOn(a)
        <3> DEFINE at == IF extractors' = [extractors EXCEPT ![a].left = origins]
                         THEN extractors[a].at ELSE "read"
                   x == [extractors[a] EXCEPT !.at = at, !.left = origins]
        <3>1. x \in Extractor /\ x.at # "none" /\ x.run = extractors[a].run
            BY <1>1 DEF Extractor
        <3>2. extractors' = [extractors EXCEPT ![a] = x]
            BY <2>3, ExtractorShape DEF Extractor
        <3> HIDE DEF x
        <3> QED BY <3>1, <3>2 DEF GoesOn
    <2>4. CASE ImportOrigin(a)
        <3>1. PICK o \in extractors[a].left :
                  \/ extractors' = [extractors EXCEPT ![a].left = @ \ {o}]
                  \/ RefuseWith(a, "transient")
            BY <2>4 DEF ImportOrigin
        <3>2. extractors[a].left \ {o} \in SUBSET Origin
            BY <1>1 DEF Extractor
        <3> QED BY <2>1, <2>3, <3>1, <3>2
    <2>5. CASE AskAdapter(a)
        <3>1. PICK refusal \in Outcomes("extract_news") :
                  IF refusal = "none" THEN extractors' = [extractors EXCEPT ![a].at = "answered"]
                                      ELSE RefuseWith(a, refusal)
            BY <2>5 DEF AskAdapter
        <3> QED BY <2>1, <2>2, <3>1, OutcomeIsOne DEF RefuseWith
    <2> QED BY <2>1, <2>2, <2>3, <2>4, <2>5 DEF ReadArticles, BuildRecipes, SeedDiscovery
<1> QED BY <1>1, <1>3, <1>4, HandlerGoesOn DEF GoesOn

LEMMA BeginExtractionKeepsInv ==
    ASSUME ExtractionInv, NEW a \in ExtractionAttempt, BeginExtraction(a)
    PROVE  ExtractionInv'
<1> DEFINE r == ExtractionOf(a)
<1>1. /\ attempts[a].phase = "handling" /\ extractors[a].at = "none"
      /\ extractions' = [extractions EXCEPT ![r].status = "running"]
      /\ extractors' = [extractors EXCEPT ![a].at = "begun", ![a].run = r]
      /\ UNCHANGED <<status, started, attempts, requested, seeded>>
    BY DEF BeginExtraction, Handles, attemptVars
<1>2. /\ r \in ExtractionAttempt /\ JobOf(r) = JobOf(a)
      /\ \/ extractions[r].status = "running"
         \/ r = a /\ extractions[a].status = "none"
                  /\ \A q \in ExtractionAttempt : JobOf(q) = JobOf(a) => extractions[q].status # "running"
    BY <1>1 DEF ExtractionOf, RunningExtractions, ExtractionInv, UnopenedHasNoRun, Unopened
<1> HIDE DEF r
<1> DEFINE run == [extractions[r] EXCEPT !.status = "running"]
           x == [extractors[a] EXCEPT !.at = "begun", !.run = r]
<1>3. /\ extractions' = [extractions EXCEPT ![r] = run]
      /\ extractors' = [extractors EXCEPT ![a] = x]
    BY <1>1, <1>2 DEF ExtractionInv, ExtractionTables
<1>4. /\ run \in Extraction /\ run.status = "running"
      /\ x \in Extractor /\ x.at = "begun" /\ x.run = r
    BY ZenonT(60), <1>2 DEF ExtractionInv, ExtractionTables, Extraction, Extractor
<1> HIDE DEF run, x
<1>5. AttemptTypes' /\ UnclaimedAttempts' /\ CompletedKept
    BY <1>1 DEF ExtractionInv, AttemptTypes, UnclaimedAttempts, CompletedKept
<1>6. ExtractionTables'
    <2>1. extractions' \in [ExtractionAttempt -> Extraction]
        BY <1>2, <1>3, <1>4 DEF ExtractionInv, ExtractionTables
    <2>2. extractors' \in [ExtractionAttempt -> Extractor]
        BY <1>3, <1>4 DEF ExtractionInv, ExtractionTables
    <2> QED BY <1>1, <2>1, <2>2 DEF ExtractionInv, ExtractionTables
<1>7. OneRunningExtraction'
    BY <1>2, <1>3, <1>4 DEF ExtractionInv, ExtractionTables, OneRunningExtraction
<1>8. ExtractorHasRun'
    BY <1>1, <1>2, <1>3, <1>4 DEF ExtractionInv, ExtractionTables, ExtractorHasRun
<1>9. UnopenedHasNoRun'
    <2> SUFFICES ASSUME NEW b \in ExtractionAttempt, Unopened(b)'
                 PROVE  extractions'[b].status = "none"
        BY DEF UnopenedHasNoRun
    <2>1. b # a
        BY <1>1, <1>3, <1>4 DEF Unopened, ExtractionInv, ExtractionTables
    <2>2. Unopened(b) /\ extractions[b].status = "none"
        BY <1>1, <1>3, <2>1 DEF Unopened, ExtractionInv, ExtractionTables, UnopenedHasNoRun
    <2>3. b # r
        BY <1>2, <2>1, <2>2
    <2> QED BY <1>3, <2>2, <2>3 DEF ExtractionInv, ExtractionTables
<1>10. CompletedRunsStay
    BY <1>2, <1>3 DEF ExtractionInv, ExtractionTables, CompletedRunsStay
<1>11. \A b \in ExtractionAttempt : attempts'[b].phase = "succeeded" => attempts[b].phase = "succeeded"
    BY <1>1
<1> QED BY <1>5, <1>6, <1>7, <1>8, <1>9, <1>10, <1>11, ExtractionStep

\* A run that is closed with the end of its handler.
LEMMA ClosesRun ==
    ASSUME ExtractionInv, NEW a \in ExtractionAttempt, extractors[a].at # "none", RunStep(a),
           extractors' = [extractors EXCEPT ![a] = NoExtractor], UNCHANGED <<requested, seeded>>,
           NEW outcome \in {"completed", "failed"}, extractions[extractors[a].run].status = "running",
           extractions' = [extractions EXCEPT ![extractors[a].run] = [status |-> outcome, by |-> a]],
           attempts'[a].phase = "succeeded" => outcome = "completed"
    PROVE  ExtractionInv'
<1> DEFINE r == extractors[a].run
           run == [status |-> outcome, by |-> a]
<1>1. r \in ExtractionAttempt /\ JobOf(r) = JobOf(a)
    BY DEF ExtractionInv, ExtractorHasRun
<1>2. run \in Extraction /\ run.status = outcome /\ run.by = a /\ outcome # "running"
    BY DEF Extraction
<1>3. extractions' = [extractions EXCEPT ![r] = run] /\ extractions[r].status = "running"
    OBVIOUS
<1> HIDE DEF r, run
<1>4. /\ extractions' \in [ExtractionAttempt -> Extraction] /\ extractions'[r] = run
      /\ \A q \in ExtractionAttempt : q # r => extractions'[q] = extractions[q]
    BY <1>1, <1>2, <1>3 DEF ExtractionInv, ExtractionTables
<1>5. attempts'[a].phase = "succeeded" => HasCompleted(a)'
    BY <1>1, <1>2, <1>4 DEF HasCompleted
<1> QED BY <1>2, <1>3, <1>4, <1>5, AttemptGoesOn

LEMMA ReturnKeepsInv ==
    ASSUME ExtractionInv, NEW a \in ExtractionAttempt, extractors[a].at # "none", CloseAndReturn(a),
           extractors' = [extractors EXCEPT ![a] = NoExtractor], UNCHANGED <<requested, seeded>>
    PROVE  ExtractionInv'
<1>1. a \in Attempt
    BY ExtractionAttemptShape
<1>2. CASE ClosableExtraction(extractors[a].run)
    <2>1. /\ extractions' = [extractions EXCEPT ![extractors[a].run] = [status |-> "completed", by |-> a]]
          /\ extractions[extractors[a].run].status = "running"
          /\ RunStep(a)
        BY <1>2 DEF CloseAndReturn, ClosableExtraction, RunStep
    <2> QED BY <2>1, ClosesRun
<1>3. CASE ~ClosableExtraction(extractors[a].run)
    <2>1. HandlerStops(a, TRUE) /\ UNCHANGED extractions
        BY <1>3 DEF CloseAndReturn
    <2>2. RunStep(a) /\ attempts'[a].phase # "succeeded"
        BY <1>1, <2>1 DEF RunStep, HandlerStops, ExtractionInv, AttemptTypes
    <2> QED BY <2>1, <2>2, AttemptGoesOn DEF ExtractionInv, ExtractionTables
<1> QED BY <1>2, <1>3

LEMMA EndKeepsInv ==
    ASSUME ExtractionInv, NEW a \in ExtractionAttempt,
           SkipCovered(a) \/ CompleteExtraction(a) \/ FailExtraction(a)
    PROVE  ExtractionInv'
<1>1. CASE SkipCovered(a) \/ CompleteExtraction(a)
    BY <1>1, ReturnKeepsInv DEF SkipCovered, CompleteExtraction, Handles
<1>2. CASE FailExtraction(a)
    <2>1. /\ extractors[a].at # "none" /\ a \in Attempt
          /\ extractors' = [extractors EXCEPT ![a] = NoExtractor] /\ UNCHANGED <<requested, seeded>>
        BY <1>2, ExtractionAttemptShape DEF FailExtraction, Handles
    <2>2. PICK retryable \in BOOLEAN : HandlerStops(a, retryable)
        BY <1>2 DEF FailExtraction
    <2>3. RunStep(a) /\ attempts'[a].phase # "succeeded"
        BY <2>1, <2>2 DEF RunStep, HandlerStops, ExtractionInv, AttemptTypes
    <2>4. \/ UNCHANGED extractions
          \/ /\ extractions[extractors[a].run].status = "running"
             /\ extractions' = [extractions EXCEPT ![extractors[a].run] = [status |-> "failed", by |-> a]]
        BY <1>2 DEF FailExtraction, ClosableExtraction
    <2> QED BY <2>1, <2>3, <2>4, ClosesRun, AttemptGoesOn DEF ExtractionInv, ExtractionTables
<1> QED BY <1>1, <1>2

LEMMA AbandonKeepsInv ==
    ASSUME ExtractionInv, NEW a \in ExtractionAttempt,
           InterruptExtraction(a) \/ CancelExtractions(a) \/ ExtractorDies(a)
    PROVE  ExtractionInv'
<1>1. a \in Attempt /\ attempts \in [Attempt -> Process] /\ TRUE \in BOOLEAN
    BY ExtractionAttemptShape DEF ExtractionInv, AttemptTypes
<1>2. CASE InterruptExtraction(a) \/ ExtractorDies(a)
    <2>1. RunStep(a) /\ attempts'[a].phase # "succeeded"
        <3>1. RunStep(a)
            BY <1>1, <1>2 DEF InterruptExtraction, ExtractorDies, RunStep
        <3>2. CASE HandlerStops(a, TRUE)
            BY <1>1, <3>1, <3>2 DEF HandlerStops
        <3>3. CASE LoseAttempt(a)
            BY <1>1, <3>1, <3>3 DEF LoseAttempt, Enter, Process
        <3>4. CASE Die(a)
            BY <1>1, <3>1, <3>4 DEF Die, LeaveRun
        <3> QED BY <1>2, <3>2, <3>3, <3>4 DEF InterruptExtraction, ExtractorDies
    <2>2. /\ extractors' = [extractors EXCEPT ![a] = NoExtractor]
          /\ UNCHANGED <<extractions, requested, seeded>>
        BY <1>2 DEF InterruptExtraction, ExtractorDies
    <2> QED BY <2>1, <2>2, AttemptGoesOn DEF ExtractionInv, ExtractionTables
<1>3. CASE CancelExtractions(a)
    <2>1. RunStep(a) /\ attempts'[a].phase # "succeeded" /\ attempts[a].phase # "handling"
        BY <1>1, <1>3 DEF CancelExtractions, CleanedUp, Enter, LeaveRun, RunStep, Process
    <2>2. /\ extractions' = [r \in ExtractionAttempt |->
                 IF Current(a) /\ r \in RunningExtractions(JobOf(a))
                 THEN [status |-> "cancelled", by |-> a] ELSE extractions[r]]
          /\ UNCHANGED <<extractors, requested, seeded>>
        BY <1>3 DEF CancelExtractions
    <2>3. \A r \in ExtractionAttempt : \/ extractions'[r] = extractions[r]
                                       \/ /\ extractions[r].status = "running"
                                          /\ extractions'[r].status # "running"
        BY <2>2 DEF RunningExtractions
    <2>4. extractions' \in [ExtractionAttempt -> Extraction]
        BY <2>2 DEF ExtractionInv, ExtractionTables, Extraction
    <2> QED BY <2>1, <2>2, <2>3, <2>4, AttemptGoesOn
<1> QED BY <1>2, <1>3

LEMMA ExtractionQueueKeepsInv ==
    ASSUME ExtractionInv, ExtractionQueueStep
    PROVE  ExtractionInv'
<1>1. UNCHANGED <<extractions, extractors, requested, seeded>>
    BY DEF ExtractionQueueStep
<1>2. ASSUME AttemptTypes', UnclaimedAttempts', CompletedKept, \A b \in Attempt : PhaseChange(b),
             \A b \in Attempt : \/ attempts'[b].phase = attempts[b].phase
                                \/ attempts[b].phase = "none" /\ attempts'[b].phase = "handling"
      PROVE  ExtractionInv'
    <2>1. ExtractionTables' /\ OneRunningExtraction' /\ CompletedRunsStay
        BY <1>1 DEF ExtractionInv, ExtractionTables, OneRunningExtraction, CompletedRunsStay
    <2>2. \A b \in ExtractionAttempt : b \in Attempt
        BY ExtractionAttemptShape
    <2>3. ExtractorHasRun' /\ UnopenedHasNoRun'
        BY <1>1, <1>2, <2>2 DEF ExtractionInv, ExtractorHasRun, UnopenedHasNoRun, Unopened
    <2> QED BY <1>2, <2>1, <2>2, <2>3, ExtractionStep
<1>3. ASSUME NEW a \in ExtractionAttempt, BeginAttempt(a)
      PROVE  ExtractionInv'
    <2>1. /\ AttemptTypes' /\ UnclaimedAttempts' /\ CompletedKept
          /\ \A b \in Attempt : PhaseChange(b)
        BY <1>3, ExtractionAttemptShape, BeginLayer, BeginCompletesNothing DEF ExtractionInv
    <2>2. /\ attempts[a].phase = "none" /\ attempts' = [attempts EXCEPT ![a].phase = "handling"]
        <3>1. a \in Attempt /\ JobOf(a) \in Job /\ a[2] \in Nat /\ started[JobOf(a)] \in Nat
            BY ExtractionAttemptShape DEF ExtractionInv, AttemptTypes
        <3> QED BY <1>3, <3>1 DEF BeginAttempt, Enter, ExtractionInv, UnclaimedAttempts
    <2>3. \A b \in Attempt : \/ attempts'[b].phase = attempts[b].phase
                             \/ attempts[b].phase = "none" /\ attempts'[b].phase = "handling"
        BY <2>2 DEF ExtractionInv, AttemptTypes, Process
    <2> QED BY <1>2, <2>1, <2>3
<1>4. ASSUME NEW a \in ExtractionAttempt, CompleteJob(a) \/ FailJob(a)
      PROVE  ExtractionInv'
    <2>1. RunStep(a) /\ attempts[a].phase # "handling"
        BY <1>4 DEF RunStep, CompleteJob, FailJob
    <2>2. attempts'[a].phase # "succeeded"
        BY <1>4, ExtractionAttemptShape DEF CompleteJob, FailJob, LeaveRun, ExtractionInv, AttemptTypes
    <2> QED BY <1>1, <2>1, <2>2, AttemptGoesOn DEF ExtractionInv, ExtractionTables
<1>5. ASSUME (\E j \in Job : JobStep(j)) \/ (\E J \in SUBSET Job : SweepJobs(J))
      PROVE  ExtractionInv'
    <2>1. AttemptTypes' /\ UnclaimedAttempts' /\ CompletedKept /\ UNCHANGED <<attempts, started>>
        BY <1>5, QueueLayer DEF ExtractionInv
    <2> QED BY <1>2, <2>1 DEF PhaseChange
<1> QED BY <1>3, <1>4, <1>5 DEF ExtractionQueueStep, ExtractionJob

LEMMA StepExtractionInv ==
    ASSUME ExtractionInv, [ExtractionNext]_extractionVars
    PROVE  ExtractionInv'
<1>1. ASSUME NEW a \in ExtractionAttempt, ExtractorStep(a)
      PROVE  ExtractionInv'
    BY <1>1, WorkKeepsInv, BeginExtractionKeepsInv, EndKeepsInv, AbandonKeepsInv DEF ExtractorStep
<1>2. CASE UNCHANGED extractionVars
    <2>1. UNCHANGED <<status, started, attempts>> /\ UNCHANGED <<extractions, extractors, requested, seeded>>
        BY <1>2 DEF extractionVars, attemptVars
    <2>2. AttemptTypes' /\ UnclaimedAttempts'
        BY <2>1 DEF ExtractionInv, AttemptTypes, UnclaimedAttempts
    <2>3. ExtractionTables' /\ OneRunningExtraction'
        BY <2>1 DEF ExtractionInv, ExtractionTables, OneRunningExtraction
    <2>4. ExtractorHasRun' /\ UnopenedHasNoRun'
        BY <2>1 DEF ExtractionInv, ExtractorHasRun, UnopenedHasNoRun, Unopened
    <2>5. SucceededHasCompleted' /\ CompletedExtractionHasRun'
        BY <2>1 DEF ExtractionInv, SucceededHasCompleted, HasCompleted, CompletedExtractionHasRun
    <2> QED BY <2>2, <2>3, <2>4, <2>5 DEF ExtractionInv
<1> QED BY <1>1, <1>2, ExtractionQueueKeepsInv DEF ExtractionNext

LEMMA InitExtractionInv ==
    ASSUME ExtractionInit
    PROVE  ExtractionInv
<1>1. AttemptTypes /\ UnclaimedAttempts
    BY DEF ExtractionInit, AttemptsInit, LifecycleInit, AttemptTypes, UnclaimedAttempts, Process,
           Phase, LifecycleStatus
<1>2. NoExtraction \in Extraction /\ NoExtractor \in Extractor
    BY DEF NoExtraction, Extraction, NoExtractor, Extractor
<1>3. ExtractionTables
    BY <1>2 DEF ExtractionInit, ExtractionTables
<1>4. OneRunningExtraction /\ ExtractorHasRun /\ UnopenedHasNoRun
    BY DEF ExtractionInit, NoExtraction, NoExtractor, OneRunningExtraction, ExtractorHasRun,
           UnopenedHasNoRun
<1>5. SucceededHasCompleted /\ CompletedExtractionHasRun
    BY DEF ExtractionInit, AttemptsInit, LifecycleInit, ExtractionAttempt, ExtractionJob,
           SucceededHasCompleted, CompletedExtractionHasRun
<1> QED BY <1>1, <1>3, <1>4, <1>5 DEF ExtractionInv

LEMMA ExtractionInvHolds == ExtractionSpec => []ExtractionInv
BY InitExtractionInv, StepExtractionInv, PTL DEF ExtractionSpec

(* Types: in particular a job has one running run at most, although every attempt may begin one
   (begin_company_news_extraction_run and its unique index). *)
THEOREM ExtractionsAreTyped == ExtractionSpec => []ExtractionTypeOK
<1>1. ExtractionInv => ExtractionTypeOK
    BY DEF ExtractionInv, ExtractionTables, OneRunningExtraction, ExtractionTypeOK
<1> QED BY <1>1, ExtractionInvHolds, PTL

(* A job is completed only by an attempt that has completed a run of the job by itself, for any
   number of jobs and of attempts at them (complete_company_news_extraction_run). *)
THEOREM ExtractionsAreDone == ExtractionSpec => []CompletedExtractionHasRun
<1>1. ExtractionInv => CompletedExtractionHasRun
    BY DEF ExtractionInv
<1> QED BY <1>1, ExtractionInvHolds, PTL

LEMMA ExtractionStepIsAttemptStep ==
    ASSUME [ExtractionNext]_extractionVars
    PROVE  [AttemptsNext]_attemptVars
<1>1. ASSUME NEW a \in ExtractionAttempt, AttemptStep(a)
      PROVE  AttemptsNext
    BY <1>1, ExtractionAttemptShape DEF AttemptsNext
<1>2. ASSUME NEW a \in ExtractionAttempt, ExtractorStep(a)
      PROVE  [AttemptsNext]_attemptVars
    <2>1. ASSUME NEW retryable \in BOOLEAN,
                 HandlerStops(a, retryable) \/ HandlerReturns(a) \/ LoseAttempt(a) \/ CleanedUp(a) \/ Die(a)
          PROVE  AttemptsNext
        BY <1>1, <2>1 DEF AttemptStep
    <2>2. CASE BeginExtraction(a) \/ AskAdapter(a) \/ ReadArticles(a) \/ ImportOrigin(a)
               \/ BuildRecipes(a) \/ SeedDiscovery(a)
        BY <2>2 DEF BeginExtraction, AskAdapter, ReadArticles, ImportOrigin, BuildRecipes, SeedDiscovery
    <2>3. CASE SkipCovered(a) \/ CompleteExtraction(a)
        BY <2>1, <2>3 DEF SkipCovered, CompleteExtraction, CloseAndReturn
    <2>4. CASE FailExtraction(a)
        BY <2>1, <2>4 DEF FailExtraction
    <2>5. CASE InterruptExtraction(a) \/ CancelExtractions(a) \/ ExtractorDies(a)
        BY <2>1, <2>5 DEF InterruptExtraction, CancelExtractions, ExtractorDies
    <2> QED BY <1>2, <2>2, <2>3, <2>4, <2>5 DEF ExtractorStep
<1>3. CASE ExtractionQueueStep
    <2>1. ASSUME NEW a \in ExtractionAttempt, BeginAttempt(a) \/ CompleteJob(a) \/ FailJob(a)
          PROVE  AttemptsNext
        BY <1>1, <2>1 DEF AttemptStep
    <2> QED BY <1>3, <2>1 DEF ExtractionQueueStep, ExtractionJob, AttemptsNext
<1>4. CASE UNCHANGED extractionVars
    BY <1>4 DEF extractionVars
<1> QED BY <1>2, <1>3, <1>4 DEF ExtractionNext

(* The extraction handlers with their cleanups do nothing to jobs and attempts that JobAttempts
   does not allow. *)
THEOREM ExtractionRefinesAttempts == ExtractionSpec => AttemptsSpec
<1>1. ExtractionInit => AttemptsInit
    BY DEF ExtractionInit
<1> QED BY <1>1, ExtractionStepIsAttemptStep, PTL DEF ExtractionSpec, AttemptsSpec

-----------------------------------------------------------------------------
(* What a discovery finds *)

\* Of the observations of a source, the one that gives it its address.
BestOf(c) ==
    /\ \A o \in c.seen : o.confidence <= c.confidence
    /\ \E o \in c.seen :
          /\ o.confidence = c.confidence /\ o.url = c.url
          /\ \A p \in c.seen : p.confidence = c.confidence => Plainness[o.url] <= Plainness[p.url]

BestFound == {c \in Found : BestOf(c)}

\* What has been gathered: no more than allowed, and each source once.
Gathered(found) ==
    /\ found \subseteq BestFound
    /\ IsFiniteSet(found) /\ Cardinality(found) <= MaxFound
    /\ \A c, d \in found : SameSource(c, d) => c = d

SearchInv ==
    /\ discoverers \in [DiscoveryAttempt -> Discoverer]
    /\ \A a \in DiscoveryAttempt : Gathered(discoverers[a].found)

LEMMA ConfidenceIsNat == Confidence \subseteq Nat
BY DEF Confidence

LEMMA PlainnessIsNat == \A u \in Address : Plainness[u] \in Nat
BY DiscoveryAssumption

\* One more observation of a source that is known.
LEMMA SeenAgain ==
    ASSUME NEW c \in BestFound, NEW o \in Observation
    PROVE  [url |-> IF Replaces(o, c) THEN o.url ELSE c.url, kind |-> c.kind,
            confidence |-> IF o.confidence > c.confidence THEN o.confidence ELSE c.confidence,
            seen |-> c.seen \cup {o}] \in BestFound
<1> DEFINE url == IF Replaces(o, c) THEN o.url ELSE c.url
           confidence == IF o.confidence > c.confidence THEN o.confidence ELSE c.confidence
           seen == c.seen \cup {o}
           d == [url |-> url, kind |-> c.kind, confidence |-> confidence, seen |-> seen]
<1>1. /\ c.url \in Address /\ c.kind \in SourceKind /\ c.confidence \in Confidence
      /\ c.seen \subseteq Observation /\ BestOf(c)
    BY DEF BestFound, Found
<1>2. o.url \in Address /\ o.confidence \in Confidence
    BY DEF Observation
<1>3. \A p \in seen : p.url \in Address /\ p.confidence \in Nat /\ Plainness[p.url] \in Nat
    BY <1>1, <1>2, ConfidenceIsNat, PlainnessIsNat DEF Observation
<1>4. /\ o.confidence \in Nat /\ c.confidence \in Nat
      /\ Plainness[o.url] \in Nat /\ Plainness[c.url] \in Nat
    BY <1>1, <1>2, ConfidenceIsNat, PlainnessIsNat
<1>5. url \in Address /\ confidence \in Confidence /\ seen \subseteq Observation
    BY <1>1, <1>2
<1>6. d \in Found
    BY <1>1, <1>5 DEF Found
<1>7. PICK q \in c.seen :
          /\ q.confidence = c.confidence /\ q.url = c.url
          /\ \A p \in c.seen : p.confidence = c.confidence => Plainness[q.url] <= Plainness[p.url]
    BY <1>1 DEF BestOf
<1>8. \A p \in c.seen : p.confidence <= c.confidence
    BY <1>1 DEF BestOf
<1>9. \A p \in seen : p.confidence <= confidence
    BY <1>3, <1>4, <1>8
<1>10. \E r \in seen :
           /\ r.confidence = confidence /\ r.url = url
           /\ \A p \in seen : p.confidence = confidence => Plainness[r.url] <= Plainness[p.url]
    <2>1. CASE o.confidence > c.confidence
        <3>1. url = o.url /\ confidence = o.confidence
            BY <2>1 DEF Replaces
        <3>2. \A p \in seen : p.confidence = confidence => p = o
            BY <1>3, <1>4, <1>8, <2>1, <3>1
        <3> QED BY <1>4, <3>1, <3>2
    <2>2. CASE o.confidence = c.confidence /\ Plainness[o.url] < Plainness[c.url]
        <3>1. url = o.url /\ confidence = o.confidence
            BY <1>4, <2>2 DEF Replaces
        <3>2. \A p \in seen : p.confidence = confidence => Plainness[o.url] <= Plainness[p.url]
            BY <1>3, <1>4, <1>7, <2>2, <3>1
        <3> QED BY <3>1, <3>2
    <2>3. CASE o.confidence = c.confidence /\ ~(Plainness[o.url] < Plainness[c.url])
        <3>1. url = c.url /\ confidence = c.confidence
            BY <1>4, <2>3 DEF Replaces
        <3>2. \A p \in seen : p.confidence = confidence => Plainness[q.url] <= Plainness[p.url]
            BY <1>3, <1>4, <1>7, <2>3, <3>1
        <3> QED BY <1>7, <3>1, <3>2
    <2>4. CASE o.confidence < c.confidence
        <3>1. url = c.url /\ confidence = c.confidence
            BY <1>4, <2>4 DEF Replaces
        <3>2. \A p \in seen : p.confidence = confidence => Plainness[q.url] <= Plainness[p.url]
            BY <1>3, <1>4, <1>7, <2>4, <3>1
        <3> QED BY <1>7, <3>1, <3>2
    <2> QED BY <1>4, <2>1, <2>2, <2>3, <2>4
<1> HIDE DEF url, confidence, seen
<1>11. BestOf(d)
    BY <1>9, <1>10 DEF BestOf
<1> HIDE DEF d
<1>12. d \in BestFound
    BY <1>6, <1>11 DEF BestFound
<1> QED BY <1>12 DEF d, url, confidence, seen

LEMMA SeenFirst ==
    ASSUME NEW o \in Observation
    PROVE  [url |-> o.url, kind |-> o.kind, confidence |-> o.confidence, seen |-> {o}] \in BestFound
<1>1. o.confidence \in Nat /\ Plainness[o.url] \in Nat
    BY ConfidenceIsNat, PlainnessIsNat DEF Observation
<1> QED BY <1>1 DEF BestFound, BestOf, Found, Observation

LEMMA NothingGathered == Gathered({})
<1>1. IsFiniteSet({}) /\ Cardinality({}) = 0
    BY FS_EmptySet
<1>2. MaxFound \in Nat
    BY DiscoveryAssumption
<1>3. Cardinality({}) <= MaxFound
    BY <1>1, <1>2
<1> QED BY <1>1, <1>3 DEF Gathered

\* A source that is known is seen again: it stays one, and no other becomes it.
LEMMA SeenAgainGathers ==
    ASSUME NEW found, Gathered(found), NEW o \in Observation,
           ~(o.kind # "sitemap" /\ o.url \in Ignored), \E c \in found : SameSource(c, o)
    PROVE  Gathered(Accumulate(found, o))
<1> DEFINE again(c) == [url |-> IF Replaces(o, c) THEN o.url ELSE c.url, kind |-> c.kind,
                        confidence |-> IF o.confidence > c.confidence THEN o.confidence
                                       ELSE c.confidence,
                        seen |-> c.seen \cup {o}]
           after(c) == IF ~SameSource(c, o) THEN c ELSE again(c)
           result == {after(c) : c \in found}
<1>1. \A c \in found : again(c) \in BestFound
    BY SeenAgain DEF Gathered
<1>2. Accumulate(found, o) = result
    BY DEF Accumulate
<1>3. \A c \in found : /\ after(c).kind = c.kind
                       /\ SourceOf[c.kind][after(c).url] = SourceOf[c.kind][c.url]
    <2> SUFFICES ASSUME NEW c \in found
                 PROVE  /\ after(c).kind = c.kind
                        /\ SourceOf[c.kind][after(c).url] = SourceOf[c.kind][c.url]
        OBVIOUS
    <2>1. CASE ~SameSource(c, o)
        BY <2>1
    <2>2. CASE SameSource(c, o)
        <3>1. again(c).kind = c.kind /\ again(c).url \in {c.url, o.url}
            OBVIOUS
        <3>2. after(c) = again(c)
            BY <2>2
        <3> HIDE DEF again, after
        <3> QED BY <2>2, <3>1, <3>2 DEF SameSource
    <2> QED BY <2>1, <2>2
<1>4. result \subseteq BestFound
    <2> HIDE DEF again
    <2> QED BY <1>1 DEF Gathered
<1> HIDE DEF again, after
<1>5. IsFiniteSet(result) /\ Cardinality(result) <= MaxFound
    <2> DEFINE f == [c \in found |-> after(c)]
    <2>1. f \in Surjection(found, result)
        BY DEF Surjection
    <2>3. IsFiniteSet(found) /\ Cardinality(found) <= MaxFound
        BY DEF Gathered
    <2> HIDE DEF f, result
    <2>4. IsFiniteSet(result) /\ Cardinality(result) <= Cardinality(found)
        BY <2>1, <2>3, FS_Surjection
    <2>5. Cardinality(result) \in Nat /\ Cardinality(found) \in Nat
        BY <2>3, <2>4, FS_CardinalityType
    <2>6. MaxFound \in Nat
        BY DiscoveryAssumption
    <2> QED BY <2>3, <2>4, <2>5, <2>6
<1>6. \A x, y \in result : SameSource(x, y) => x = y
    <2> SUFFICES ASSUME NEW c \in found, NEW d \in found, SameSource(after(c), after(d))
                 PROVE  after(c) = after(d)
        OBVIOUS
    <2>1. SameSource(c, d)
        BY <1>3 DEF SameSource
    <2>2. c = d
        BY <2>1 DEF Gathered
    <2> QED BY <2>2
<1> HIDE DEF result
<1> QED BY <1>2, <1>4, <1>5, <1>6 DEF Gathered

\* A source that is new is taken as long as there is room.
LEMMA SeenFirstGathers ==
    ASSUME NEW found, Gathered(found), NEW o \in Observation,
           ~(o.kind # "sitemap" /\ o.url \in Ignored), \A c \in found : ~SameSource(c, o)
    PROVE  Gathered(Accumulate(found, o))
<1> DEFINE first == [url |-> o.url, kind |-> o.kind, confidence |-> o.confidence, seen |-> {o}]
<1>1. /\ first \in BestFound
      /\ first.url = o.url /\ first.kind = o.kind
    BY SeenFirst
<1>2. Accumulate(found, o) =
          IF Cardinality(found) >= MaxFound THEN found ELSE found \cup {first}
    BY DEF Accumulate
<1> HIDE DEF first
<1>3. CASE Cardinality(found) >= MaxFound
    BY <1>2, <1>3
<1>4. CASE ~(Cardinality(found) >= MaxFound)
    <2>1. first \notin found
        BY <1>1 DEF SameSource
    <2>2. IsFiniteSet(found)
        BY DEF Gathered
    <2>3. Cardinality(found) \in Nat
        BY <2>2, FS_CardinalityType
    <2>4. IsFiniteSet(found \cup {first}) /\ Cardinality(found \cup {first}) = Cardinality(found) + 1
        BY <2>1, <2>2, FS_AddElement
    <2>5. MaxFound \in Nat
        BY DiscoveryAssumption
    <2>6. Cardinality(found \cup {first}) <= MaxFound
        BY <1>4, <2>3, <2>4, <2>5
    <2>7. \A c, d \in found \cup {first} : SameSource(c, d) => c = d
        BY <1>1 DEF Gathered, SameSource
    <2> QED BY <1>1, <1>2, <1>4, <2>4, <2>6, <2>7 DEF Gathered
<1> QED BY <1>3, <1>4

LEMMA AccumulateKeepsBest ==
    ASSUME NEW found, Gathered(found), NEW o \in Observation
    PROVE  Gathered(Accumulate(found, o))
<1>1. CASE o.kind # "sitemap" /\ o.url \in Ignored
    BY <1>1 DEF Accumulate
<1>2. CASE ~(o.kind # "sitemap" /\ o.url \in Ignored)
    BY <1>2, SeenAgainGathers, SeenFirstGathers
<1> QED BY <1>1, <1>2

-----------------------------------------------------------------------------
(* The handler *)

LEMMA DiscovererMoves ==
    ASSUME SearchInv, NEW a \in DiscoveryAttempt, NEW x \in Discoverer, Gathered(x.found),
           discoverers' = [discoverers EXCEPT ![a] = x]
    PROVE  SearchInv'
BY DEF SearchInv

LEMMA NoDiscovererShape == /\ NoDiscoverer \in Discoverer /\ NoDiscoverer.found = {}
                           /\ Gathered(NoDiscoverer.found)
<1>1. NoDiscoverer \in Discoverer /\ NoDiscoverer.found = {}
    BY DEF NoDiscoverer, Discoverer
<1> QED BY <1>1, NothingGathered

LEMMA RefusedShape ==
    ASSUME SearchInv, NEW a \in DiscoveryAttempt, NEW transient \in BOOLEAN, Refuses(a, transient)
    PROVE  SearchInv'
<1> DEFINE x == [NoDiscoverer EXCEPT !.at = "refused", !.transient = transient]
<1>1. x \in Discoverer /\ x.found = {}
    BY NoDiscovererShape DEF Discoverer
<1>2. discoverers' = [discoverers EXCEPT ![a] = x]
    BY DEF Refuses
<1> HIDE DEF x
<1> QED BY <1>1, <1>2, NothingGathered, DiscovererMoves

LEMMA ObservedShape ==
    ASSUME NEW t \in Target, NEW final \in Address, NEW page
    PROVE  Observed(t, page, final) \subseteq Observation
<1>1. LinksOf[final] \subseteq Observation
    BY DiscoveryAssumption
<1> QED BY <1>1 DEF Observed, Observation, SourceKind, Confidence

LEMMA DiscovererShape ==
    ASSUME SearchInv, NEW a \in DiscoveryAttempt
    PROVE  discoverers[a] \in Discoverer /\ Gathered(discoverers[a].found)
BY DEF SearchInv

\* The search goes on, with what it has found.
LEMMA GoesOnSearching ==
    ASSUME SearchInv, NEW a \in DiscoveryAttempt,
           NEW at \in {"begun", "fetching", "probed", "searched"}, NEW pending \in SUBSET Target,
           NEW reached \in BOOLEAN, NEW todo \in SUBSET Observation,
           discoverers' = [discoverers EXCEPT ![a].at = at, ![a].pending = pending,
                                              ![a].reached = reached, ![a].todo = todo]
    PROVE  SearchInv'
<1> DEFINE x == [discoverers[a] EXCEPT !.at = at, !.pending = pending, !.reached = reached, !.todo = todo]
<1>1. x \in Discoverer /\ Gathered(x.found)
    <2>1. x \in Discoverer /\ x.found = discoverers[a].found
        BY DiscovererShape DEF Discoverer
    <2> HIDE DEF x
    <2> QED BY <2>1, DiscovererShape
<1>2. discoverers' = [discoverers EXCEPT ![a] = x]
    BY DEF SearchInv, Discoverer
<1> HIDE DEF x
<1> QED BY <1>1, <1>2, DiscovererMoves

LEMMA ProbesObserve ==
    ASSUME NEW a \in DiscoveryAttempt, ProbeSitemaps(a)
    PROVE  \E shown \in SUBSET Observation :
               discoverers' = [discoverers EXCEPT ![a].at = "probed", ![a].todo = shown]
<1>1. PICK sitemaps \in SUBSET SitemapPath, confidence \in {70, 85} :
          discoverers' = [discoverers EXCEPT ![a].at = "probed",
              ![a].todo = {[url |-> u, kind |-> "sitemap", confidence |-> confidence] : u \in sitemaps}]
    BY DEF ProbeSitemaps
<1>2. SitemapPath \subseteq Address
    BY DiscoveryAssumption
<1>3. {[url |-> u, kind |-> "sitemap", confidence |-> confidence] : u \in sitemaps} \in SUBSET Observation
    BY <1>2 DEF Observation, SourceKind, Confidence
<1> QED BY <1>1, <1>3

LEMMA SearchStepKeepsInv ==
    ASSUME SearchInv, NEW a \in DiscoveryAttempt,
           BeginDiscovery(a) \/ GatherSeeds(a) \/ ProbeSitemaps(a) \/ EndSearch(a)
    PROVE  SearchInv'
<1> DEFINE d == discoverers[a]
<1>1. /\ d.at \in {"none", "begun", "fetching", "probed", "searched", "refused"}
      /\ d.pending \in SUBSET Target /\ d.reached \in BOOLEAN /\ d.todo \in SUBSET Observation
      /\ d = discoverers[a] /\ discoverers \in [DiscoveryAttempt -> Discoverer]
    BY DEF SearchInv, Discoverer
<1> HIDE DEF d
<1>2. CASE BeginDiscovery(a)
    <2>1. discoverers' = [discoverers EXCEPT ![a].at = "begun", ![a].pending = d.pending,
                                             ![a].reached = d.reached, ![a].todo = d.todo]
        BY <1>1, <1>2 DEF BeginDiscovery, Discoverer
    <2> QED BY <1>1, <2>1, GoesOnSearching
<1>3. CASE GatherSeeds(a)
    <2>1. CASE \E seeds \in SUBSET AdapterSeed :
                   discoverers' = [discoverers EXCEPT ![a].at = "fetching",
                                      ![a].pending = EntryPoint \cup seeds \cup ProbePath]
        <3>1. PICK seeds \in SUBSET AdapterSeed :
                  discoverers' = [discoverers EXCEPT ![a].at = "fetching",
                                      ![a].pending = EntryPoint \cup seeds \cup ProbePath]
            BY <2>1
        <3> DEFINE pending == EntryPoint \cup seeds \cup ProbePath
        <3>2. pending \in SUBSET Target
            BY DEF Target
        <3> HIDE DEF pending
        <3>3. discoverers' = [discoverers EXCEPT ![a].at = "fetching", ![a].pending = pending,
                                                 ![a].reached = d.reached, ![a].todo = d.todo]
            BY <1>1, <3>1 DEF Discoverer, pending
        <3> QED BY <1>1, <3>2, <3>3, GoesOnSearching
    <2>2. CASE discoverers' = [discoverers EXCEPT ![a].at = "searched"]
        <3>1. discoverers' = [discoverers EXCEPT ![a].at = "searched", ![a].pending = d.pending,
                                                 ![a].reached = d.reached, ![a].todo = d.todo]
            BY <1>1, <2>2 DEF Discoverer
        <3> QED BY <1>1, <3>1, GoesOnSearching
    <2>3. CASE \E transient \in BOOLEAN : Refuses(a, transient)
        BY <2>3, RefusedShape
    <2>4. PICK s \in Seedings :
              \/ discoverers' = [discoverers EXCEPT ![a].at = "fetching",
                                     ![a].pending = EntryPoint \cup s.seeds \cup ProbePath]
              \/ discoverers' = [discoverers EXCEPT ![a].at = "searched"]
              \/ Refuses(a, FALSE) \/ Refuses(a, s.refusal = "transient")
        BY <1>3 DEF GatherSeeds
    <2>5. s.seeds \in SUBSET AdapterSeed /\ (s.refusal = "transient") \in BOOLEAN
        BY DEF Seedings
    <2> QED BY <2>1, <2>2, <2>3, <2>4, <2>5
<1>4. CASE ProbeSitemaps(a)
    <2>1. PICK shown \in SUBSET Observation :
              discoverers' = [discoverers EXCEPT ![a].at = "probed", ![a].todo = shown]
        BY <1>4, ProbesObserve
    <2>2. discoverers' = [discoverers EXCEPT ![a].at = "probed", ![a].pending = d.pending,
                                             ![a].reached = d.reached, ![a].todo = shown]
        BY <1>1, <2>1 DEF Discoverer
    <2> QED BY <1>1, <2>2, GoesOnSearching
<1>5. CASE EndSearch(a)
    <2>1. CASE discoverers' = [discoverers EXCEPT ![a].at = "searched"]
        <3>1. discoverers' = [discoverers EXCEPT ![a].at = "searched", ![a].pending = d.pending,
                                                 ![a].reached = d.reached, ![a].todo = d.todo]
            BY <1>1, <2>1 DEF Discoverer
        <3> QED BY <1>1, <3>1, GoesOnSearching
    <2> QED BY <1>5, <2>1, RefusedShape DEF EndSearch
<1> QED BY <1>2, <1>3, <1>4, <1>5

LEMMA RespondKeepsInv ==
    ASSUME SearchInv, NEW a \in DiscoveryAttempt, NEW t \in Target, Respond(a, t)
    PROVE  SearchInv'
<1> DEFINE d == discoverers[a]
<1>1. PICK page \in {"failed", "feed", "html"}, final \in Address :
          discoverers' = [discoverers EXCEPT
              ![a].pending = @ \ {t}, ![a].todo = Observed(t, page, final),
              ![a].reached = @ \/ (page # "failed" /\ t \notin ProbePath)]
    BY DEF Respond
<1> DEFINE pending == d.pending \ {t}
           reached == d.reached \/ (page # "failed" /\ t \notin ProbePath)
           todo == Observed(t, page, final)
<1>2. /\ d.pending \in SUBSET Target /\ d.reached \in BOOLEAN /\ d.at = "fetching"
    BY DEF Respond, Discovers, SearchInv, Discoverer
<1>3. todo \in SUBSET Observation
    BY ObservedShape
<1>4. discoverers' = [discoverers EXCEPT ![a].at = "fetching", ![a].pending = pending,
                                         ![a].reached = reached, ![a].todo = todo]
    <2> HIDE DEF todo
    <2>1. d \in Discoverer
        BY DEF SearchInv
    <2>2. discoverers' = [discoverers EXCEPT ![a] = [d EXCEPT !.pending = pending,
                                                              !.reached = reached, !.todo = todo]]
        BY <1>1 DEF SearchInv, Discoverer, todo
    <2> QED BY ZenonT(60), <1>2, <2>1, <2>2 DEF Discoverer
<1>5. pending \in SUBSET Target /\ reached \in BOOLEAN
    BY <1>2
<1> HIDE DEF pending, reached, todo
<1> QED BY <1>3, <1>4, <1>5, GoesOnSearching

LEMMA AccumulateKeepsInv ==
    ASSUME SearchInv, NEW a \in DiscoveryAttempt, AccumulateNext(a)
    PROVE  SearchInv'
<1>1. PICK o \in discoverers[a].todo :
          discoverers' = [discoverers EXCEPT ![a].todo = @ \ {o}, ![a].found = Accumulate(@, o)]
    BY DEF AccumulateNext
<1> DEFINE found == Accumulate(discoverers[a].found, o)
           x == [discoverers[a] EXCEPT !.todo = @ \ {o}, !.found = found]
<1>2. o \in Observation /\ discoverers[a] \in Discoverer
    BY DiscovererShape DEF Discoverer
<1>3. Gathered(found)
    BY <1>2, AccumulateKeepsBest, DiscovererShape
<1>4. discoverers' = [discoverers EXCEPT ![a] = x]
    <2> HIDE DEF found
    <2> QED BY <1>1 DEF SearchInv, Discoverer, found
<1> HIDE DEF found
<1>5. x \in Discoverer /\ x.found = found
    BY <1>2, <1>3 DEF Discoverer, Gathered, BestFound
<1> HIDE DEF x
<1> QED BY <1>3, <1>4, <1>5, DiscovererMoves

LEMMA StepSearchInv ==
    ASSUME SearchInv, [DiscoveryNext]_discoveryVars
    PROVE  SearchInv'
<1>1. ASSUME UNCHANGED discoverers PROVE SearchInv'
    BY <1>1 DEF SearchInv
<1>2. ASSUME NEW a \in DiscoveryAttempt, discoverers' = [discoverers EXCEPT ![a] = NoDiscoverer]
      PROVE  SearchInv'
    BY <1>2, NoDiscovererShape, DiscovererMoves
<1>3. ASSUME NEW a \in DiscoveryAttempt, DiscovererStep(a)
      PROVE  SearchInv'
    <2>1. CASE BeginDiscovery(a) \/ GatherSeeds(a) \/ ProbeSitemaps(a) \/ EndSearch(a)
        BY <2>1, SearchStepKeepsInv
    <2>2. CASE AccumulateNext(a)
        BY <2>2, AccumulateKeepsInv
    <2>3. CASE \E t \in Target : Respond(a, t)
        BY <2>3, RespondKeepsInv
    <2>4. CASE CompleteDiscovery(a) \/ FailDiscovery(a) \/ InterruptDiscovery(a) \/ DiscovererDies(a)
        BY <1>2, <2>4 DEF CompleteDiscovery, FailDiscovery, InterruptDiscovery, DiscovererDies
    <2>5. CASE CancelDiscoveries(a)
        BY <1>1, <2>5 DEF CancelDiscoveries
    <2> QED BY <1>3, <2>1, <2>2, <2>3, <2>4, <2>5 DEF DiscovererStep
<1>4. CASE DiscoveryQueueStep \/ UNCHANGED discoveryVars
    BY <1>1, <1>4 DEF DiscoveryQueueStep, discoveryVars
<1> QED BY <1>3, <1>4 DEF DiscoveryNext

LEMMA InitSearchInv ==
    ASSUME DiscoveryInit
    PROVE  SearchInv
BY NoDiscovererShape DEF DiscoveryInit, SearchInv

LEMMA SearchInvHolds == DiscoverySpec => []SearchInv
BY InitSearchInv, StepSearchInv, PTL DEF DiscoverySpec

(* In whatever order responses come, from any number of pages and of addresses of a source, the
   source is reported with the greatest confidence that it was observed with, at the plainest of
   the addresses it then had (CandidateAccumulator::insert). *)
THEOREM SightingsCommute == DiscoverySpec => []FoundAtItsBest
<1>1. SearchInv => FoundAtItsBest
    BY DEF SearchInv, Gathered, BestFound, BestOf, FoundAtItsBest
<1> QED BY <1>1, SearchInvHolds, PTL

\* Candidates: each names the run that brought it last, and that run is completed.
KnownInv ==
    /\ discoveries \in [DiscoveryAttempt -> {"none", "running", "completed", "failed", "cancelled"}]
    /\ \A k \in known : k.run \in DiscoveryAttempt /\ discoveries[k.run] = "completed"
    /\ \A k, l \in known : k.url = l.url /\ k.kind = l.kind => k = l

DiscoveryInv == SearchInv /\ KnownInv

\* Steps other than a completion: they store nothing, and no completed run is touched.
LEMMA CompletedStays ==
    ASSUME KnownInv, UNCHANGED known,
           discoveries' \in [DiscoveryAttempt -> {"none", "running", "completed", "failed", "cancelled"}],
           \A r \in DiscoveryAttempt : discoveries[r] = "completed" => discoveries'[r] = "completed"
    PROVE  KnownInv'
BY DEF KnownInv

\* A completion: what it stores replaces what was known under the same URL and kind.
LEMMA CompletionStores ==
    ASSUME DiscoveryInv, NEW a \in DiscoveryAttempt, CompleteDiscovery(a)
    PROVE  KnownInv'
<1> DEFINE found == discoverers[a].found
           kept == {k \in known : \A c \in found : ~IsOf(k, c)}
           stored == {Stored(c, a) : c \in found}
<1>1. known' = kept \cup stored /\ discoveries' = [discoveries EXCEPT ![a] = "completed"]
    BY DEF CompleteDiscovery
<1>2. \A c \in found : /\ Stored(c, a).url = StoredUrl(c) /\ Stored(c, a).kind = c.kind
                       /\ Stored(c, a).run = a
    BY DEF Stored
<1>3. \A c, d \in found : StoredUrl(c) = StoredUrl(d) /\ c.kind = d.kind => c = d
    <2> SUFFICES ASSUME NEW c \in found, NEW d \in found,
                        StoredUrl(c) = StoredUrl(d), c.kind = d.kind
                 PROVE  c = d
        OBVIOUS
    <2>1. c.url \in Address /\ d.url \in Address
        BY DEF DiscoveryInv, SearchInv, Gathered, BestFound, Found
    <2>2. SourceOf[c.kind][c.url] = SourceOf[c.kind][d.url]
        <3>1. CASE c.kind = "html"
            BY <2>1, <3>1, DiscoveryAssumption DEF StoredUrl
        <3>2. CASE c.kind # "html"
            BY <3>2 DEF StoredUrl
        <3> QED BY <3>1, <3>2
    <2> QED BY <2>2 DEF DiscoveryInv, SearchInv, Gathered, SameSource
<1> HIDE DEF found
<1>4. \A k, l \in kept \cup stored : k.url = l.url /\ k.kind = l.kind => k = l
    <2> SUFFICES ASSUME NEW k \in kept \cup stored, NEW l \in kept \cup stored,
                        k.url = l.url, k.kind = l.kind
                 PROVE  k = l
        OBVIOUS
    <2>1. CASE k \in kept /\ l \in kept
        BY <2>1 DEF DiscoveryInv, KnownInv
    <2>2. CASE k \in stored /\ l \in stored
        <3>1. PICK c \in found : k = Stored(c, a)
            BY <2>2
        <3>2. PICK d \in found : l = Stored(d, a)
            BY <2>2
        <3>3. c = d
            BY <1>2, <1>3, <3>1, <3>2
        <3> QED BY <3>1, <3>2, <3>3
    <2>3. CASE k \in kept /\ l \in stored
        BY <1>2, <2>3 DEF IsOf
    <2>4. CASE k \in stored /\ l \in kept
        BY <1>2, <2>4 DEF IsOf
    <2> QED BY <2>1, <2>2, <2>3, <2>4
<1>5. \A k \in kept \cup stored : k.run \in DiscoveryAttempt /\ discoveries'[k.run] = "completed"
    BY <1>1, <1>2 DEF DiscoveryInv, KnownInv
<1>6. discoveries' \in [DiscoveryAttempt -> {"none", "running", "completed", "failed", "cancelled"}]
    BY <1>1 DEF DiscoveryInv, KnownInv
<1> HIDE DEF kept, stored
<1> QED BY <1>1, <1>4, <1>5, <1>6 DEF KnownInv

LEMMA StepKnownInv ==
    ASSUME DiscoveryInv, [DiscoveryNext]_discoveryVars
    PROVE  KnownInv'
<1>1. ASSUME UNCHANGED <<discoveries, known>> PROVE KnownInv'
    BY <1>1 DEF DiscoveryInv, KnownInv
<1>2. ASSUME NEW a \in DiscoveryAttempt, DiscovererStep(a)
      PROVE  KnownInv'
    <2>1. CASE BeginDiscovery(a)
        BY <2>1, CompletedStays DEF BeginDiscovery, DiscoveryInv, KnownInv
    <2>2. CASE GatherSeeds(a) \/ AccumulateNext(a) \/ ProbeSitemaps(a) \/ EndSearch(a)
        BY <1>1, <2>2 DEF GatherSeeds, AccumulateNext, ProbeSitemaps, EndSearch
    <2>3. CASE \E t \in Target : Respond(a, t)
        BY <1>1, <2>3 DEF Respond
    <2>4. CASE CompleteDiscovery(a)
        BY <2>4, CompletionStores
    <2>5. CASE FailDiscovery(a)
        BY <2>5, CompletedStays DEF FailDiscovery, DiscoveryInv, KnownInv
    <2>6. CASE InterruptDiscovery(a) \/ DiscovererDies(a)
        BY <1>1, <2>6 DEF InterruptDiscovery, DiscovererDies
    <2>7. CASE CancelDiscoveries(a)
        BY <2>7, CompletedStays DEF CancelDiscoveries, DiscoveryInv, KnownInv
    <2> QED BY <1>2, <2>1, <2>2, <2>3, <2>4, <2>5, <2>6, <2>7 DEF DiscovererStep
<1>3. CASE DiscoveryQueueStep \/ UNCHANGED discoveryVars
    BY <1>1, <1>3 DEF DiscoveryQueueStep, discoveryVars
<1> QED BY <1>2, <1>3 DEF DiscoveryNext

LEMMA InitDiscoveryInv == DiscoveryInit => DiscoveryInv
BY InitSearchInv DEF DiscoveryInit, DiscoveryInv, KnownInv

LEMMA StepDiscoveryInv ==
    ASSUME DiscoveryInv, [DiscoveryNext]_discoveryVars
    PROVE  DiscoveryInv'
BY StepSearchInv, StepKnownInv DEF DiscoveryInv

LEMMA DiscoveryTypes ==
    ASSUME DiscoveryInv
    PROVE  DiscoveryTypeOK
<1>1. \A a \in DiscoveryAttempt :
          /\ discoverers[a].pending \subseteq Target /\ discoverers[a].todo \subseteq Observation
          /\ \A c \in discoverers[a].found : c \in Found
          /\ Cardinality(discoverers[a].found) <= MaxFound
    BY DEF DiscoveryInv, SearchInv, Gathered, BestFound, Discoverer
<1> QED BY <1>1 DEF DiscoveryInv, KnownInv, DiscoveryTypeOK

(* What is found is typed and bounded, each source is known once, and the run that a candidate
   names as its evidence is a completed one: neither a failure nor a cleanup of another attempt
   takes it back (complete_discovery_run, cancel_running_discovery_runs_for_job). *)
THEOREM DiscoveryIsTyped == DiscoverySpec => []DiscoveryTypeOK
<1>1. DiscoveryInv /\ [DiscoveryNext]_discoveryVars => DiscoveryInv'
    BY StepDiscoveryInv
<1>2. DiscoveryInv => DiscoveryTypeOK
    BY DiscoveryTypes
<1> QED BY <1>1, <1>2, InitDiscoveryInv, PTL DEF DiscoverySpec

-----------------------------------------------------------------------------
(* The jobs of discoveries *)

\* The attempt that has completed a job exists.
LastAttempts == \A j \in DiscoveryJob : status[j] = "completed" => <<j, started[j]>> \in DiscoveryAttempt

\* An attempt succeeds with its own run completed, and a job is completed by such an attempt.
DoneInv ==
    /\ AttemptTypes /\ UnclaimedAttempts /\ DiscoveryInv
    /\ \A a \in DiscoveryAttempt : attempts[a].phase = "succeeded" => discoveries[a] = "completed"
    /\ LastAttempts /\ CompletedDiscoveryHasRun

LEMMA DiscoveryAttemptShape ==
    ASSUME NEW a \in DiscoveryAttempt
    PROVE  /\ a \in Attempt /\ JobOf(a) \in DiscoveryJob /\ JobOf(a) \in Job
           /\ a = <<JobOf(a), a[2]>>
BY AttemptShape DEF DiscoveryAttempt, DiscoveryJob

RunsStayCompleted ==
    \A r \in DiscoveryAttempt : discoveries[r] = "completed" => discoveries'[r] = "completed"

\* A step that completes no job.
LEMMA NoJobDone ==
    ASSUME DoneInv, AttemptTypes', UnclaimedAttempts', DiscoveryInv', RunsStayCompleted, CompletedKept,
           \A a \in DiscoveryAttempt : attempts'[a].phase = "succeeded" =>
               attempts[a].phase = "succeeded" \/ discoveries'[a] = "completed"
    PROVE  DoneInv'
<1>1. \A j \in DiscoveryJob : j \in Job
    BY DEF DiscoveryJob
<1> QED BY <1>1 DEF DoneInv, LastAttempts, CompletedDiscoveryHasRun, RunsStayCompleted, CompletedKept

LEMMA RunStepKeepsDone ==
    ASSUME DoneInv, DiscoveryInv', RunsStayCompleted,
           NEW a \in DiscoveryAttempt, RunStep(a),
           attempts'[a].phase = "succeeded" => discoveries'[a] = "completed"
    PROVE  DoneInv'
<1>1. a \in Attempt /\ AttemptTypes /\ UnclaimedAttempts
    BY DiscoveryAttemptShape DEF DoneInv
<1>2. AttemptTypes' /\ UnclaimedAttempts'
    BY <1>1, RunLayer
<1>3. \A b \in DiscoveryAttempt \ {a} : attempts'[b] = attempts[b]
    BY <1>1, RunStepMoves, DiscoveryAttemptShape DEF Moves, AttemptTypes
<1>4. CASE CompletedKept
    BY <1>2, <1>3, <1>4, NoJobDone
<1>5. CASE /\ attempts[a].phase = "succeeded" /\ Current(a)
           /\ status' = [status EXCEPT ![JobOf(a)] = "completed"] /\ UNCHANGED started
    <2>1. <<JobOf(a), started[JobOf(a)]>> = a /\ LastAttempts
        BY <1>5, DiscoveryAttemptShape DEF Current, DoneInv
    <2>2. discoveries[a] = "completed" /\ discoveries'[a] = "completed"
        BY <1>5 DEF DoneInv, RunsStayCompleted
    <2>3. \A j \in DiscoveryJob : status'[j] = "completed" =>
              started'[j] = started[j] /\ (j = JobOf(a) \/ status[j] = "completed")
        BY <1>1, <1>5 DEF AttemptTypes, DiscoveryJob
    <2>4. LastAttempts'
        BY <2>1, <2>3 DEF LastAttempts
    <2>5. CompletedDiscoveryHasRun'
        BY <2>1, <2>2, <2>3 DEF DoneInv, LastAttempts, RunsStayCompleted, CompletedDiscoveryHasRun
    <2> QED BY <1>2, <1>3, <2>4, <2>5 DEF DoneInv, RunsStayCompleted
<1> QED BY <1>1, <1>4, <1>5, RunStepCompletes

\* The handler goes on with its search.
LEMMA SearchGoesOn ==
    ASSUME DoneInv, DiscoveryInv', RunsStayCompleted, UNCHANGED attemptVars
    PROVE  DoneInv'
<1>1. AttemptTypes' /\ UnclaimedAttempts' /\ CompletedKept /\ UNCHANGED <<attempts, started, status>>
    BY DEF DoneInv, attemptVars, AttemptTypes, UnclaimedAttempts, CompletedKept
<1> QED BY <1>1, NoJobDone

LEMMA DiscovererKeepsDone ==
    ASSUME DoneInv, DiscoveryInv', NEW a \in DiscoveryAttempt, DiscovererStep(a)
    PROVE  DoneInv'
<1>1. a \in Attempt /\ AttemptTypes /\ DOMAIN discoveries = DiscoveryAttempt
      /\ discoveries = [r \in DiscoveryAttempt |-> discoveries[r]]
    BY DiscoveryAttemptShape DEF DoneInv, DiscoveryInv, KnownInv
<1>2. CASE BeginDiscovery(a)
    <2>1. RunsStayCompleted /\ UNCHANGED attemptVars
        BY <1>1, <1>2 DEF BeginDiscovery, RunsStayCompleted
    <2> QED BY <2>1, SearchGoesOn
<1>3. CASE \/ GatherSeeds(a) \/ AccumulateNext(a) \/ ProbeSitemaps(a) \/ EndSearch(a)
           \/ \E t \in Target : Respond(a, t)
    <2>1. UNCHANGED discoveries /\ UNCHANGED attemptVars
        BY <1>3 DEF GatherSeeds, AccumulateNext, ProbeSitemaps, EndSearch, Respond
    <2> QED BY <2>1, SearchGoesOn DEF RunsStayCompleted
<1>4. CASE CompleteDiscovery(a)
    <2>1. RunStep(a) /\ discoveries' = [discoveries EXCEPT ![a] = "completed"]
        BY <1>4 DEF CompleteDiscovery, RunStep
    <2>2. RunsStayCompleted /\ discoveries'[a] = "completed"
        BY <1>1, <2>1 DEF RunsStayCompleted
    <2> QED BY <2>1, <2>2, RunStepKeepsDone
<1>5. ASSUME NEW retryable \in BOOLEAN, HandlerStops(a, retryable)
      PROVE  RunStep(a) /\ attempts'[a].phase # "succeeded"
    BY <1>1, <1>5 DEF HandlerStops, RunStep, AttemptTypes
<1>6. CASE FailDiscovery(a)
    <2>1. PICK retryable \in BOOLEAN : HandlerStops(a, retryable)
        <3>1. attempts[a].phase = "handling" /\ (HandlerStops(a, discoverers[a].transient) \/ HandlerStops(a, TRUE))
            BY <1>6 DEF FailDiscovery, Discovers
        <3> QED BY <3>1 DEF DoneInv, DiscoveryInv, SearchInv, Discoverer
    <2>2. RunsStayCompleted
        BY <1>1, <1>6 DEF FailDiscovery, RunsStayCompleted
    <2> QED BY <1>5, <2>1, <2>2, RunStepKeepsDone
<1>7. CASE InterruptDiscovery(a) \/ DiscovererDies(a)
    <2>1. RunStep(a) /\ attempts'[a].phase # "succeeded"
        <3>1. CASE HandlerStops(a, TRUE)
            BY <1>5, <3>1
        <3>2. CASE LoseAttempt(a)
            BY <1>1, <3>2 DEF LoseAttempt, Enter, RunStep, AttemptTypes, Process
        <3>3. CASE Die(a)
            BY <1>1, <3>3 DEF Die, LeaveRun, RunStep, AttemptTypes
        <3> QED BY <1>7, <3>1, <3>2, <3>3 DEF InterruptDiscovery, DiscovererDies
    <2>2. RunsStayCompleted
        BY <1>7 DEF InterruptDiscovery, DiscovererDies, RunsStayCompleted
    <2> QED BY <2>1, <2>2, RunStepKeepsDone
<1>8. CASE CancelDiscoveries(a)
    <2>1. RunStep(a) /\ attempts'[a].phase # "succeeded"
        BY <1>1, <1>8 DEF CancelDiscoveries, CleanedUp, Enter, LeaveRun, RunStep, AttemptTypes, Process
    <2>2. RunsStayCompleted
        BY <1>8 DEF CancelDiscoveries, RunsStayCompleted
    <2> QED BY <2>1, <2>2, RunStepKeepsDone
<1> QED BY <1>2, <1>3, <1>4, <1>6, <1>7, <1>8 DEF DiscovererStep

LEMMA QueueKeepsDone ==
    ASSUME DoneInv, DiscoveryInv', DiscoveryQueueStep
    PROVE  DoneInv'
<1>1. RunsStayCompleted /\ AttemptTypes /\ UnclaimedAttempts
    BY DEF DiscoveryQueueStep, RunsStayCompleted, DoneInv
<1>2. ASSUME NEW a \in DiscoveryAttempt, BeginAttempt(a)
      PROVE  DoneInv'
    <2>1. AttemptTypes' /\ UnclaimedAttempts' /\ CompletedKept
        BY <1>1, <1>2, DiscoveryAttemptShape, BeginLayer, BeginCompletesNothing
    <2>2. \A b \in DiscoveryAttempt : attempts'[b].phase = "succeeded" => attempts[b].phase = "succeeded"
        BY <1>1, <1>2, DiscoveryAttemptShape DEF BeginAttempt, Enter, AttemptTypes, Process
    <2> QED BY <1>1, <2>1, <2>2, NoJobDone
<1>3. ASSUME NEW a \in DiscoveryAttempt, CompleteJob(a) \/ FailJob(a)
      PROVE  DoneInv'
    <2>1. RunStep(a) /\ attempts'[a].phase # "succeeded"
        BY <1>1, <1>3, DiscoveryAttemptShape DEF RunStep, CompleteJob, FailJob, LeaveRun, AttemptTypes
    <2> QED BY <1>1, <2>1, RunStepKeepsDone
<1>4. ASSUME (\E j \in Job : JobStep(j)) \/ (\E J \in SUBSET Job : SweepJobs(J))
      PROVE  DoneInv'
    <2>1. AttemptTypes' /\ UnclaimedAttempts' /\ CompletedKept /\ UNCHANGED <<attempts, started>>
        BY <1>1, <1>4, QueueLayer
    <2> QED BY <1>1, <2>1, NoJobDone
<1> QED BY <1>2, <1>3, <1>4 DEF DiscoveryQueueStep, DiscoveryJob

(* A job is completed only by an attempt that has completed its own run, although others may
   complete theirs after it or have been cancelled (complete_discovery_run).
   CompletedDiscoveryHasRun, for any number of jobs and attempts. *)
THEOREM DiscoveriesAreDone == DiscoverySpec => []CompletedDiscoveryHasRun
<1>1. DiscoveryInit => DoneInv
    <2> SUFFICES ASSUME DiscoveryInit PROVE DoneInv
        OBVIOUS
    <2>1. AttemptTypes /\ UnclaimedAttempts
        BY DEF DiscoveryInit, AttemptsInit, LifecycleInit, AttemptTypes, UnclaimedAttempts, Process,
               Phase, LifecycleStatus
    <2>2. DiscoveryInv
        BY InitDiscoveryInv
    <2>3. /\ \A a \in DiscoveryAttempt : attempts[a].phase = "none"
          /\ \A j \in DiscoveryJob : status[j] = "absent"
        BY DiscoveryAttemptShape DEF DiscoveryInit, AttemptsInit, LifecycleInit, DiscoveryJob
    <2> QED BY <2>1, <2>2, <2>3 DEF DoneInv, LastAttempts, CompletedDiscoveryHasRun
<1>2. DoneInv /\ [DiscoveryNext]_discoveryVars => DoneInv'
    <2> SUFFICES ASSUME DoneInv, [DiscoveryNext]_discoveryVars
                 PROVE  DoneInv'
        OBVIOUS
    <2>1. DiscoveryInv'
        BY StepDiscoveryInv DEF DoneInv
    <2>2. CASE UNCHANGED discoveryVars
        <3>1. UNCHANGED attemptVars /\ RunsStayCompleted
            BY <2>2 DEF discoveryVars, RunsStayCompleted
        <3> QED BY <2>1, <3>1, SearchGoesOn
    <2> QED BY <2>1, <2>2, DiscovererKeepsDone, QueueKeepsDone DEF DiscoveryNext
<1>3. DoneInv => CompletedDiscoveryHasRun
    BY DEF DoneInv
<1> QED BY <1>1, <1>2, <1>3, PTL DEF DiscoverySpec

LEMMA DiscoveryStepIsAttemptStep ==
    ASSUME SearchInv, [DiscoveryNext]_discoveryVars
    PROVE  [AttemptsNext]_attemptVars
<1>1. ASSUME NEW a \in DiscoveryAttempt, AttemptStep(a)
      PROVE  AttemptsNext
    BY <1>1, DiscoveryAttemptShape DEF AttemptsNext
<1>2. ASSUME NEW a \in DiscoveryAttempt, DiscovererStep(a)
      PROVE  [AttemptsNext]_attemptVars
    <2>1. ASSUME NEW retryable \in BOOLEAN,
                 HandlerStops(a, retryable) \/ HandlerReturns(a) \/ LoseAttempt(a) \/ CleanedUp(a) \/ Die(a)
          PROVE  AttemptsNext
        BY <1>1, <2>1 DEF AttemptStep
    <2>2. CASE \/ BeginDiscovery(a) \/ GatherSeeds(a) \/ AccumulateNext(a) \/ ProbeSitemaps(a)
               \/ EndSearch(a) \/ \E t \in Target : Respond(a, t)
        BY <2>2 DEF BeginDiscovery, GatherSeeds, AccumulateNext, ProbeSitemaps, EndSearch, Respond
    <2>3. CASE FailDiscovery(a)
        <3>1. discoverers[a].transient \in BOOLEAN
            BY DEF SearchInv, Discoverer
        <3> QED BY <2>1, <2>3, <3>1 DEF FailDiscovery
    <2>4. CASE CompleteDiscovery(a) \/ InterruptDiscovery(a) \/ CancelDiscoveries(a) \/ DiscovererDies(a)
        BY <2>1, <2>4 DEF CompleteDiscovery, InterruptDiscovery, CancelDiscoveries, DiscovererDies
    <2> QED BY <1>2, <2>2, <2>3, <2>4 DEF DiscovererStep
<1>3. CASE DiscoveryQueueStep
    <2>1. ASSUME NEW a \in DiscoveryAttempt, BeginAttempt(a) \/ CompleteJob(a) \/ FailJob(a)
          PROVE  AttemptsNext
        BY <1>1, <2>1 DEF AttemptStep
    <2> QED BY <1>3, <2>1 DEF DiscoveryQueueStep, DiscoveryJob, AttemptsNext
<1>4. CASE UNCHANGED discoveryVars
    BY <1>4 DEF discoveryVars
<1> QED BY <1>2, <1>3, <1>4 DEF DiscoveryNext

(* The searches with their cleanups do nothing to jobs and attempts that JobAttempts does not
   allow. *)
THEOREM DiscoveryRefinesAttempts == DiscoverySpec => AttemptsSpec
<1>1. DiscoveryInit => AttemptsInit
    BY DEF DiscoveryInit
<1> QED BY <1>1, DiscoveryStepIsAttemptStep, SearchInvHolds, PTL DEF DiscoverySpec, AttemptsSpec

-----------------------------------------------------------------------------
(* UniverseImport *)

\* What a wave has selected nobody else releases before it commits.
WavesHold ==
    /\ \A w \in Wave : \A c \in LockedBy(w) : Present(c) /\ ~companies[c].enabled
    /\ \A v, w \in Wave : v # w => LockedBy(v) \cap LockedBy(w) = {}

\* What rows say of their origin.
OriginsAgree ==
    \A c \in Company :
        /\ companies[c].owner = "absent" => ~companies[c].enabled
        /\ companies[c].owner = "seed" =>
              /\ companies[c].name = "seed"
              /\ companies[c].homepage = SeedHomepage \/ SeedHomepage = "none"

UniverseInv == UniverseTypeOK /\ WavesHold /\ OriginsAgree

\* What a step may do to the row of a company.
RowStands(old, new) ==
    /\ new \in CompanyRow
    /\ old.owner # "absent" => new.owner \in {old.owner, "seed"}
    /\ old.enabled => new.enabled /\ new.notBefore <= old.notBefore
    /\ new.owner = "absent" => ~new.enabled
    /\ new.owner = "seed" => /\ new.name = "seed"
                             /\ new.homepage = SeedHomepage \/ SeedHomepage = "none"

LEMMA UniverseStands ==
    ASSUME UniverseInv,
           companies' \in [Company -> CompanyRow],
           \A c \in Company : RowStands(companies[c], companies'[c]),
           \A c \in LockedCompanies : companies'[c] = companies[c],
           UNCHANGED waves
    PROVE  WavesHold' /\ OriginsAgree'
<1>1. \A w \in Wave : LockedBy(w)' = LockedBy(w) /\ LockedBy(w) \subseteq LockedCompanies
    BY DEF LockedBy, LockedCompanies
<1>2. WavesHold'
    BY <1>1 DEF WavesHold, UniverseInv, Present
<1>3. OriginsAgree'
    BY DEF OriginsAgree, RowStands
<1> QED BY <1>2, <1>3

LEMMA KeptRowsStand ==
    ASSUME UniverseInv
    PROVE  \A c \in Company : RowStands(companies[c], companies[c])
BY UniverseAssumption DEF UniverseInv, UniverseTypeOK, OriginsAgree, RowStands, CompanyRow

LEMMA RowOfDocument ==
    ASSUME NEW d \in Document, NEW c \in CompaniesOf(d)
    PROVE  RowOf(d, c) \in UniverseRow /\ c \in Company
<1>1. RowsOf[d] \subseteq UniverseRow
    BY UniverseAssumption DEF ValidDocument
<1>2. PICK r \in RowsOf[d] : r.company = c
    BY DEF CompaniesOf
<1>3. RowOf(d, c) \in RowsOf[d]
    BY <1>2 DEF RowOf
<1> QED BY <1>1, <1>2, <1>3 DEF UniverseRow

LEMMA UpsertStands ==
    ASSUME UniverseInv, NEW d \in Document, NEW c \in CompaniesOf(d), NEW activate \in BOOLEAN
    PROVE  RowStands(companies[c], Upserted([company |-> c, row |-> companies[c]], d, activate))
<1> DEFINE r == RowOf(d, c)
           old == companies[c]
           first == IF r.primary # "none" THEN r.primary
                    ELSE IF old.primary \in r.listings THEN "none" ELSE old.primary
           new == Upserted([company |-> c, row |-> companies[c]], d, activate)
<1>1. /\ r \in UniverseRow /\ c \in Company /\ old \in CompanyRow /\ day \in 0..MaxDay
      /\ old.owner = "absent" => ~old.enabled
      /\ old.owner = "seed" => /\ old.name = "seed"
                               /\ old.homepage = SeedHomepage \/ SeedHomepage = "none"
    BY RowOfDocument DEF UniverseInv, UniverseTypeOK, OriginsAgree
<1>2. new = IF old.owner = "absent"
            THEN [owner |-> "universe", name |-> d, homepage |-> r.homepage, revision |-> d,
                  primary |-> first, enabled |-> activate, notBefore |-> day]
            ELSE [old EXCEPT !.name = IF old.owner = "universe" THEN d ELSE @,
                             !.homepage = IF @ = "none" THEN r.homepage ELSE @,
                             !.revision = d,
                             !.primary = first]
    BY DEF Upserted, Listed
<1>3. first \in Listing \cup {"none"}
    BY <1>1 DEF UniverseRow, CompanyRow
<1> SUFFICES RowStands(old, new)
    OBVIOUS
<1> HIDE DEF r, first, new
<1>4. CASE old.owner = "absent"
    <2>1. new = [owner |-> "universe", name |-> d, homepage |-> r.homepage, revision |-> d,
                 primary |-> first, enabled |-> activate, notBefore |-> day]
        BY <1>2, <1>4
    <2>2. r.homepage \in Word
        BY <1>1 DEF UniverseRow, Word
    <2>3. new \in CompanyRow
        BY <2>1, <2>2, <1>1, <1>3 DEF CompanyRow, Word
    <2> QED BY <2>1, <2>3, <1>1, <1>4 DEF RowStands
<1>5. CASE old.owner # "absent"
    <2> DEFINE called == IF old.owner = "universe" THEN d ELSE old.name
               home == IF old.homepage = "none" THEN r.homepage ELSE old.homepage
    <2>1. new = [old EXCEPT !.name = called, !.homepage = home, !.revision = d, !.primary = first]
        BY <1>2, <1>5
    <2>2. called \in Word /\ home \in Word
        BY <1>1 DEF UniverseRow, CompanyRow, Word
    <2> HIDE DEF called, home
    <2>3. new \in CompanyRow /\ new.owner = old.owner /\ new.name = called /\ new.homepage = home
          /\ new.enabled = old.enabled /\ new.notBefore = old.notBefore
        BY <2>1, <2>2, <1>1, <1>3 DEF CompanyRow
    <2>4. old.notBefore <= old.notBefore
        BY <1>1, UniverseAssumption DEF CompanyRow
    <2>5. old.owner = "seed" => called = old.name
        BY DEF called
    <2>6. old.owner = "seed" /\ SeedHomepage # "none" => home = old.homepage
        BY <1>1 DEF home
    <2> QED BY <2>3, <2>4, <2>5, <2>6, <1>1, <1>5 DEF RowStands
<1> QED BY <1>4, <1>5

LEMMA SeedStands ==
    ASSUME UniverseInv, NEW c \in Company,
           NEW new, new = [companies[c] EXCEPT !.owner = "seed", !.name = "seed",
                               !.homepage = SeedHomepage, !.primary = SeedPrimary,
                               !.enabled = TRUE, !.notBefore = SeedSchedule(companies[c])]
    PROVE  RowStands(companies[c], new)
<1> DEFINE due == SeedSchedule(companies[c])
<1>1. companies[c] \in CompanyRow /\ day \in 0..MaxDay
      /\ (companies[c].owner = "absent" => ~companies[c].enabled)
    BY DEF UniverseInv, UniverseTypeOK, OriginsAgree
<1>2. due \in 0..MaxDay /\ (companies[c].owner # "absent" => due <= companies[c].notBefore)
    BY <1>1, UniverseAssumption DEF SeedSchedule, CompanyRow
<1> HIDE DEF due
<1>3. SeedHomepage \in Word /\ "seed" \in Word /\ SeedPrimary \in Listing \cup {"none"}
    BY UniverseAssumption DEF Word
<1>4. new = [companies[c] EXCEPT !.owner = "seed", !.name = "seed", !.homepage = SeedHomepage,
                                 !.primary = SeedPrimary, !.enabled = TRUE, !.notBefore = due]
    BY DEF due
<1>5. new \in CompanyRow /\ new.owner = "seed" /\ new.name = "seed" /\ new.homepage = SeedHomepage
      /\ new.enabled /\ new.notBefore = due
    BY <1>1, <1>2, <1>3, <1>4 DEF CompanyRow
<1> QED BY <1>1, <1>2, <1>5 DEF RowStands

\* No source id is given to another company.
MappingStands == \A id \in SourceId : externals[id] # "none" => externals'[id] = externals[id]

RowsStand == \A c \in Company : RowStands(companies[c], companies'[c])

LEMMA ClassifiedShape ==
    ASSUME NEW d, NEW c
    PROVE  Classified(d, c) \in ImportAction
BY DEF Classified, ImportAction

LEMMA ReadKeepsUniverse ==
    ASSUME UniverseInv, NEW i \in Importer, NEW d \in Document, ReadUniverse(i, d)
    PROVE  UniverseInv' /\ RowsStand /\ MappingStands
<1> DEFINE actions == [c \in Company |-> Classified(d, c)]
<1>1. actions \in [Company -> ImportAction]
    BY ClassifiedShape
<1> HIDE DEF actions
<1>2. importers' = [importers EXCEPT ![i] = [document |-> d, actions |-> actions]]
    BY DEF ReadUniverse, actions
<1>3. importers' \in [Importer -> Importing]
    BY <1>1, <1>2 DEF UniverseInv, UniverseTypeOK, Importing
<1>4. UNCHANGED <<companies, externals, imports, waves, day>>
    BY DEF ReadUniverse
<1>5. UniverseTypeOK'
    BY <1>3, <1>4 DEF UniverseInv, UniverseTypeOK
<1> QED BY <1>4, <1>5, KeptRowsStand, UniverseStands
        DEF RowsStand, MappingStands, UniverseInv, UniverseTypeOK, LockedCompanies

LEMMA AbortKeepsUniverse ==
    ASSUME UniverseInv, NEW i \in Importer, AbortImport(i)
    PROVE  UniverseInv' /\ RowsStand /\ MappingStands
<1>1. Idle \in Importing
    BY DEF Idle, Importing, ImportAction
<1>2. importers' \in [Importer -> Importing]
    BY <1>1 DEF AbortImport, UniverseInv, UniverseTypeOK
<1>3. UNCHANGED <<companies, externals, imports, waves, day>>
    BY DEF AbortImport
<1>4. UniverseTypeOK'
    BY <1>2, <1>3 DEF UniverseInv, UniverseTypeOK
<1> QED BY <1>3, <1>4, KeptRowsStand, UniverseStands
        DEF RowsStand, MappingStands, UniverseInv, UniverseTypeOK

LEMMA CommitKeepsUniverse ==
    ASSUME UniverseInv, NEW i \in Importer, CommitUniverse(i)
    PROVE  UniverseInv' /\ RowsStand /\ MappingStands
<1> DEFINE d == importers[i].document
<1>1. d \in Document /\ importers[i].actions \in [Company -> ImportAction]
    BY DEF UniverseInv, UniverseTypeOK, Importing, CommitUniverse
<1>2. PICK activate \in BOOLEAN :
         companies' = [c \in Company |->
             IF c \in CompaniesOf(d)
             THEN Upserted([company |-> c, row |-> companies[c]], d, activate)
             ELSE companies[c]]
    BY DEF CommitUniverse
<1>3. RowsStand
    BY <1>1, <1>2, UpsertStands, KeptRowsStand DEF RowsStand
<1>4. companies' \in [Company -> CompanyRow]
    <2>1. \A c \in Company : companies'[c] \in CompanyRow
        BY <1>3 DEF RowsStand, RowStands
    <2> QED BY <1>2, <2>1
<1>5. \A c \in LockedCompanies : companies'[c] = companies[c]
    <2> SUFFICES ASSUME NEW c \in LockedCompanies PROVE companies'[c] = companies[c]
        OBVIOUS
    <2>1. c \notin CompaniesOf(d)
        BY DEF CommitUniverse
    <2>2. c \in Company
        BY DEF LockedCompanies, LockedBy, Released, UniverseInv, UniverseTypeOK
    <2> QED BY <1>2, <2>1, <2>2
<1>6. /\ externals' \in [SourceId -> Company \cup {"none"}]
      /\ MappingStands
    <2>1. \A r \in RowsOf[d] : r.company \in Company
        BY <1>1, UniverseAssumption DEF ValidDocument, UniverseRow
    <2>2. externals' = [id \in SourceId |->
               IF externals[id] = "none" /\ \E r \in RowsOf[d] : r.id = id
               THEN (CHOOSE r \in RowsOf[d] : r.id = id).company ELSE externals[id]]
        BY DEF CommitUniverse, Mapped
    <2>3. \A id \in SourceId : externals'[id] \in Company \cup {"none"}
        BY <2>1, <2>2 DEF UniverseInv, UniverseTypeOK
    <2> QED BY <2>2, <2>3 DEF MappingStands
<1>7. imports' \in [Document -> ImportRow]
    <2>1. imports' = [imports EXCEPT ![d] = [recorded |-> TRUE, actions |-> importers[i].actions]]
        BY DEF CommitUniverse
    <2> QED BY <1>1, <2>1 DEF ImportRow, UniverseInv, UniverseTypeOK
<1>8. importers' \in [Importer -> Importing]
    <2>1. Idle \in Importing
        BY DEF Idle, Importing, ImportAction
    <2> QED BY <2>1 DEF CommitUniverse, UniverseInv, UniverseTypeOK
<1>9. UNCHANGED <<waves, day>>
    BY DEF CommitUniverse
<1>10. UniverseTypeOK'
    BY <1>4, <1>6, <1>7, <1>8, <1>9 DEF UniverseInv, UniverseTypeOK
<1> QED BY <1>3, <1>4, <1>5, <1>6, <1>9, <1>10, UniverseStands DEF RowsStand, UniverseInv

LEMMA SeedsKeepUniverse ==
    ASSUME UniverseInv, SyncSeeds
    PROVE  UniverseInv' /\ RowsStand /\ MappingStands
<1> DEFINE new(c) == [companies[c] EXCEPT !.owner = "seed", !.name = "seed",
                         !.homepage = SeedHomepage, !.primary = SeedPrimary,
                         !.enabled = TRUE, !.notBefore = SeedSchedule(companies[c])]
<1>1. companies' = [c \in Company |-> IF c \in Seeds THEN new(c) ELSE companies[c]]
    BY DEF SyncSeeds
<1>2. \A c \in Company : RowStands(companies[c], new(c))
    BY SeedStands
<1> HIDE DEF new
<1>3. RowsStand
    BY <1>1, <1>2, KeptRowsStand DEF RowsStand
<1>4. companies' \in [Company -> CompanyRow]
    <2>1. \A c \in Company : companies'[c] \in CompanyRow
        BY <1>3 DEF RowsStand, RowStands
    <2> QED BY <1>1, <2>1
<1>5. \A c \in LockedCompanies : companies'[c] = companies[c]
    <2> SUFFICES ASSUME NEW c \in LockedCompanies PROVE companies'[c] = companies[c]
        OBVIOUS
    <2>1. c \notin Seeds
        BY DEF SyncSeeds
    <2>2. c \in Company
        BY DEF LockedCompanies, LockedBy, Released, UniverseInv, UniverseTypeOK
    <2> QED BY <1>1, <2>1, <2>2
<1>6. UNCHANGED <<externals, imports, importers, waves, day>>
    BY DEF SyncSeeds
<1>7. UniverseTypeOK'
    BY <1>4, <1>6 DEF UniverseInv, UniverseTypeOK
<1> QED BY <1>3, <1>4, <1>5, <1>6, <1>7, UniverseStands DEF RowsStand, MappingStands, UniverseInv

LEMMA SelectKeepsUniverse ==
    ASSUME UniverseInv, NEW w \in Wave, SelectWave(w)
    PROVE  UniverseInv' /\ RowsStand /\ MappingStands
<1>1. PICK scope \in WaveScope, start \in 0..MaxDay, spacing \in 0..1 :
         \E rows \in SUBSET (Staged \cap scope) :
            /\ rows # {} /\ Cardinality(rows) <= WaveSize
            /\ \E place \in [rows -> 0..Cardinality(rows) - 1] :
                  /\ IsInjective(place)
                  /\ \A c \in rows : start + spacing * place[c] <= MaxDay
                  /\ waves' = [waves EXCEPT ![w] =
                        {[company |-> c, at |-> start + spacing * place[c]] : c \in rows}]
    BY DEF SelectWave
<1>2. PICK rows \in SUBSET (Staged \cap scope) :
            \E place \in [rows -> 0..Cardinality(rows) - 1] :
                  /\ \A c \in rows : start + spacing * place[c] <= MaxDay
                  /\ waves' = [waves EXCEPT ![w] =
                        {[company |-> c, at |-> start + spacing * place[c]] : c \in rows}]
    BY <1>1
<1>3. PICK place \in [rows -> 0..Cardinality(rows) - 1] :
                  /\ \A c \in rows : start + spacing * place[c] <= MaxDay
                  /\ waves' = [waves EXCEPT ![w] =
                        {[company |-> c, at |-> start + spacing * place[c]] : c \in rows}]
    BY <1>2
<1>4. UNCHANGED <<companies, externals, imports, importers, day>> /\ waves[w] = {}
    BY DEF SelectWave
<1>5. rows \subseteq Company
    BY DEF Staged
<1>6. \A c \in rows : start + spacing * place[c] \in 0..MaxDay
    <2> SUFFICES ASSUME NEW c \in rows PROVE start + spacing * place[c] \in 0..MaxDay
        OBVIOUS
    <2>1. place[c] \in 0..Cardinality(rows) - 1
        BY <1>3
    <2>2. place[c] \in Nat
        BY <2>1
    <2>3. CASE spacing = 0
        BY <2>3, <2>2, UniverseAssumption
    <2>4. CASE spacing = 1
        BY <2>4, <2>2, <1>3, UniverseAssumption
    <2> QED BY <2>3, <2>4
<1> DEFINE picked == {[company |-> c, at |-> start + spacing * place[c]] : c \in rows}
<1>7. picked \subseteq Released /\ \A r \in picked : r.company \in rows
    BY <1>5, <1>6 DEF Released
<1>8. waves' = [waves EXCEPT ![w] = picked]
    BY <1>3
<1> HIDE DEF picked
<1>9. waves' \in [Wave -> SUBSET Released]
    BY <1>7, <1>8 DEF UniverseInv, UniverseTypeOK
<1>10. UniverseTypeOK'
    BY <1>4, <1>9 DEF UniverseInv, UniverseTypeOK
<1>11. \A v \in Wave : v # w => waves'[v] = waves[v] /\ LockedBy(v)' = LockedBy(v)
    BY <1>8 DEF LockedBy
<1>12. LockedBy(w)' \subseteq rows
    <2>1. waves'[w] = picked
        BY <1>8 DEF UniverseInv, UniverseTypeOK
    <2> QED BY <1>7, <2>1 DEF LockedBy
<1>13. \A c \in rows : Present(c) /\ ~companies[c].enabled /\ c \notin LockedCompanies
    BY DEF Staged
<1>14. WavesHold'
    <2>1. \A v \in Wave : \A c \in LockedBy(v)' : Present(c)' /\ ~companies'[c].enabled
        BY <1>4, <1>11, <1>12, <1>13 DEF UniverseInv, WavesHold, Present
    <2>2. \A v \in Wave : LockedBy(v) \cap rows = {}
        BY <1>13 DEF LockedCompanies
    <2>3. \A v, u \in Wave : v # u => LockedBy(v)' \cap LockedBy(u)' = {}
        BY <2>2, <1>11, <1>12 DEF UniverseInv, WavesHold
    <2> QED BY <2>1, <2>3 DEF WavesHold
<1>15. OriginsAgree'
    BY <1>4 DEF UniverseInv, OriginsAgree
<1> QED BY <1>4, <1>10, <1>14, <1>15, KeptRowsStand DEF RowsStand, MappingStands, UniverseInv

LEMMA AbortWaveKeepsUniverse ==
    ASSUME UniverseInv, NEW w \in Wave, AbortWave(w)
    PROVE  UniverseInv' /\ RowsStand /\ MappingStands
<1>1. \A v \in Wave : waves'[v] \subseteq waves[v] /\ LockedBy(v)' \subseteq LockedBy(v)
    BY DEF AbortWave, LockedBy, UniverseInv, UniverseTypeOK
<1>2. UNCHANGED <<companies, externals, imports, importers, day>>
    BY DEF AbortWave
<1>3. UniverseTypeOK'
    <2>1. waves' \in [Wave -> SUBSET Released]
        BY DEF AbortWave, UniverseInv, UniverseTypeOK
    <2> QED BY <2>1, <1>2 DEF UniverseInv, UniverseTypeOK
<1>4. WavesHold' /\ OriginsAgree'
    BY <1>1, <1>2 DEF UniverseInv, WavesHold, OriginsAgree, Present
<1> QED BY <1>2, <1>3, <1>4, KeptRowsStand DEF RowsStand, MappingStands, UniverseInv

LEMMA ReleaseStands ==
    ASSUME UniverseInv, NEW w \in Wave, NEW c \in LockedBy(w), NEW at \in 0..MaxDay,
           NEW new, new = [companies[c] EXCEPT !.enabled = TRUE, !.notBefore = at]
    PROVE  RowStands(companies[c], new)
<1>1. c \in Company
    BY DEF LockedBy, Released, UniverseInv, UniverseTypeOK
<1>2. companies[c] \in CompanyRow /\ ~companies[c].enabled /\ companies[c].owner # "absent"
    BY <1>1 DEF UniverseInv, UniverseTypeOK, WavesHold, Present
<1>3. companies[c].owner = "seed" => /\ companies[c].name = "seed"
                                     /\ companies[c].homepage = SeedHomepage \/ SeedHomepage = "none"
    BY <1>1 DEF UniverseInv, OriginsAgree
<1>4. /\ new \in CompanyRow /\ new.owner = companies[c].owner /\ new.name = companies[c].name
      /\ new.homepage = companies[c].homepage
    BY <1>2 DEF CompanyRow
<1> QED BY <1>2, <1>3, <1>4 DEF RowStands

LEMMA CommitWaveKeepsUniverse ==
    ASSUME UniverseInv, NEW w \in Wave, CommitWave(w)
    PROVE  UniverseInv' /\ RowsStand /\ MappingStands
<1>1. waves[w] \subseteq Released
    BY DEF UniverseInv, UniverseTypeOK
<1> DEFINE time(c) == (CHOOSE r \in waves[w] : r.company = c).at
<1>2. \A c \in LockedBy(w) : c \in Company /\ time(c) \in 0..MaxDay
    BY <1>1 DEF LockedBy, Released
<1>3. companies' = [c \in Company |->
           IF c \in LockedBy(w) THEN [companies[c] EXCEPT !.enabled = TRUE, !.notBefore = time(c)]
           ELSE companies[c]]
    <2>1. \A c \in Company : c \in LockedBy(w) <=> \E r \in waves[w] : r.company = c
        BY DEF LockedBy
    <2> QED BY <2>1 DEF CommitWave
<1> HIDE DEF time
<1>4. \A c \in LockedBy(w) :
         RowStands(companies[c], [companies[c] EXCEPT !.enabled = TRUE, !.notBefore = time(c)])
    <2> SUFFICES ASSUME NEW c \in LockedBy(w)
                 PROVE  RowStands(companies[c],
                            [companies[c] EXCEPT !.enabled = TRUE, !.notBefore = time(c)])
        OBVIOUS
    <2>1. time(c) \in 0..MaxDay
        BY <1>2
    <2> QED BY <2>1, ReleaseStands
<1>5. RowsStand
    BY <1>3, <1>4, KeptRowsStand DEF RowsStand
<1>6. companies' \in [Company -> CompanyRow]
    <2>1. \A c \in Company : companies'[c] \in CompanyRow
        BY <1>5 DEF RowsStand, RowStands
    <2> QED BY <1>3, <2>1
<1>7. UNCHANGED <<externals, imports, importers, day>> /\ waves' = [waves EXCEPT ![w] = {}]
    BY DEF CommitWave
<1>8. \A v \in Wave : waves'[v] \subseteq waves[v] /\ LockedBy(v)' \subseteq LockedBy(v)
    BY <1>7 DEF LockedBy
<1>9. UniverseTypeOK'
    BY <1>6, <1>7, <1>8 DEF UniverseInv, UniverseTypeOK
<1>10. OriginsAgree'
    BY <1>5 DEF RowsStand, RowStands, OriginsAgree
<1>11. WavesHold'
    <2>1. LockedBy(w)' = {}
        BY <1>7 DEF LockedBy, UniverseInv, UniverseTypeOK
    <2>2. ASSUME NEW v \in Wave, NEW c \in LockedBy(v)'
          PROVE  Present(c)' /\ ~companies'[c].enabled
        <3>1. v # w /\ c \in LockedBy(v)
            BY <2>1, <1>8
        <3>2. c \notin LockedBy(w) /\ Present(c) /\ ~companies[c].enabled
            BY <3>1 DEF UniverseInv, WavesHold
        <3>3. c \in Company
            BY <3>1 DEF LockedBy, Released, UniverseInv, UniverseTypeOK
        <3> QED BY <1>3, <3>2, <3>3 DEF Present
    <2> QED BY <2>2, <1>8 DEF UniverseInv, WavesHold
<1> QED BY <1>5, <1>7, <1>9, <1>10, <1>11 DEF MappingStands, UniverseInv

LEMMA DayKeepsUniverse ==
    ASSUME UniverseInv, UNCHANGED <<companies, externals, imports, importers, waves>>,
           day' \in 0..MaxDay
    PROVE  UniverseInv' /\ RowsStand /\ MappingStands
<1>1. UniverseTypeOK'
    BY DEF UniverseInv, UniverseTypeOK
<1>2. WavesHold' /\ OriginsAgree'
    BY DEF UniverseInv, WavesHold, OriginsAgree, Present, LockedBy
<1> QED BY <1>1, <1>2, KeptRowsStand DEF RowsStand, MappingStands, UniverseInv

LEMMA StepUniverseInv ==
    ASSUME UniverseInv, [UniverseNext]_universeVars
    PROVE  UniverseInv' /\ RowsStand /\ MappingStands
<1>1. CASE \E i \in Importer : \/ \E d \in Document : ReadUniverse(i, d)
                               \/ CommitUniverse(i) \/ AbortImport(i)
    BY <1>1, ReadKeepsUniverse, CommitKeepsUniverse, AbortKeepsUniverse
<1>2. CASE \E w \in Wave : SelectWave(w) \/ CommitWave(w) \/ AbortWave(w)
    BY <1>2, SelectKeepsUniverse, CommitWaveKeepsUniverse, AbortWaveKeepsUniverse
<1>3. CASE SyncSeeds
    BY <1>3, SeedsKeepUniverse
<1>4. CASE PassDay
    <2>1. day' \in 0..MaxDay
        BY <1>4, UniverseAssumption DEF PassDay, UniverseInv, UniverseTypeOK
    <2> QED BY <1>4, <2>1, DayKeepsUniverse DEF PassDay
<1>5. CASE UNCHANGED universeVars
    <2>1. UNCHANGED <<companies, externals, imports, importers, waves>> /\ day' \in 0..MaxDay
        BY <1>5 DEF universeVars, UniverseInv, UniverseTypeOK
    <2> QED BY <2>1, DayKeepsUniverse
<1> QED BY <1>1, <1>2, <1>3, <1>4, <1>5 DEF UniverseNext

LEMMA InitUniverseInv == UniverseInit => UniverseInv
<1> SUFFICES ASSUME UniverseInit PROVE UniverseInv
    OBVIOUS
<1>1. 0 \in 0..MaxDay
    BY UniverseAssumption
<1>2. NoCompany \in CompanyRow
    BY <1>1 DEF NoCompany, CompanyRow, Word
<1>3. UniverseTypeOK
    BY <1>1, <1>2 DEF UniverseInit, UniverseTypeOK, ImportRow, Importing, Idle, ImportAction
<1>4. WavesHold /\ OriginsAgree
    BY DEF UniverseInit, WavesHold, OriginsAgree, LockedBy, NoCompany
<1> QED BY <1>3, <1>4 DEF UniverseInv

LEMMA UniverseInvHolds == UniverseSpec => []UniverseInv
<1>1. UniverseInv /\ [UniverseNext]_universeVars => UniverseInv'
    BY StepUniverseInv
<1> QED BY <1>1, InitUniverseInv, PTL DEF UniverseSpec

\* Companies, mappings, transactions and audit rows of an import keep their types, for all
\* documents, seeds and commands.
THEOREM UniverseIsTyped == UniverseSpec => []UniverseTypeOK
<1>1. UniverseInv => UniverseTypeOK
    BY DEF UniverseInv
<1> QED BY <1>1, UniverseInvHolds, PTL

\* Imports, waves and workers that start undo nothing of what was decided about a company: it stays
\* released, its day is at most brought forward, its name and homepage stay the seed configuration's,
\* a source id stays with its company.  (Its primary listing does not: SeedPrimaryStands.)
THEOREM UniverseDecisionsStand == UniverseSpec => DecisionsStand
<1>1. UniverseInv /\ [UniverseNext]_universeVars =>
        [/\ \A c \in Company :
              /\ companies[c].enabled =>
                    companies'[c].enabled /\ companies'[c].notBefore <= companies[c].notBefore
              /\ companies[c].owner = "seed" =>
                    /\ companies'[c].name = companies[c].name
                    /\ companies[c].homepage # "none" => SeedHomepage = "none" \/
                          companies'[c].homepage = companies[c].homepage
         /\ \A id \in SourceId : externals[id] # "none" => externals'[id] = externals[id]]_universeVars
    <2> SUFFICES ASSUME UniverseInv, [UniverseNext]_universeVars
                 PROVE  /\ \A c \in Company :
                             /\ companies[c].enabled =>
                                   companies'[c].enabled /\ companies'[c].notBefore <= companies[c].notBefore
                             /\ companies[c].owner = "seed" =>
                                   /\ companies'[c].name = companies[c].name
                                   /\ companies'[c].homepage = companies[c].homepage \/ SeedHomepage = "none"
                        /\ \A id \in SourceId : externals[id] # "none" => externals'[id] = externals[id]
        OBVIOUS
    <2>1. RowsStand /\ MappingStands
        BY StepUniverseInv
    <2>2. \A c \in Company : companies[c].owner = "seed" => companies'[c].owner = "seed"
        BY <2>1 DEF RowsStand, RowStands
    <2> QED BY <2>1, <2>2 DEF RowsStand, RowStands, MappingStands, UniverseInv, OriginsAgree
<1> QED BY <1>1, UniverseInvHolds, PTL DEF UniverseSpec, DecisionsStand

-----------------------------------------------------------------------------
(* CrawlGates *)

\* The reasons of a report name every threshold that its articles miss.
Sound(report) == report \in Report /\ Shortfalls(report) \subseteq report.reasons

InCompanyScope(o, report) == registry[o].scopeRequired => \A s \in Kept(report) : Mentions(o, s)

Uncontested(o, report, claims) ==
    \A s \in Kept(report) : \A r \in Outlet :
        <<r, s>> \in claims /\ Distinct(o, r) => <<s, r>> \in registry[o].scoped

\* What each gate leaves for the next ones.
GateHolds(o, gate) ==
    /\ gate \in Gate
    /\ gate.at = "weighed" => HasRecipe(o)
    /\ HasRecipe(o) /\ gate.at \in {"fetched", "claimed", "judged", "weighed", "publishing"} =>
          Sound(gate.report) /\ InCompanyScope(o, gate.report)
    /\ gate.at = "publishing" =>
          InCompanyScope(o, gate.report) /\ (HasRecipe(o) => gate.report.reasons = {})
    /\ gate.at \in {"judged", "weighed", "publishing"} => Uncontested(o, gate.report, gate.claims)

GatesInv ==
    /\ registry \in Registries
    /\ live \subseteq Outlet
    /\ articles \in [Outlet -> [Story -> Article]]
    /\ gates \in [Outlet -> Gate]
    /\ \A o \in Outlet : GateHolds(o, gates[o])

LEMMA ReasonsLeaveArticles ==
    ASSUME NEW report \in Report, NEW why \in SUBSET Reason
    PROVE  /\ Because(report, why) \in Report
           /\ Because(report, why).seen = report.seen
           /\ Because(report, why).reasons = report.reasons \cup why
           /\ Kept(Because(report, why)) = Kept(report)
           /\ Shortfalls(Because(report, why)) = Shortfalls(report)
<1>1. /\ Because(report, why) \in Report
      /\ Because(report, why).seen = report.seen
      /\ Because(report, why).reasons = report.reasons \cup why
    BY DEF Because, Report
<1>2. Kept(Because(report, why)) = Kept(report) /\ FoundIn(Because(report, why)) = FoundIn(report)
    BY <1>1 DEF Kept, FoundIn
<1> QED BY <1>1, <1>2 DEF Shortfalls

LEMMA ShortfallsAreReasons ==
    ASSUME NEW report
    PROVE  Shortfalls(report) \subseteq Threshold /\ Threshold \subseteq Reason
BY DEF Shortfalls, Threshold, Recomputed, Reason

LEMMA RecomputedIsSound ==
    ASSUME NEW report \in Report
    PROVE  Sound(Recompute(report)) /\ Kept(Recompute(report)) = Kept(report)
<1>1. /\ Recompute(report) \in Report
      /\ Recompute(report).seen = report.seen
      /\ Shortfalls(report) \subseteq Recompute(report).reasons
    BY ShortfallsAreReasons DEF Recompute, Report
<1>2. Kept(Recompute(report)) = Kept(report) /\ FoundIn(Recompute(report)) = FoundIn(report)
    BY <1>1 DEF Kept, FoundIn
<1>3. Shortfalls(Recompute(report)) = Shortfalls(report)
    BY <1>2 DEF Shortfalls
<1> QED BY <1>1, <1>2, <1>3 DEF Sound

LEMMA TakenOut ==
    ASSUME NEW report \in Report, NEW stories, NEW why \in Seen \ {"kept", "unseen"}
    PROVE  /\ TakeOut(report, stories, why) \in Report
           /\ Kept(TakeOut(report, stories, why)) = Kept(report) \ stories
           /\ FoundIn(TakeOut(report, stories, why)) = FoundIn(report)
           /\ TakeOut(report, stories, why).reasons = report.reasons
<1>1. /\ TakeOut(report, stories, why) \in Report
      /\ TakeOut(report, stories, why).reasons = report.reasons
      /\ TakeOut(report, stories, why).seen =
            [s \in Story |-> IF s \in stories /\ report.seen[s] = "kept" THEN why ELSE report.seen[s]]
    BY DEF TakeOut, Report
<1> QED BY <1>1 DEF Kept, FoundIn

LEMMA FetchedIsSound ==
    ASSUME GatesAssumption, NEW page \in [Story -> FetchResult]
    PROVE  Sound(Fetched(page))
<1> DEFINE report == [seen |-> page, reasons |-> {}]
<1>1. report \in Report
    BY DEF Report, Seen
<1>2. Shortfalls(report) \in SUBSET Reason
    BY ShortfallsAreReasons
<1>3. Fetched(page) = Because(report, Shortfalls(report))
    BY DEF Fetched
<1> HIDE DEF report
<1> QED BY <1>1, <1>2, <1>3, ReasonsLeaveArticles DEF Sound

LEMMA BecauseIsSound ==
    ASSUME NEW report, Sound(report), NEW why \in SUBSET Reason
    PROVE  Sound(Because(report, why)) /\ Kept(Because(report, why)) = Kept(report)
BY ReasonsLeaveArticles DEF Sound

LEMMA InScopeIsSound ==
    ASSUME NEW o \in Outlet, NEW report, Sound(report)
    PROVE  Sound(InScope(o, report)) /\ InCompanyScope(o, InScope(o, report))
<1> DEFINE foreign == {s \in Story : ~Mentions(o, s)}
           filtered == Recompute(TakeOut(report, foreign, "scope"))
<1>1. report \in Report /\ "scope" \in Seen \ {"kept", "unseen"}
    BY DEF Sound, Seen, FetchResult
<1>2. Sound(filtered) /\ Kept(filtered) = Kept(report) \ foreign
    BY <1>1, TakenOut, RecomputedIsSound
<1>3. \A s \in Kept(filtered) : Mentions(o, s)
    BY <1>2 DEF Kept
<1>4. CASE ~registry[o].scopeRequired
    BY <1>4 DEF InScope, InCompanyScope
<1>5. CASE registry[o].scopeRequired
    <2> DEFINE relevance == RatioBps(Cardinality(Kept(filtered)), Cardinality(Kept(report)))
               why == IF Kept(report) # {} /\ relevance < 5000 THEN {"relevance"} ELSE {}
    <2>1. InScope(o, report) = Because(filtered, why)
        BY <1>5 DEF InScope
    <2>2. why \in SUBSET Reason
        BY DEF Reason, Recomputed
    <2> HIDE DEF filtered, why
    <2> QED BY <1>2, <1>3, <2>1, <2>2, BecauseIsSound DEF InCompanyScope
<1> QED BY <1>4, <1>5

\* What the gates leave out cannot bring an article from outside of the scope back in.
LEMMA FewerStayInScope ==
    ASSUME NEW o, NEW report, InCompanyScope(o, report), NEW narrowed, Kept(narrowed) \subseteq Kept(report)
    PROVE  InCompanyScope(o, narrowed)
BY DEF InCompanyScope

LEMMA NamespaceIsSound ==
    ASSUME NEW report \in Report, NEW out
    PROVE  Sound(InNamespace(report, out)) /\ Kept(InNamespace(report, out)) \subseteq Kept(report)
<1> DEFINE taken == TakeOut(report, out, "artifact")
<1>1. "artifact" \in Seen \ {"kept", "unseen"}
    BY DEF Seen, FetchResult
<1>2. taken \in Report /\ Kept(taken) = Kept(report) \ out
    BY <1>1, TakenOut
<1>3. InNamespace(report, out) = Recompute(taken)
    BY DEF InNamespace
<1> HIDE DEF taken
<1> QED BY <1>2, <1>3, RecomputedIsSound

LEMMA CompromisedIsSound ==
    ASSUME NEW report \in Report
    PROVE  Sound(Compromised(report)) /\ Kept(Compromised(report)) \subseteq Kept(report)
<1> DEFINE taken == TakeOut(report, Story, "topic")
           recomputed == Recompute(taken)
<1>1. "topic" \in Seen \ {"kept", "unseen"} /\ {"topic"} \in SUBSET Reason
    BY DEF Seen, FetchResult, Reason
<1>2. taken \in Report /\ Kept(taken) = Kept(report) \ Story
    BY <1>1, TakenOut
<1>3. Sound(recomputed) /\ Kept(recomputed) \subseteq Kept(report)
    <2> HIDE DEF taken
    <2> QED BY <1>2, RecomputedIsSound
<1>4. Compromised(report) = Because(recomputed, {"topic"})
    BY DEF Compromised
<1> HIDE DEF recomputed
<1> QED BY <1>1, <1>3, <1>4, BecauseIsSound

\* An action sets one gate and leaves the registry alone.
LEMMA OneGateMoves ==
    ASSUME GatesInv, NEW o \in Outlet, NEW gate, GateHolds(o, gate),
           gates' = [gates EXCEPT ![o] = gate], registry' = registry,
           live' \subseteq Outlet, articles' \in [Outlet -> [Story -> Article]]
    PROVE  GatesInv'
<1>1. gates' \in [Outlet -> Gate]
    BY DEF GatesInv, GateHolds
<1>2. \A x \in Outlet : GateHolds(x, gates'[x])
    BY DEF GatesInv
<1>3. \A x : GateHolds(x, gates'[x]) => GateHolds(x, gates[x])'
    BY DEF GateHolds, HasRecipe, InCompanyScope, Mentions, Uncontested, Distinct
<1> QED BY <1>1, <1>2, <1>3 DEF GatesInv

LEMMA AdvanceSetsGate ==
    ASSUME GatesInv, NEW o \in Outlet, NEW stage, NEW report, Advance(o, stage, report)
    PROVE  gates' = [gates EXCEPT ![o] = [at |-> stage, report |-> report, claims |-> gates[o].claims]]
BY DEF Advance, GatesInv

LEMMA ClosedHolds ==
    ASSUME NEW o \in Outlet
    PROVE  GateHolds(o, Closed) /\ Blank \in Report
<1>1. Blank \in Report /\ Closed \in Gate
    BY DEF Closed, Blank, Gate, Stage, Report, Seen, FetchResult
<1> QED BY <1>1 DEF GateHolds, Closed

LEMMA ItemsKeepTypes ==
    ASSUME GatesInv, NEW o \in Outlet, NEW items
    PROVE  Withhold(o) \in [Outlet -> [Story -> Article]] /\ GiveWay(items) \in [Outlet -> [Story -> Article]]
BY DEF GatesInv, Withhold, GiveWay, Article

LEMMA BeginFetchKeepsGates ==
    ASSUME GatesInv, NEW o \in Outlet, BeginFetch(o)
    PROVE  GatesInv'
<1> DEFINE why == IF HasRecipe(o) THEN Ownership(o) ELSE {}
           gate == [at |-> "fetching", report |-> Because(Blank, why), claims |-> gates[o].claims]
<1>1. why \in SUBSET Reason
    BY DEF Ownership, Reason
<1>2. Because(Blank, why) \in Report
    <2> HIDE DEF why
    <2> QED BY <1>1, ClosedHolds, ReasonsLeaveArticles
<1>3. gates' = [gates EXCEPT ![o] = gate]
    BY AdvanceSetsGate DEF BeginFetch
<1>4. GateHolds(o, gate)
    <2>1. gates[o].claims \in SUBSET (Outlet \X Story)
        BY DEF GatesInv, Gate
    <2> HIDE DEF why
    <2> QED BY <1>2, <2>1 DEF GateHolds, Gate, Stage
<1> HIDE DEF gate
<1> QED BY <1>3, <1>4, OneGateMoves DEF BeginFetch, GatesInv

LEMMA FetchedHolds ==
    ASSUME GatesInv, NEW o \in Outlet, NEW report, Sound(report), InCompanyScope(o, report),
           NEW next \in Report, next = Because(report, gates[o].report.reasons)
    PROVE  GateHolds(o, [at |-> "fetched", report |-> next, claims |-> gates[o].claims])
<1>1. gates[o].claims \in SUBSET (Outlet \X Story) /\ gates[o].report.reasons \in SUBSET Reason
    BY DEF GatesInv, Gate, Report
<1>2. Sound(next) /\ Kept(next) = Kept(report)
    BY <1>1, BecauseIsSound
<1>3. InCompanyScope(o, next)
    BY <1>2 DEF InCompanyScope
<1> QED BY <1>1, <1>2, <1>3 DEF GateHolds, Gate, Stage

LEMMA FetchRecipeKeepsGates ==
    ASSUME GatesAssumption, GatesInv, NEW o \in Outlet, NEW page \in Fetches, FetchRecipe(o, page)
    PROVE  GatesInv'
<1> DEFINE scoped == InScope(o, Fetched(page))
           reasons == gates[o].report.reasons
<1>1. page \in [Story -> FetchResult]
    BY DEF GatesAssumption
<1>2. Sound(scoped) /\ InCompanyScope(o, scoped)
    BY <1>1, FetchedIsSound, InScopeIsSound
<1>3. reasons \in SUBSET Reason
    BY DEF GatesInv, Gate, Report
<1>4. PICK narrowed \in {scoped} \cup {InNamespace(scoped, out) : out \in Outside(scoped)} :
        \/ Advance(o, "fetched", Because(narrowed, reasons)) /\ UNCHANGED articles
        \/ Advance(o, "fetched", Because(Compromised(narrowed), reasons)) /\ articles' = Withhold(o)
    BY DEF FetchRecipe
<1>5. registry' = registry /\ live' = live
    BY DEF FetchRecipe
<1>6. Sound(narrowed) /\ InCompanyScope(o, narrowed)
    <2> HIDE DEF scoped
    <2>1. CASE narrowed = scoped
        BY <1>2, <2>1
    <2>2. CASE \E out \in Outside(scoped) : narrowed = InNamespace(scoped, out)
        BY <1>2, <2>2, NamespaceIsSound, FewerStayInScope DEF Sound
    <2> QED BY <1>4, <2>1, <2>2
<1>7. PICK report : /\ Sound(report) /\ InCompanyScope(o, report)
                    /\ Advance(o, "fetched", Because(report, reasons))
                    /\ articles' \in [Outlet -> [Story -> Article]]
    <2>1. CASE Advance(o, "fetched", Because(narrowed, reasons)) /\ UNCHANGED articles
        BY <1>6, <2>1 DEF GatesInv
    <2>2. CASE Advance(o, "fetched", Because(Compromised(narrowed), reasons)) /\ articles' = Withhold(o)
        <3>1. Sound(Compromised(narrowed)) /\ InCompanyScope(o, Compromised(narrowed))
            BY <1>6, CompromisedIsSound, FewerStayInScope DEF Sound
        <3> QED BY <2>2, <3>1, ItemsKeepTypes
    <2> QED BY <1>4, <2>1, <2>2
<1> DEFINE next == Because(report, reasons)
           gate == [at |-> "fetched", report |-> next, claims |-> gates[o].claims]
<1>8. next \in Report
    BY <1>3, <1>7, ReasonsLeaveArticles DEF Sound
<1>9. GateHolds(o, gate)
    BY <1>7, <1>8, FetchedHolds
<1>10. gates' = [gates EXCEPT ![o] = gate]
    BY <1>7, AdvanceSetsGate
<1> HIDE DEF gate
<1> QED BY <1>5, <1>7, <1>9, <1>10, OneGateMoves DEF GatesInv

\* A gate that holds before a step to the same or a closed state of it holds after it.
LEMMA CloseKeepsGates ==
    ASSUME GatesInv, NEW o \in Outlet, gates' = [gates EXCEPT ![o] = Closed], registry' = registry,
           live' \subseteq Outlet, articles' \in [Outlet -> [Story -> Article]]
    PROVE  GatesInv'
<1> HIDE DEF Closed
<1> QED BY ClosedHolds, OneGateMoves

LEMMA FetchFeedKeepsGates ==
    ASSUME GatesAssumption, GatesInv, NEW o \in Outlet, NEW page \in Fetches, FetchFeed(o, page)
    PROVE  GatesInv'
<1>1. [seen |-> page, reasons |-> {}] \in Report
    BY DEF GatesAssumption, Report, Seen
<1>2. PICK stage \in {"fetched", "failing"}, report \in Report :
        Advance(o, stage, report) /\ articles' \in [Outlet -> [Story -> Article]]
    BY <1>1, ClosedHolds, ItemsKeepTypes DEF FetchFeed, GatesInv
<1> DEFINE gate == [at |-> stage, report |-> report, claims |-> gates[o].claims]
<1>3. gates' = [gates EXCEPT ![o] = gate]
    BY <1>2, AdvanceSetsGate
<1>4. GateHolds(o, gate)
    BY DEF GateHolds, Gate, Stage, GatesInv, FetchFeed
<1> HIDE DEF gate
<1> QED BY <1>2, <1>3, <1>4, OneGateMoves DEF FetchFeed, GatesInv

LEMMA ReadClaimsKeepsGates ==
    ASSUME GatesInv, NEW o \in Outlet, ReadClaims(o)
    PROVE  GatesInv'
<1> DEFINE claims == {c \in live \X Kept(gates[o].report) : articles[c[1]][c[2]] = "public"}
           gate == [at |-> "claimed", report |-> gates[o].report, claims |-> claims]
<1>1. gates' = [gates EXCEPT ![o] = gate]
    BY DEF ReadClaims
<1>2. claims \in SUBSET (Outlet \X Story)
    BY DEF GatesInv, Kept
<1>3. GateHolds(o, gate)
    <2> HIDE DEF claims
    <2> QED BY <1>2 DEF GateHolds, Gate, Stage, GatesInv, ReadClaims
<1> HIDE DEF gate
<1> QED BY <1>1, <1>3, OneGateMoves DEF ReadClaims, GatesInv

\* What is kept after the claims are settled names its company against everyone who has it.
LEMMA SettledIsUncontested ==
    ASSUME NEW o \in Outlet, NEW settled, Kept(settled) \subseteq Kept(gates[o].report) \ Rejected(o)
    PROVE  Uncontested(o, settled, gates[o].claims)
<1> SUFFICES ASSUME NEW s \in Kept(settled), NEW r \in Outlet,
                    <<r, s>> \in gates[o].claims, Distinct(o, r)
             PROVE  <<s, r>> \in registry[o].scoped
    BY DEF Uncontested
<1>1. r \in Claimants(o, s, gates[o].claims)
    BY DEF Claimants
<1>2. IsScoped(o, s, Claimants(o, s, gates[o].claims))
    BY <1>1 DEF Rejected
<1> QED BY <1>1, <1>2 DEF IsScoped

LEMMA SettleClaimsKeepsGates ==
    ASSUME GatesInv, NEW o \in Outlet, SettleClaims(o)
    PROVE  GatesInv'
<1> DEFINE report == gates[o].report
           settled == TakeOut(report, Rejected(o), "cross")
           next == IF HasRecipe(o) /\ Rejected(o) # {} THEN Recompute(settled) ELSE settled
           gate == [at |-> "judged", report |-> next, claims |-> gates[o].claims]
<1>1. /\ report \in Report /\ gates[o].claims \in SUBSET (Outlet \X Story)
      /\ "cross" \in Seen \ {"kept", "unseen"}
    BY DEF GatesInv, Gate, Seen, FetchResult
<1>2. /\ settled \in Report /\ Kept(settled) = Kept(report) \ Rejected(o)
      /\ FoundIn(settled) = FoundIn(report) /\ settled.reasons = report.reasons
    BY <1>1, TakenOut
<1>3. Kept(next) = Kept(settled) /\ next \in Report
    <2> HIDE DEF settled
    <2> QED BY <1>2, RecomputedIsSound DEF Sound
<1>4. HasRecipe(o) => Sound(report) /\ InCompanyScope(o, report)
    BY DEF GatesInv, GateHolds, SettleClaims
<1>5. HasRecipe(o) => Sound(next) /\ InCompanyScope(o, next)
    <2> SUFFICES ASSUME HasRecipe(o) PROVE Sound(next) /\ InCompanyScope(o, next)
        OBVIOUS
    <2>1. InCompanyScope(o, next)
        BY <1>2, <1>3, <1>4, FewerStayInScope
    <2>2. CASE Rejected(o) = {}
        <3>1. Shortfalls(settled) = Shortfalls(report)
            BY <1>2, <2>2 DEF Shortfalls
        <3> QED BY <1>2, <1>4, <2>1, <2>2, <3>1 DEF Sound
    <2>3. CASE Rejected(o) # {}
        <3>1. next = Recompute(settled)
            BY <2>3
        <3> HIDE DEF next, settled
        <3> QED BY <1>2, <2>1, <3>1, RecomputedIsSound
    <2> QED BY <2>2, <2>3
<1>6. Uncontested(o, next, gates[o].claims)
    <2> HIDE DEF next
    <2> QED BY <1>2, <1>3, SettledIsUncontested
<1>7. gates' = [gates EXCEPT ![o] = gate] /\ articles' \in [Outlet -> [Story -> Article]]
    BY AdvanceSetsGate, ItemsKeepTypes DEF SettleClaims
<1>8. GateHolds(o, gate)
    <2> HIDE DEF next
    <2> QED BY <1>1, <1>3, <1>5, <1>6 DEF GateHolds, Gate, Stage
<1> HIDE DEF gate
<1> QED BY <1>7, <1>8, OneGateMoves DEF SettleClaims, GatesInv

LEMMA WeighRecipeKeepsGates ==
    ASSUME GatesInv, NEW o \in Outlet, WeighRecipe(o)
    PROVE  GatesInv'
<1> DEFINE report == gates[o].report
<1>1. PICK why \in SUBSET Reason : Advance(o, "weighed", Because(report, why))
    BY Zenon DEF WeighRecipe, Reason
<1> DEFINE next == Because(report, why)
           gate == [at |-> "weighed", report |-> next, claims |-> gates[o].claims]
<1>2. /\ report \in Report /\ gates[o].claims \in SUBSET (Outlet \X Story)
      /\ Sound(report) /\ InCompanyScope(o, report) /\ Uncontested(o, report, gates[o].claims)
      /\ HasRecipe(o)
    BY DEF GatesInv, Gate, GateHolds, WeighRecipe
<1>3. next \in Report /\ Sound(next) /\ Kept(next) = Kept(report)
    BY <1>2, ReasonsLeaveArticles, BecauseIsSound
<1>4. gates' = [gates EXCEPT ![o] = gate]
    BY <1>1, AdvanceSetsGate
<1>5. GateHolds(o, gate)
    <2> HIDE DEF next
    <2> QED BY <1>2, <1>3 DEF GateHolds, Gate, Stage, InCompanyScope, Uncontested
<1> HIDE DEF gate
<1> QED BY <1>4, <1>5, OneGateMoves DEF WeighRecipe, GatesInv

LEMMA WeighFeedKeepsGates ==
    ASSUME GatesInv, NEW o \in Outlet, WeighFeed(o)
    PROVE  GatesInv'
<1> DEFINE report == gates[o].report
           unnamed == {s \in Story : ~Mentions(o, s)}
           narrowed == NamingOnly(o, report)
<1>1. /\ report \in Report /\ gates[o].claims \in SUBSET (Outlet \X Story) /\ ~HasRecipe(o)
      /\ Uncontested(o, report, gates[o].claims) /\ "scope" \in Seen \ {"kept", "unseen"}
    BY DEF GatesInv, Gate, GateHolds, WeighFeed, Seen, FetchResult
<1>2. /\ narrowed \in Report /\ Kept(narrowed) \subseteq Kept(report)
      /\ InCompanyScope(o, narrowed)
    <2>1. CASE registry[o].scopeRequired
        <3>1. narrowed = TakeOut(report, unnamed, "scope")
            BY <2>1 DEF NamingOnly
        <3>2. narrowed \in Report /\ Kept(narrowed) = Kept(report) \ unnamed
            <4> HIDE DEF unnamed
            <4> QED BY <1>1, <3>1, TakenOut
        <3>3. \A s \in Kept(report) \ unnamed : Mentions(o, s)
            BY DEF Kept
        <3> HIDE DEF narrowed, unnamed
        <3> QED BY <3>2, <3>3 DEF InCompanyScope
    <2>2. CASE ~registry[o].scopeRequired
        BY <1>1, <2>2 DEF InCompanyScope, NamingOnly
    <2> QED BY <2>1, <2>2
<1>3. Uncontested(o, narrowed, gates[o].claims)
    <2> HIDE DEF narrowed
    <2> QED BY <1>1, <1>2 DEF Uncontested
<1>4. PICK stage, next : /\ Advance(o, stage, next)
                         /\ \/ stage = "failing" /\ next = report
                            \/ stage = "publishing" /\ next = narrowed
    BY DEF WeighFeed
<1> DEFINE gate == [at |-> stage, report |-> next, claims |-> gates[o].claims]
<1>5. gates' = [gates EXCEPT ![o] = gate]
    BY <1>4, AdvanceSetsGate
<1>6. GateHolds(o, gate)
    <2> HIDE DEF narrowed
    <2> QED BY <1>1, <1>2, <1>3, <1>4 DEF GateHolds, Gate, Stage
<1>7. UNCHANGED <<registry, live, articles>>
    BY DEF WeighFeed
<1> HIDE DEF gate
<1> QED BY <1>5, <1>6, <1>7, OneGateMoves DEF GatesInv

LEMMA WithdrawArtifactsKeepsGates ==
    ASSUME GatesInv, NEW o \in Outlet, WithdrawArtifacts(o)
    PROVE  GatesInv'
<1> DEFINE report == gates[o].report
<1>1. PICK stage : /\ Advance(o, stage, report)
                   /\ stage = "publishing" => report.reasons = {}
                   /\ stage \in {"publishing", "failing"}
    BY DEF WithdrawArtifacts
<1> DEFINE gate == [at |-> stage, report |-> report, claims |-> gates[o].claims]
<1>2. articles' \in [Outlet -> [Story -> Article]]
    BY DEF WithdrawArtifacts, GatesInv, Article
<1>3. gates' = [gates EXCEPT ![o] = gate]
    BY <1>1, AdvanceSetsGate
<1>4. gates[o] \in Gate /\ GateHolds(o, gates[o]) /\ gates[o].at = "weighed"
    BY DEF GatesInv, WithdrawArtifacts
<1>5. GateHolds(o, gate)
    BY <1>1, <1>4 DEF GateHolds, Gate, Stage
<1> HIDE DEF gate
<1> QED BY <1>2, <1>3, <1>5, OneGateMoves DEF WithdrawArtifacts, GatesInv

LEMMA EndingKeepsGates ==
    ASSUME GatesInv, NEW o \in Outlet, Publish(o) \/ Fail(o) \/ Abandon(o)
    PROVE  GatesInv'
<1>1. CASE Publish(o)
    <2>1. articles' \in [Outlet -> [Story -> Article]]
        BY <1>1 DEF Publish, GatesInv, Article
    <2> QED BY <1>1, <2>1, CloseKeepsGates DEF Publish, GatesInv
<1>2. CASE Fail(o)
    <2>1. live' \subseteq Outlet
        BY <1>2 DEF Fail, GatesInv
    <2>2. articles' \in [Outlet -> [Story -> Article]]
        BY <1>2, ItemsKeepTypes DEF Fail, GatesInv
    <2> QED BY <1>2, <2>1, <2>2, CloseKeepsGates DEF Fail
<1>3. CASE Abandon(o)
    BY <1>3, CloseKeepsGates DEF Abandon, GatesInv
<1> QED BY <1>1, <1>2, <1>3

LEMMA GatesUntouched ==
    ASSUME GatesInv, UNCHANGED <<registry, gates>>,
           live' \subseteq Outlet, articles' \in [Outlet -> [Story -> Article]]
    PROVE  GatesInv'
BY DEF GatesInv, GateHolds, HasRecipe, InCompanyScope, Mentions, Uncontested, Distinct

LEMMA StepGatesInv ==
    ASSUME GatesAssumption, GatesInv, [GatesNext]_gateVars
    PROVE  GatesInv'
<1>1. ASSUME NEW o \in Outlet, NEW page \in Fetches, FetchRecipe(o, page) \/ FetchFeed(o, page)
      PROVE  GatesInv'
    BY <1>1, FetchRecipeKeepsGates, FetchFeedKeepsGates
<1>2. ASSUME NEW o \in Outlet, \/ BeginFetch(o) \/ ReadClaims(o) \/ SettleClaims(o)
                               \/ WeighRecipe(o) \/ WeighFeed(o) \/ WithdrawArtifacts(o)
                               \/ Publish(o) \/ Fail(o) \/ Abandon(o)
      PROVE  GatesInv'
    BY <1>2, BeginFetchKeepsGates, ReadClaimsKeepsGates, SettleClaimsKeepsGates, WeighRecipeKeepsGates,
       WeighFeedKeepsGates, WithdrawArtifactsKeepsGates, EndingKeepsGates
<1>3. ASSUME NEW o \in Outlet, Decide(o)
      PROVE  GatesInv'
    BY <1>3, GatesUntouched DEF Decide, GatesInv
<1>4. CASE Audit
    <2>1. articles' \in [Outlet -> [Story -> Article]]
        BY <1>4 DEF Audit, GiveWay, GatesInv, Article
    <2> QED BY <1>4, <2>1, GatesUntouched DEF Audit, GatesInv
<1>5. CASE UNCHANGED gateVars
    BY <1>5, GatesUntouched DEF gateVars, GatesInv
<1> QED BY <1>1, <1>2, <1>3, <1>4, <1>5 DEF GatesNext

LEMMA InitGatesInv == GatesInit => GatesInv
<1> SUFFICES ASSUME GatesInit PROVE GatesInv
    OBVIOUS
<1>1. \A o \in Outlet : GateHolds(o, Closed) /\ Closed \in Gate
    BY ClosedHolds DEF GateHolds
<1> HIDE DEF Closed
<1> QED BY <1>1 DEF GatesInit, GatesInv, Article

LEMMA GatesInvHolds == GatesSpec => []GatesInv
<1>1. GatesInv /\ [GatesNext]_gateVars => GatesInv'
    BY StepGatesInv, GatesAssumption
<1> QED BY <1>1, InitGatesInv, PTL DEF GatesSpec

\* Crawls, articles and the rows they are judged by keep their types.
THEOREM GatesAreTyped == GatesSpec => []GatesTypeOK
<1>1. GatesInv => GatesTypeOK
    BY DEF GatesInv, GatesTypeOK
<1> QED BY <1>1, GatesInvHolds, PTL

\* A report without reasons meets every threshold of the contract.
LEMMA NoShortfall ==
    ASSUME GatesAssumption, NEW report, Shortfalls(report) = {}
    PROVE  /\ Cardinality(FoundIn(report)) >= MinDiscovered
           /\ Cardinality(Kept(report)) >= MinAccepted
           /\ RatioBps(Cardinality(Kept(report)), Cardinality(FoundIn(report))) >= MinRatio
           /\ Kept(report) \notin Alike
<1> DEFINE found == Cardinality(FoundIn(report))
           kept == Cardinality(Kept(report))
           ratio == RatioBps(kept, found)
<1>1. IsFiniteSet(Kept(report)) /\ IsFiniteSet(FoundIn(report))
    BY FS_Subset DEF GatesAssumption, Kept, FoundIn
<1>2. found \in Nat /\ kept \in Nat
    BY <1>1, FS_CardinalityType
<1>3. ratio \in Int
    <2> HIDE DEF found, kept
    <2> QED BY <1>2 DEF RatioBps
<1>4. /\ MinDiscovered \in Nat /\ MinAccepted \in Nat /\ MinRatio \in Nat
    BY DEF GatesAssumption
<1>5. ~(found < MinDiscovered) /\ ~(kept < MinAccepted) /\ ~(ratio < MinRatio) /\ Kept(report) \notin Alike
    <2>1. \A r \in Threshold : r \notin Shortfalls(report)
        OBVIOUS
    <2> HIDE DEF found, kept, ratio
    <2>2. Shortfalls(report) = {r \in Threshold :
              CASE r = "discovered" -> found < MinDiscovered
                [] r = "accepted" -> kept < MinAccepted
                [] r = "ratio" -> ratio < MinRatio
                [] r = "diversity" -> Kept(report) \in Alike}
        BY DEF Shortfalls, found, kept, ratio
    <2> QED BY <2>1, <2>2 DEF Threshold
<1> HIDE DEF found, kept, ratio
<1>6. found >= MinDiscovered /\ kept >= MinAccepted /\ ratio >= MinRatio
    BY <1>2, <1>3, <1>4, <1>5
<1> QED BY <1>5, <1>6 DEF found, kept, ratio

\* Whatever gates an article has passed, in whatever order the crawls of other outlets, audits and
\* decisions come between them, what is published has the counts, the ratio and the diversity that
\* are asked of it by then.  (Its relevance is not judged anew: IrrelevantBatchIsRefused.)
THEOREM PublishedReportsMeetContract == GatesSpec => []PublishedMeetsContract
<1>1. GatesInv => PublishedMeetsContract
    <2> SUFFICES ASSUME GatesInv, NEW o \in Outlet, gates[o].at = "publishing"
                 PROVE  LET kept == Kept(gates[o].report)
                            found == FoundIn(gates[o].report)
                        IN  /\ HasRecipe(o) => /\ Cardinality(found) >= MinDiscovered
                                               /\ Cardinality(kept) >= MinAccepted
                                               /\ RatioBps(Cardinality(kept), Cardinality(found)) >= MinRatio
                                               /\ kept \notin Alike
                            /\ registry[o].scopeRequired => \A s \in kept : Mentions(o, s)
                            /\ \A s \in kept : \A r \in Outlet :
                                  /\ <<r, s>> \in gates[o].claims
                                  /\ registry[r].company # registry[o].company
                                  /\ registry[r].issuer # registry[o].issuer
                                  => <<s, r>> \in registry[o].scoped
        BY DEF PublishedMeetsContract
    <2>1. GateHolds(o, gates[o])
        BY DEF GatesInv
    <2>2. HasRecipe(o) => Shortfalls(gates[o].report) = {}
        BY <2>1 DEF GateHolds, Sound
    <2>3. registry[o].scopeRequired => \A s \in Kept(gates[o].report) : Mentions(o, s)
        BY <2>1 DEF GateHolds, InCompanyScope
    <2>4. Uncontested(o, gates[o].report, gates[o].claims)
        BY <2>1 DEF GateHolds
    <2> QED BY <2>2, <2>3, <2>4, NoShortfall, GatesAssumption DEF Uncontested, Distinct
<1> QED BY <1>1, GatesInvHolds, PTL

-----------------------------------------------------------------------------
(* MCOnboarding *)

\* A behaviour works one part.  The jobs are extractions only where extraction is the part.
OnboardingInv ==
    /\ ValidationInv /\ RecipeInv /\ UniverseInv /\ GatesInv /\ DiscoveryInv
    /\ ExtractionTypeOK
    /\ part = "extraction" => ExtractionInv

LEMMA ExtractionTypes ==
    ASSUME ExtractionInv
    PROVE  ExtractionTypeOK
BY DEF ExtractionInv, ExtractionTables, OneRunningExtraction, ExtractionTypeOK

LEMMA InitOnboardingInv ==
    ASSUME OnboardingInit
    PROVE  OnboardingInv
<1>1. ValidationInv
    BY InitValidationInv DEF OnboardingInit
<1>2. RecipeInv
    BY InitRecipeInv DEF OnboardingInit
<1>3. UniverseInv /\ GatesInv /\ DiscoveryInv
    BY InitUniverseInv, InitGatesInv, InitDiscoveryInv DEF OnboardingInit
<1>4. ExtractionInv
    BY InitExtractionInv DEF OnboardingInit
<1> QED BY <1>1, <1>2, <1>3, <1>4, ExtractionTypes DEF OnboardingInv

LEMMA StepOnboardingInv ==
    ASSUME OnboardingInv, [OnboardingNext]_onboardingVars
    PROVE  OnboardingInv'
<1>1. part' = part /\ [CandidatesNext]_candidateVars /\ [RecipesNext]_recipeVars
      /\ [UniverseNext]_universeVars /\ [GatesNext]_gateVars
    BY DEF OnboardingNext, onboardingVars
<1>2. ValidationInv'
    BY <1>1, StepValidationInv DEF OnboardingInv
<1>3. RecipeInv'
    BY <1>1, StepRecipeInv DEF OnboardingInv
<1>4. UniverseInv'
    BY <1>1, StepUniverseInv DEF OnboardingInv
<1>5. GatesInv'
    BY <1>1, StepGatesInv, GatesAssumption DEF OnboardingInv
<1>6. DiscoveryInv'
    <2>1. [DiscoveryNext]_discoveryVars \/ UNCHANGED <<discoveries, discoverers, known>>
        BY DEF OnboardingNext, onboardingVars
    <2>2. ASSUME UNCHANGED <<discoveries, discoverers, known>> PROVE DiscoveryInv'
        BY <2>2 DEF OnboardingInv, DiscoveryInv, SearchInv, KnownInv
    <2> QED BY <2>1, <2>2, StepDiscoveryInv DEF OnboardingInv
<1>7. part = "extraction" => [ExtractionNext]_extractionVars
    BY DEF OnboardingNext, onboardingVars, extractionVars
<1>8. part # "extraction" => UNCHANGED <<extractions, extractors, requested, seeded>>
    BY DEF OnboardingNext, onboardingVars
<1>9. part = "extraction" => ExtractionInv'
    BY <1>7, StepExtractionInv DEF OnboardingInv
<1>10. ExtractionTypeOK'
    <2>1. CASE part = "extraction"
        BY <1>9, <2>1 DEF ExtractionInv, ExtractionTables, OneRunningExtraction, ExtractionTypeOK
    <2>2. CASE part # "extraction"
        BY <1>8, <2>2 DEF OnboardingInv, ExtractionTypeOK
    <2> QED BY <2>1, <2>2
<1> QED BY <1>1, <1>2, <1>3, <1>4, <1>5, <1>6, <1>9, <1>10 DEF OnboardingInv

(* Whichever part is worked, its tables, its jobs and its handlers hold what their columns and their
   code can hold.  OnboardingTypeOK, for every number of companies, candidates, recipes, attempts,
   addresses, documents and outlets and every outcome of the adapter. *)
THEOREM OnboardingIsTyped == OnboardingSpec => []OnboardingTypeOK
<1>1. OnboardingInv /\ [OnboardingNext]_onboardingVars => OnboardingInv'
    BY StepOnboardingInv
<1>2. OnboardingInv => OnboardingTypeOK
    <2> SUFFICES ASSUME OnboardingInv PROVE OnboardingTypeOK
        OBVIOUS
    <2>1. CandidatesTypeOK /\ DiscoveryTypeOK
        BY ValidationIsTyped, DiscoveryTypes DEF OnboardingInv
    <2>2. RecipesTypeOK /\ UniverseTypeOK
        BY DEF OnboardingInv, RecipeInv, UniverseInv
    <2>3. GatesTypeOK
        BY DEF OnboardingInv, GatesInv, GatesTypeOK
    <2> QED BY <2>1, <2>2, <2>3 DEF OnboardingInv, OnboardingTypeOK
<1> QED BY <1>1, <1>2, InitOnboardingInv, PTL DEF OnboardingSpec
=============================================================================
