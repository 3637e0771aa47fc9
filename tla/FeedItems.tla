----------------------------- MODULE FeedItems -----------------------------
(***************************************************************************)
(* The stored articles of one source (table feed_items): how the items of  *)
(* a crawl batch are matched with the rows there are, and how rows are     *)
(* withdrawn and released.  An article is known by three keys, its         *)
(* external id, its canonical URL and the identity of its URL, and a       *)
(* publisher may change any of them.  Three unique indexes hold: on the    *)
(* external id, on the canonical URL and, among public rows, on the URL's  *)
(* identity.  A statement that breaks one aborts the whole crawl.          *)
(***************************************************************************)
EXTENDS Naturals

CONSTANTS
    ExternalId, Canonical, UrlKey,   \* the keys an article may be found under
    MaxRows                          \* bound: rows stored for the source

VARIABLE
    feedRows      \* [1..MaxRows -> a row or NoRow]; numbered in order of creation

Row == 1..MaxRows

\* The policies under which running code withdraws an item.
Policy == {"cross-company-item-scope", "recipe-runtime-artifact",
           "company-scope-relevance", "publication-topic-compromise",
           "cross-company-feed-ownership"}

\* Those a later crawl of the item may lift.
Releasable(policy) == policy \in {"cross-company-item-scope", "recipe-runtime-artifact"}
Held == {policy \in Policy : ~Releasable(policy)}

\* The policy a recipe crawl withdraws an item under, from the reason its page was refused.
RuntimeReason == {"article_not_company_scoped", "cross_company_item_not_explicitly_scoped",
                  "listing_artifact"}
PolicyFor(reason) ==
    CASE reason = "article_not_company_scoped" -> "company-scope-relevance"
      [] reason = "cross_company_item_not_explicitly_scoped" -> "cross-company-item-scope"
      [] reason = "listing_artifact" -> "recipe-runtime-artifact"

\* A crawled item that was normalized.
Incoming == [external : ExternalId, canonical : Canonical, url : UrlKey]

\* policy is "none" for a public row: is_private is set together with quality_quarantine.
StoredRow == [external : ExternalId, canonical : Canonical, url : UrlKey,
              policy : Policy \cup {"none"}]
NoRow == [policy |-> "absent"]

Stored == {r \in Row : feedRows[r] # NoRow}
Public(r) == feedRows[r].policy = "none"

FeedInit == feedRows = [r \in Row |-> NoRow]

-----------------------------------------------------------------------------
\* Mutant: the URL's index forgotten.
InsertConflictsByKey(i) ==
    \E r \in Stored : feedRows[r].external = i.external \/ feedRows[r].canonical = i.canonical

\* INSERT ... ON CONFLICT DO NOTHING inserts nothing when a unique index is in the way.
InsertConflicts(i) ==
    \E r \in Stored :
        \/ feedRows[r].external = i.external
        \/ feedRows[r].canonical = i.canonical
        \/ Public(r) /\ feedRows[r].url = i.url

Matches(i) ==
    {r \in Stored : \/ feedRows[r].external = i.external
                    \/ feedRows[r].canonical = i.canonical
                    \/ feedRows[r].url = i.url}

\* ORDER BY of the lookup: the public owner of the URL, then the owner of the canonical
\* URL, then of the external id, then the older row.
OwnsUrl(i, r) == Public(r) /\ feedRows[r].url = i.url
OwnsCanonical(i, r) == feedRows[r].canonical = i.canonical
OwnsExternal(i, r) == feedRows[r].external = i.external
\* Mutant: the owner of the URL is not preferred.
PrecedesByKeys(i, r, q) ==
    IF OwnsCanonical(i, r) # OwnsCanonical(i, q) THEN OwnsCanonical(i, r)
    ELSE IF OwnsExternal(i, r) # OwnsExternal(i, q) THEN OwnsExternal(i, r)
    ELSE r <= q

Precedes(i, r, q) ==
    IF OwnsUrl(i, r) # OwnsUrl(i, q) THEN OwnsUrl(i, r)
    ELSE IF OwnsCanonical(i, r) # OwnsCanonical(i, q) THEN OwnsCanonical(i, r)
    ELSE IF OwnsExternal(i, r) # OwnsExternal(i, q) THEN OwnsExternal(i, r)
    ELSE r <= q

IsMatch(i, r) == r \in Matches(i) /\ \A q \in Matches(i) : Precedes(i, r, q)
\* The row after the UPDATE.  A key another row owns is left as it was, except the URL.
Refreshed(i, r) ==
    [external |-> IF \E q \in Stored \ {r} : feedRows[q].external = i.external
                  THEN feedRows[r].external ELSE i.external,
     canonical |-> IF \E q \in Stored \ {r} : feedRows[q].canonical = i.canonical
                   THEN feedRows[r].canonical ELSE i.canonical,
     url |-> i.url,
     policy |-> IF Releasable(feedRows[r].policy) THEN "none" ELSE feedRows[r].policy]

UniqueKeys(rows) ==
    \A r, q \in {x \in Row : rows[x] # NoRow} :
        r # q => /\ rows[r].external # rows[q].external
                 /\ rows[r].canonical # rows[q].canonical
                 /\ rows[r].policy = "none" /\ rows[q].policy = "none"
                        => rows[r].url # rows[q].url

-----------------------------------------------------------------------------
\* One normalized item of complete_crawl_run that is new to the source.
InsertItem(i) ==
    /\ ~InsertConflicts(i)
    /\ \E r \in Row \ Stored :
        /\ \A q \in Row : q < r => q \in Stored
        /\ feedRows' = [feedRows EXCEPT
                ![r] = [external |-> i.external, canonical |-> i.canonical,
                        url |-> i.url, policy |-> "none"]]

\* One that is stored already, under whichever key.
RefreshItem(i) ==
    /\ InsertConflicts(i)
    /\ \E r \in Row :
        /\ IsMatch(i, r)
        /\ feedRows' = [feedRows EXCEPT ![r] = Refreshed(i, r)]
    /\ UniqueKeys(feedRows')

Withdraw(R, policy) ==
    feedRows' = [r \in Row |-> IF r \in R THEN [feedRows[r] EXCEPT !.policy = policy]
                                          ELSE feedRows[r]]

\* quarantine_feed_items_for_quality: rows listed earlier, tested again under their locks.
QuarantineItems(R, policy) ==
    /\ policy \in {"cross-company-item-scope", "publication-topic-compromise"}
    /\ R \cap Stored # {}
    /\ Withdraw({r \in R \cap Stored : Public(r)}, policy)

\* quarantine_recipe_artifact_failures: the public rows known under a URL whose page was
\* refused for good.
QuarantineArtifacts(c, u, reason) ==
    LET hit == {r \in Stored : /\ Public(r)
                               /\ feedRows[r].canonical = c \/ feedRows[r].url = u}
    IN  hit # {} /\ Withdraw(hit, PolicyFor(reason))

\* retire_active_company_news_recipe_for_ownership: the source's articles turn out to be another
\* company's, and none of them stays public.
WithdrawSource ==
    /\ \E r \in Stored : Public(r)
    /\ Withdraw({r \in Stored : Public(r)}, "cross-company-feed-ownership")

FeedNext ==
    \/ \E i \in Incoming : InsertItem(i)
    \/ \E i \in Incoming : RefreshItem(i)
    \/ \E R \in SUBSET Row, policy \in Policy : QuarantineItems(R, policy)
    \/ \E c \in Canonical, u \in UrlKey, reason \in RuntimeReason :
           QuarantineArtifacts(c, u, reason)
    \/ WithdrawSource

FeedSpec == FeedInit /\ [][FeedNext]_feedRows

-----------------------------------------------------------------------------
\* Types, and the unique indexes.
FeedTypeOK ==
    /\ feedRows \in [Row -> StoredRow \cup {NoRow}]
    /\ UniqueKeys(feedRows)

(* Whatever keys the publisher gives an article, the row complete_crawl_run (crawling.rs)
   picks for it can be updated without breaking a unique index: no article can make every
   crawl of its source fail.  The URL is written without looking for another owner. *)
NoBatchIsRejected ==
    \A i \in Incoming, r \in Row :
        IsMatch(i, r) => UniqueKeys([feedRows EXCEPT ![r] = Refreshed(i, r)])

(* A row withdrawn under a policy that only an operator may lift stays withdrawn, and keeps
   the record of it, whatever is crawled and quarantined afterwards. *)
HeldStaysWithdrawn ==
    [][\A r \in Row : feedRows[r].policy \in Held => feedRows'[r].policy = feedRows[r].policy]_feedRows
=============================================================================
