-------------------------- MODULE ExportSelection ---------------------------
(***************************************************************************)
(* Which of the stored articles an export publishes:                       *)
(* list_exportable_feed_items (crates/feed-db/src/exports.rs) keeps one    *)
(* row for each URL of a company, one for each dated title, and one for    *)
(* each URL of a legal entity whose share classes are merged; the exporter *)
(* refuses two rows with one document id, and derives the generation from  *)
(* what is left (crates/feed-exporter/src/archive_v1.rs).                  *)
(***************************************************************************)
EXTENDS Naturals, FiniteSets

CONSTANTS
    Story,          \* stored articles, numbered in the order of their ids
    CompanyOf,      \* [Story -> company]
    EntityOf,       \* [company -> export key]: share classes with one legal base share it
    UrlOf,          \* [Story -> canonical URL]
    IdentityOf,     \* [URL -> identity]: public_url_identity_key
    TitleOf,        \* [Story -> dated title, or "undated"]
    KindOf          \* [Story -> rank of the kind of its source]

ASSUME SelectionAssumption == IsFiniteSet(Story) /\ Story = 1..Cardinality(Story)

VARIABLES
    shown,          \* stories that are public, of approved sources in working order
    content,        \* [Story -> how much body it has; 0 when no article was fetched]
    fetched         \* [Story -> when it was last crawled, as a rank]

selectionVars == <<shown, content, fetched>>

Company(s) == CompanyOf[s]
Entity(s) == EntityOf[Company(s)]
Identity(s) == IdentityOf[UrlOf[s]]

SelectionInit ==
    /\ shown \in SUBSET Story
    /\ content \in [Story -> 0..1]
    /\ fetched = [s \in Story |-> s]

-----------------------------------------------------------------------------
\* ORDER BY content rank and length, kind of source, latest fetch, id.
Preferred(s, t) ==
    IF content[s] # content[t] THEN content[s] > content[t]
    ELSE IF KindOf[s] # KindOf[t] THEN KindOf[s] < KindOf[t]
    ELSE IF fetched[s] # fetched[t] THEN fetched[s] > fetched[t]
    ELSE s <= t

\* The order of the last stage, among stories of one date.
Earlier(s, t) == IF fetched[s] # fetched[t] THEN fetched[s] < fetched[t] ELSE s <= t

\* canonical_ranked_items: one row for each URL identity of a company.
CanonicalRows ==
    {s \in shown : \A t \in shown :
        (Company(t) = Company(s) /\ Identity(t) = Identity(s)) => Preferred(s, t)}
SameTitle(s, t) ==
    /\ Company(s) = Company(t) /\ TitleOf[s] = TitleOf[t]
    /\ TitleOf[s] = "undated" => Identity(s) = Identity(t)

TitleRows == {s \in CanonicalRows : \A t \in CanonicalRows : SameTitle(s, t) => Preferred(s, t)}

\* deduped: one for each URL identity of an entity.
SameEntityUrl(s, t) == Entity(s) = Entity(t) /\ Identity(s) = Identity(t)
\* Mutant: share classes are not merged.
CompanyRows == TitleRows

EntityRows == {s \in TitleRows : \A t \in TitleRows : SameEntityUrl(s, t) => Earlier(s, t)}

DocumentId(s) == <<Entity(s), UrlOf[s]>>

\* generation_id: the documents with their sources and contents, without the fetch times.
Generation == {<<DocumentId(s), s, content[s]>> : s \in EntityRows}

-----------------------------------------------------------------------------
\* A crawl finds the article again, as it was: the fetch time is new, unless its body had been
\* hydrated.
Recrawl(s) ==
    /\ content[s] = 0
    /\ fetched' = [t \in Story |-> IF t = s THEN Cardinality(Story)
                                   ELSE IF fetched[t] > fetched[s] THEN fetched[t] - 1
                                   ELSE fetched[t]]
    /\ UNCHANGED <<shown, content>>

\* Its body is fetched, or changes.
Hydrate(s) ==
    /\ content' = [content EXCEPT ![s] = 1 - @]
    /\ UNCHANGED <<shown, fetched>>

\* It is withdrawn or released; its source approved, its recipe stale.
ShowOrHide(s) ==
    /\ shown' \in {shown \cup {s}, shown \ {s}}
    /\ UNCHANGED <<content, fetched>>

SelectionNext == \E s \in Story : Recrawl(s) \/ Hydrate(s) \/ ShowOrHide(s)

SelectionSpec == SelectionInit /\ [][SelectionNext]_selectionVars

-----------------------------------------------------------------------------
SelectionTypeOK ==
    /\ shown \subseteq Story
    /\ content \in [Story -> 0..1] /\ fetched \in [Story -> 1..Cardinality(Story)]

(* No two selected rows resolve to one document id, also when share classes are merged: the
   exporter would refuse the whole archive for good (project_articles, an Invariant error). *)
OneRowPerDocument ==
    \A s, t \in EntityRows : DocumentId(s) = DocumentId(t) => s = t
=============================================================================
