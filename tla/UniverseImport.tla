--------------------------- MODULE UniverseImport ---------------------------
(***************************************************************************)
(* Where companies come from: imports of a company universe and the waves  *)
(* that release what they stage (crates/feed-db/src/universe.rs), and the  *)
(* seed configuration that every worker writes when it starts              *)
(* (crates/feed-db/src/config_sync.rs).  The three write the same rows,    *)
(* in transactions of their own, and none may undo what another decided.   *)
(***************************************************************************)
EXTENDS Naturals, FiniteSets, Functions

CONSTANTS
    Company,         \* company keys
    SourceId,        \* source_company_id, of one universe source
    Listing,         \* (ticker, exchange) pairs
    Document,        \* revisions of the universe, each with bytes of its own
    RowsOf,          \* [Document -> set of UniverseRow]
    Seeds,           \* companies of the seed configuration
    SeedHomepage,    \* what it says of their homepage, maybe "none"
    SeedPrimary,     \* and of their primary listing, maybe "none"
    Importer,
    Wave,            \* activate commands
    WaveSize,        \* --limit
    MaxDay           \* bound on the clock

Word == Document \cup {"seed", "none"}

\* UniverseCompany: the revision stands for the text that it brings.
UniverseRow == [company : Company, id : SourceId, homepage : Document \cup {"none"},
                listings : SUBSET Listing, primary : Listing \cup {"none"}]

\* validate_document, validate_company: ids and keys are unique, one listing at most is primary.
ValidDocument(rows) ==
    /\ rows # {} /\ rows \subseteq UniverseRow
    /\ \A x, y \in rows : x.company = y.company \/ x.id = y.id => x = y
    /\ \A x \in rows : x.primary \in x.listings \cup {"none"}

ASSUME UniverseAssumption ==
    /\ \A d \in Document : ValidDocument(RowsOf[d])
    /\ Seeds \subseteq Company
    /\ SeedHomepage \in {"seed", "none"} /\ SeedPrimary \in Listing \cup {"none"}
    /\ MaxDay \in Nat

VARIABLES
    companies,       \* [Company -> CompanyRow]
    externals,       \* company_external_ids of the source: [SourceId -> Company or "none"]
    imports,         \* [Document -> its company_import_runs row, with the audited actions]
    importers,       \* [Importer -> its transaction]
    waves,           \* [Wave -> its transaction]
    day              \* CURRENT_TIMESTAMP

universeVars == <<companies, externals, imports, importers, waves, day>>

\* owner: name_source; revision: metadata.universe.
CompanyRow == [owner : {"absent", "universe", "seed"}, name : Word, homepage : Word,
               revision : Document \cup {"none"}, primary : Listing \cup {"none"},
               enabled : BOOLEAN, notBefore : 0..MaxDay]
NoCompany == [owner |-> "absent", name |-> "none", homepage |-> "none", revision |-> "none",
              primary |-> "none", enabled |-> FALSE, notBefore |-> 0]

ImportAction == {"none", "inserted", "updated", "unchanged"}
ImportRow == [recorded : BOOLEAN, actions : [Company -> ImportAction]]
Importing == [document : Document \cup {"none"}, actions : [Company -> ImportAction]]
Idle == [document |-> "none", actions |-> [c \in Company |-> "none"]]

Released == [company : Company, at : 0..MaxDay]

UniverseInit ==
    /\ companies = [c \in Company |-> NoCompany]
    /\ externals = [i \in SourceId |-> "none"]
    /\ imports = [d \in Document |-> [recorded |-> FALSE, actions |-> Idle.actions]]
    /\ importers = [i \in Importer |-> Idle]
    /\ waves = [w \in Wave |-> {}]
    /\ day = 0

Present(c) == companies[c].owner # "absent"
CompaniesOf(d) == {r.company : r \in RowsOf[d]}
RowOf(d, c) == CHOOSE r \in RowsOf[d] : r.company = c

\* Rows that an activation has selected FOR UPDATE and not committed.
LockedBy(w) == {r.company : r \in waves[w]}
LockedCompanies == UNION {LockedBy(w) : w \in Wave}

-----------------------------------------------------------------------------
(* import_company_universe *)

\* sync_listings: a primary listing gives way to another, or when the import lists it as secondary.
Listed(primary, r) ==
    IF r.primary # "none" THEN r.primary ELSE IF primary \in r.listings THEN "none" ELSE primary

\* The row that an upsert leaves: curated values come first.
Upserted(old, d, activate) ==
    LET r == RowOf(d, old.company)
        row == old.row
        primary == Listed(row.primary, r)
    IN  IF row.owner = "absent"
        THEN [owner |-> "universe", name |-> d, homepage |-> r.homepage, revision |-> d,
              primary |-> primary, enabled |-> activate, notBefore |-> day]
        ELSE [row EXCEPT !.name = IF row.owner = "universe" THEN d ELSE @,
                         !.homepage = IF @ = "none" THEN r.homepage ELSE @,
                         !.revision = d,
                         !.primary = primary]

\* prepare_company, existing_matches: the listings are not compared.
Classified(d, c) ==
    LET row == companies[c]
        new == Upserted([company |-> c, row |-> row], d, FALSE)
    IN  CASE c \notin CompaniesOf(d) -> "none"
          [] row.owner = "absent" -> "inserted"
          [] OTHER -> IF new = [row EXCEPT !.primary = new.primary] THEN "unchanged" ELSE "updated"

\* A source id stays with the company that it was first imported for.
Remaps(d) == \E r \in RowsOf[d] : externals[r.id] \notin {"none", r.company}

\* sync_external_ids: the mapping of a source id is written once.
Mapped(d) ==
    [id \in SourceId |->
        IF externals[id] = "none" /\ \E r \in RowsOf[d] : r.id = id
        THEN (CHOOSE r \in RowsOf[d] : r.id = id).company ELSE externals[id]]

\* Under the advisory lock of the document; one that was imported is replayed, which writes nothing.
ReadUniverse(i, d) ==
    /\ importers[i] = Idle
    /\ \A other \in Importer : importers[other].document # d
    /\ ~imports[d].recorded /\ ~Remaps(d)
    /\ importers' = [importers EXCEPT ![i] =
                        [document |-> d, actions |-> [c \in Company |-> Classified(d, c)]]]
    /\ UNCHANGED <<companies, externals, imports, waves, day>>

\* The upserts wait for rows that are locked elsewhere and take them as they are by then.
CommitUniverse(i) ==
    LET d == importers[i].document
    IN  /\ d # "none"
        /\ CompaniesOf(d) \cap LockedCompanies = {}
        /\ \E activate \in BOOLEAN :
              companies' = [c \in Company |->
                  IF c \in CompaniesOf(d)
                  THEN Upserted([company |-> c, row |-> companies[c]], d, activate)
                  ELSE companies[c]]
        /\ externals' = Mapped(d)
        /\ imports' = [imports EXCEPT ![d] = [recorded |-> TRUE, actions |-> importers[i].actions]]
        /\ importers' = [importers EXCEPT ![i] = Idle]
        /\ UNCHANGED <<waves, day>>

\* The command dies or its transaction fails.
AbortImport(i) ==
    /\ importers[i] # Idle
    /\ importers' = [importers EXCEPT ![i] = Idle]
    /\ UNCHANGED <<companies, externals, imports, waves, day>>

-----------------------------------------------------------------------------
(* activate_company_wave *)

\* Mutant: the rows are selected without a lock.
StagedUnlocked == {c \in Company : Present(c) /\ ~companies[c].enabled}

\* FOR UPDATE SKIP LOCKED.
Staged == {c \in Company : Present(c) /\ ~companies[c].enabled} \ LockedCompanies

\* Of one import, or of any: the audit rows of an import are its companies.
WaveScope == {Company} \cup {CompaniesOf(d) : d \in {x \in Document : imports[x].recorded}}

\* Fewer than the limit when there are no more, or when imports hold them; in the order of their
\* market caps, one step apart.
SelectWave(w) ==
    /\ waves[w] = {}
    /\ \E scope \in WaveScope, start \in 0..MaxDay, spacing \in 0..1 :
         \E rows \in SUBSET (Staged \cap scope) :
            /\ rows # {} /\ Cardinality(rows) <= WaveSize
            /\ \E place \in [rows -> 0..Cardinality(rows) - 1] :
                  /\ IsInjective(place)
                  /\ \A c \in rows : start + spacing * place[c] <= MaxDay
                  /\ waves' = [waves EXCEPT ![w] =
                        {[company |-> c, at |-> start + spacing * place[c]] : c \in rows}]
    /\ UNCHANGED <<companies, externals, imports, importers, day>>

CommitWave(w) ==
    /\ waves[w] # {}
    /\ companies' = [c \in Company |->
           IF \E r \in waves[w] : r.company = c
           THEN [companies[c] EXCEPT !.enabled = TRUE,
                     !.notBefore = (CHOOSE r \in waves[w] : r.company = c).at]
           ELSE companies[c]]
    /\ waves' = [waves EXCEPT ![w] = {}]
    /\ UNCHANGED <<externals, imports, importers, day>>

AbortWave(w) ==
    /\ waves[w] # {}
    /\ waves' = [waves EXCEPT ![w] = {}]
    /\ UNCHANGED <<companies, externals, imports, importers, day>>

-----------------------------------------------------------------------------
(* sync_seed_config *)

SeedSchedule(row) == IF row.owner = "absent" \/ row.notBefore > day THEN day ELSE row.notBefore

\* It says everything about its companies, and they are due by now; it waits for rows that are locked.
SyncSeeds ==
    /\ Seeds \cap LockedCompanies = {}
    /\ companies' = [c \in Company |->
           IF c \in Seeds
           THEN [companies[c] EXCEPT !.owner = "seed", !.name = "seed", !.homepage = SeedHomepage,
                     !.primary = SeedPrimary, !.enabled = TRUE, !.notBefore = SeedSchedule(companies[c])]
           ELSE companies[c]]
    /\ companies' # companies
    /\ UNCHANGED <<externals, imports, importers, waves, day>>

PassDay ==
    /\ day < MaxDay /\ day' = day + 1
    /\ UNCHANGED <<companies, externals, imports, importers, waves>>

UniverseNext ==
    \/ \E i \in Importer : \/ \E d \in Document : ReadUniverse(i, d)
                           \/ CommitUniverse(i) \/ AbortImport(i)
    \/ \E w \in Wave : SelectWave(w) \/ CommitWave(w) \/ AbortWave(w)
    \/ SyncSeeds
    \/ PassDay

UniverseSpec == UniverseInit /\ [][UniverseNext]_universeVars

-----------------------------------------------------------------------------
\* Rows, transactions and audit have their types.
UniverseTypeOK ==
    /\ companies \in [Company -> CompanyRow]
    /\ externals \in [SourceId -> Company \cup {"none"}]
    /\ imports \in [Document -> ImportRow]
    /\ importers \in [Importer -> Importing]
    /\ waves \in [Wave -> SUBSET Released]
    /\ day \in 0..MaxDay

\* What was decided about a company stands, whatever imports, waves and workers that start do
\* meanwhile: a release is not taken back, and its day is not put off by a wave that has selected
\* the company before (the seed sync may bring it forward, config_sync.rs:52); the name and the
\* homepage that the seed configuration gives are not overwritten by a revision; a source id stays
\* with its company.  SeedPrimaryStands is about the third thing that the seeds say.
DecisionsStand ==
    [][/\ \A c \in Company :
            /\ companies[c].enabled =>
                  companies'[c].enabled /\ companies'[c].notBefore <= companies[c].notBefore
            /\ companies[c].owner = "seed" =>
                  /\ companies'[c].name = companies[c].name
                  /\ companies[c].homepage # "none" => SeedHomepage = "none" \/
                        companies'[c].homepage = companies[c].homepage
       /\ \A id \in SourceId : externals[id] # "none" => externals'[id] = externals[id]]_universeVars

\* "A later universe revision refreshes universe-owned names and metadata without erasing operator-
\* or seed-managed values" (docs/company-universe-import.md:119-121): the primary listing that the
\* seed configuration has given a company stays its primary listing.
SeedPrimaryStands ==
    [][\A c \in Company :
         companies[c].owner = "seed" /\ companies[c].primary = SeedPrimary /\ SeedPrimary # "none"
            => companies'[c].primary = SeedPrimary]_universeVars
=============================================================================
