--------------------------- MODULE ArchiveProofs ---------------------------
(***************************************************************************)
(* Proofs about the way of an article from a due source into the archive:  *)
(* SourceCrawl, ArticleFetch, FeedItems, PayloadOffload, ExportSelection,  *)
(* ExportRuns, and MCPublication, which works one of them at a time.       *)
(***************************************************************************)
EXTENDS MCPublication, FiniteSetTheorems, WellFoundedInduction, TLAPS

-----------------------------------------------------------------------------
(* The stored articles of a source *)

LEMMA StoredIsRow ==
    ASSUME feedRows \in [Row -> StoredRow \cup {NoRow}], NEW r \in Stored
    PROVE  r \in Row /\ feedRows[r] \in StoredRow
BY DEF Stored

LEMMA RowsAreNotNoRow == \A x \in StoredRow : x # NoRow /\ x.policy # "absent"
BY DEF StoredRow, NoRow, Policy

LEMMA PublicIsStored ==
    ASSUME NEW r \in Row, Public(r)
    PROVE  r \in Stored
BY DEF Public, Stored, NoRow

\* The row picked for an item can be given the item's keys: the one that owns its URL among the
\* public rows is preferred, so that none but the picked row can.
LEMMA MatchedRowTakesItem ==
    ASSUME FeedTypeOK, NEW i \in Incoming, NEW r \in Row, IsMatch(i, r)
    PROVE  UniqueKeys([feedRows EXCEPT ![r] = Refreshed(i, r)])
<1> DEFINE rows == [feedRows EXCEPT ![r] = Refreshed(i, r)]
           x == Refreshed(i, r)
<1>1. feedRows \in [Row -> StoredRow \cup {NoRow}] /\ UniqueKeys(feedRows)
    BY DEF FeedTypeOK
<1>2. r \in Stored /\ r \in Matches(i) /\ \A q \in Matches(i) : Precedes(i, r, q)
    BY DEF IsMatch, Matches
<1>3. rows[r] = x /\ \A q \in Row : q # r => rows[q] = feedRows[q]
    BY <1>1
<1>4. ASSUME NEW q \in Stored, q # r
      PROVE  /\ x.external # feedRows[q].external
             /\ x.canonical # feedRows[q].canonical
             /\ ~(x.policy = "none" /\ feedRows[q].policy = "none" /\ x.url = feedRows[q].url)
    <2>1. /\ feedRows[r].external # feedRows[q].external
          /\ feedRows[r].canonical # feedRows[q].canonical
          /\ feedRows[r].policy = "none" /\ feedRows[q].policy = "none"
                 => feedRows[r].url # feedRows[q].url
        BY <1>1, <1>2, <1>4 DEF UniqueKeys, Stored
    <2>2. x.external # feedRows[q].external /\ x.canonical # feedRows[q].canonical /\ x.url = i.url
        BY <1>4, <2>1 DEF Refreshed
    <2>3. ASSUME feedRows[q].policy = "none", feedRows[q].url = i.url PROVE FALSE
        <3>1. q \in Matches(i) /\ OwnsUrl(i, q)
            BY <2>3 DEF Matches, OwnsUrl, Public, Stored
        <3>2. OwnsUrl(i, r)
            BY <1>2, <3>1 DEF Precedes
        <3> QED BY <2>1, <2>3, <3>2 DEF OwnsUrl, Public
    <2> QED BY <2>2, <2>3
<1> HIDE DEF x
<1>5. \A q \in Row : q # r /\ rows[q] # NoRow => q \in Stored
    BY <1>3 DEF Stored
<1>6. ASSUME NEW p \in Row, NEW q \in Row, rows[p] # NoRow, rows[q] # NoRow, p # q
      PROVE  /\ rows[p].external # rows[q].external
             /\ rows[p].canonical # rows[q].canonical
             /\ rows[p].policy = "none" /\ rows[q].policy = "none" => rows[p].url # rows[q].url
    <2>1. CASE p = r
        BY <1>3, <1>4, <1>5, <1>6, <2>1
    <2>2. CASE q = r
        BY <1>3, <1>4, <1>5, <1>6, <2>2
    <2>3. CASE p # r /\ q # r
        BY <1>1, <1>3, <1>5, <1>6, <2>3 DEF UniqueKeys, Stored
    <2> QED BY <2>1, <2>2, <2>3
<1> QED BY <1>6 DEF UniqueKeys

LEMMA RefreshedIsRow ==
    ASSUME FeedTypeOK, NEW i \in Incoming, NEW r \in Stored
    PROVE  Refreshed(i, r) \in StoredRow
<1>1. feedRows[r] \in StoredRow
    BY StoredIsRow DEF FeedTypeOK
<1> QED BY <1>1 DEF Refreshed, Incoming, StoredRow

LEMMA WithdrawKeepsTypes ==
    ASSUME FeedTypeOK, NEW R, R \subseteq Stored, NEW policy \in Policy, Withdraw(R, policy)
    PROVE  FeedTypeOK'
<1>1. feedRows \in [Row -> StoredRow \cup {NoRow}] /\ UniqueKeys(feedRows)
    BY DEF FeedTypeOK
<1>2. ASSUME NEW r \in R
      PROVE  /\ feedRows'[r] \in StoredRow /\ feedRows[r] # NoRow
             /\ feedRows'[r].external = feedRows[r].external
             /\ feedRows'[r].canonical = feedRows[r].canonical
             /\ feedRows'[r].policy # "none"
    <2>1. r \in Row /\ feedRows[r] \in StoredRow /\ feedRows[r] # NoRow
        BY <1>1, StoredIsRow, RowsAreNotNoRow
    <2>2. feedRows'[r] = [feedRows[r] EXCEPT !.policy = policy]
        BY <2>1 DEF Withdraw
    <2>3. policy # "none"
        BY DEF Policy
    <2> QED BY <2>1, <2>2, <2>3 DEF StoredRow
<1>3. \A r \in Row : r \notin R => feedRows'[r] = feedRows[r]
    BY DEF Withdraw
<1>4. feedRows' \in [Row -> StoredRow \cup {NoRow}]
    <2>1. \A r \in Row : feedRows'[r] \in StoredRow \cup {NoRow}
        BY <1>1, <1>2, <1>3
    <2>2. feedRows' = [r \in Row |-> feedRows'[r]]
        BY DEF Withdraw
    <2> QED BY <2>1, <2>2
<1>5. UniqueKeys(feedRows')
    BY <1>1, <1>2, <1>3 DEF UniqueKeys
<1> QED BY <1>4, <1>5 DEF FeedTypeOK

LEMMA StepFeedTypes ==
    ASSUME FeedTypeOK, [FeedNext]_feedRows
    PROVE  FeedTypeOK'
<1>1. feedRows \in [Row -> StoredRow \cup {NoRow}] /\ UniqueKeys(feedRows)
    BY DEF FeedTypeOK
<1>2. ASSUME NEW i \in Incoming, InsertItem(i)
      PROVE  FeedTypeOK'
    <2>1. PICK r \in Row \ Stored :
              feedRows' = [feedRows EXCEPT
                  ![r] = [external |-> i.external, canonical |-> i.canonical,
                          url |-> i.url, policy |-> "none"]]
        BY <1>2 DEF InsertItem
    <2> DEFINE x == [external |-> i.external, canonical |-> i.canonical,
                     url |-> i.url, policy |-> "none"]
    <2>2. x \in StoredRow
        BY DEF Incoming, StoredRow
    <2>3. \A q \in Stored : /\ feedRows[q].external # x.external
                            /\ feedRows[q].canonical # x.canonical
                            /\ feedRows[q].policy = "none" => feedRows[q].url # x.url
        BY <1>2 DEF InsertItem, InsertConflicts, Public
    <2>4. feedRows' = [feedRows EXCEPT ![r] = x]
        BY <2>1
    <2> HIDE DEF x
    <2>5. feedRows' \in [Row -> StoredRow \cup {NoRow}]
        BY <1>1, <2>2, <2>4
    <2>6. UniqueKeys(feedRows')
        BY <1>1, <2>3, <2>4 DEF UniqueKeys, Stored
    <2> QED BY <2>5, <2>6 DEF FeedTypeOK
<1>3. ASSUME NEW i \in Incoming, RefreshItem(i)
      PROVE  FeedTypeOK'
    <2>1. PICK r \in Row : IsMatch(i, r) /\ feedRows' = [feedRows EXCEPT ![r] = Refreshed(i, r)]
        BY <1>3 DEF RefreshItem
    <2>2. r \in Stored
        BY <2>1 DEF IsMatch, Matches
    <2>3. Refreshed(i, r) \in StoredRow
        BY <2>2, RefreshedIsRow
    <2> QED BY <1>1, <1>3, <2>1, <2>3 DEF FeedTypeOK, RefreshItem
<1>4. ASSUME NEW R \in SUBSET Row, NEW policy \in Policy, QuarantineItems(R, policy)
      PROVE  FeedTypeOK'
    BY <1>4, WithdrawKeepsTypes DEF QuarantineItems
<1>5. ASSUME NEW c \in Canonical, NEW u \in UrlKey, NEW reason \in RuntimeReason,
             QuarantineArtifacts(c, u, reason)
      PROVE  FeedTypeOK'
    <2>1. PolicyFor(reason) \in Policy
        BY DEF PolicyFor, Policy, RuntimeReason
    <2> QED BY <1>5, <2>1, WithdrawKeepsTypes DEF QuarantineArtifacts
<1>6. ASSUME WithdrawSource
      PROVE  FeedTypeOK'
    BY <1>6, WithdrawKeepsTypes DEF WithdrawSource, Policy
<1>7. CASE UNCHANGED feedRows
    BY <1>7 DEF FeedTypeOK
<1> QED BY <1>2, <1>3, <1>4, <1>5, <1>6, <1>7 DEF FeedNext

(* The rows of a source are typed, and its three unique indexes hold (feed_items). *)
THEOREM FeedIsTyped == FeedSpec => []FeedTypeOK
<1>1. FeedInit => FeedTypeOK
    BY DEF FeedInit, FeedTypeOK, UniqueKeys
<1> QED BY <1>1, StepFeedTypes, PTL DEF FeedSpec

(* No article makes the crawls of its source fail, whatever keys its publisher gives it and
   however many rows the source has (complete_crawl_run, crawling.rs). *)
THEOREM BatchesAreTaken == FeedSpec => []NoBatchIsRejected
<1>1. FeedTypeOK => NoBatchIsRejected
    BY MatchedRowTakesItem DEF NoBatchIsRejected
<1> QED BY <1>1, FeedIsTyped, PTL

LEMMA HeldStep ==
    ASSUME FeedTypeOK, FeedNext, NEW r \in Row, feedRows[r].policy \in Held
    PROVE  feedRows'[r].policy = feedRows[r].policy
<1>1. feedRows \in [Row -> StoredRow \cup {NoRow}]
    BY DEF FeedTypeOK
<1>2. feedRows[r] # NoRow /\ ~Public(r) /\ r \in Stored /\ ~Releasable(feedRows[r].policy)
    BY DEF Held, Policy, NoRow, Public, Stored
<1>3. ASSUME NEW i \in Incoming, InsertItem(i)
      PROVE  feedRows'[r].policy = feedRows[r].policy
    BY <1>1, <1>2, <1>3 DEF InsertItem
<1>4. ASSUME NEW i \in Incoming, RefreshItem(i)
      PROVE  feedRows'[r].policy = feedRows[r].policy
    BY <1>1, <1>2, <1>4 DEF RefreshItem, Refreshed
<1>5. ASSUME NEW R \in SUBSET Row, NEW policy \in Policy, QuarantineItems(R, policy)
      PROVE  feedRows'[r].policy = feedRows[r].policy
    BY <1>2, <1>5 DEF QuarantineItems, Withdraw
<1>6. ASSUME NEW c \in Canonical, NEW u \in UrlKey, NEW reason \in RuntimeReason,
             QuarantineArtifacts(c, u, reason)
      PROVE  feedRows'[r].policy = feedRows[r].policy
    BY <1>2, <1>6 DEF QuarantineArtifacts, Withdraw
<1>7. ASSUME WithdrawSource
      PROVE  feedRows'[r].policy = feedRows[r].policy
    BY <1>2, <1>7 DEF WithdrawSource, Withdraw
<1> QED BY <1>3, <1>4, <1>5, <1>6, <1>7 DEF FeedNext

(* What an operator must review stays withdrawn: no crawl and no other policy lifts or
   overwrites the record (complete_crawl_run's CASE on the policy). *)
THEOREM HeldRowsStay == FeedSpec => HeldStaysWithdrawn
<1>1. FeedTypeOK /\ [FeedNext]_feedRows
        => [\A r \in Row : feedRows[r].policy \in Held
                => feedRows'[r].policy = feedRows[r].policy]_feedRows
    BY HeldStep
<1> QED BY <1>1, FeedIsTyped, PTL DEF FeedSpec, HeldStaysWithdrawn

-----------------------------------------------------------------------------
(* The payloads of crawled items *)

\* A batch reaches the store before its rows are stamped.
BatchIsStored ==
    \A w \in Offloader : offloaders[w].at = "uploaded" => offloaders[w].batch \subseteq objects

OffloadInv == OffloadTypeOK /\ BatchIsStored /\ NoPayloadLost

LEMMA StepOffloadInv ==
    ASSUME OffloadInv, [OffloadNext]_offloadVars
    PROVE  OffloadInv'
<1> USE DEF OffloadInv, OffloadTypeOK, Worker
<1>1. IdleWorker \in Worker /\ IdleWorker.at = "idle"
    BY DEF IdleWorker
<1>2. ASSUME NEW r \in RawItem, RecordRawItem(r)
      PROVE  OffloadInv'
    <2>1. /\ rawItems[r] = "none" /\ rawItems' = [rawItems EXCEPT ![r] = "inline"]
          /\ provenance' \subseteq provenance \cup {r}
          /\ UNCHANGED <<objects, offloaders, offloadFaults>>
        BY <1>2 DEF RecordRawItem
    <2>2. OffloadTypeOK' /\ BatchIsStored'
        BY <2>1 DEF BatchIsStored
    <2>3. NoPayloadLost'
        BY <2>1 DEF NoPayloadLost
    <2> QED BY <2>2, <2>3
<1>3. ASSUME NEW w \in Offloader, ClaimBatch(w)
      PROVE  OffloadInv'
    <2>1. PICK batch \in SUBSET RawItem :
              offloaders' = [offloaders EXCEPT ![w] = [at |-> "packed", batch |-> batch]]
        BY <1>3 DEF ClaimBatch, Offloadable
    <2>2. UNCHANGED <<rawItems, provenance, objects, offloadFaults>>
        BY <1>3 DEF ClaimBatch
    <2>3. OffloadTypeOK' /\ BatchIsStored'
        BY <2>1, <2>2 DEF BatchIsStored
    <2>4. NoPayloadLost'
        BY <2>2 DEF NoPayloadLost
    <2> QED BY <2>3, <2>4
<1>4. ASSUME NEW w \in Offloader, PutObject(w)
      PROVE  OffloadInv'
    <2>1. /\ objects' = objects \cup offloaders[w].batch
          /\ offloaders' = [offloaders EXCEPT ![w].at = "uploaded"]
          /\ UNCHANGED <<rawItems, provenance, offloadFaults>>
        BY <1>4 DEF PutObject
    <2>2. OffloadTypeOK'
        BY <2>1
    <2>3. BatchIsStored'
        BY <2>1 DEF BatchIsStored
    <2>4. NoPayloadLost'
        BY <2>1 DEF NoPayloadLost
    <2> QED BY <2>2, <2>3, <2>4
<1>5. ASSUME NEW w \in Offloader, StampBatch(w)
      PROVE  OffloadInv'
    <2>1. /\ offloaders[w].batch \subseteq objects
          /\ rawItems' = [r \in RawItem |->
                 IF r \in offloaders[w].batch THEN "stamped" ELSE rawItems[r]]
          /\ offloaders' = [offloaders EXCEPT ![w] = IdleWorker]
          /\ UNCHANGED <<provenance, objects, offloadFaults>>
        BY <1>5 DEF StampBatch, BatchIsStored
    <2>2. OffloadTypeOK'
        BY <1>1, <2>1
    <2>3. BatchIsStored'
        BY <1>1, <2>1 DEF BatchIsStored
    <2>4. NoPayloadLost'
        BY <2>1 DEF NoPayloadLost
    <2> QED BY <2>2, <2>3, <2>4
<1>6. ASSUME NEW w \in Offloader, BatchFails(w)
      PROVE  OffloadInv'
    <2>1. /\ offloadFaults < MaxOffloadFaults /\ offloadFaults' = offloadFaults + 1
          /\ offloaders' = [offloaders EXCEPT ![w] = IdleWorker]
          /\ UNCHANGED <<rawItems, provenance, objects>>
        BY <1>6 DEF BatchFails
    <2>2. OffloadTypeOK'
        BY <1>1, <2>1, OffloadAssumption
    <2>3. BatchIsStored'
        BY <1>1, <2>1 DEF BatchIsStored
    <2>4. NoPayloadLost'
        BY <2>1 DEF NoPayloadLost
    <2> QED BY <2>2, <2>3, <2>4
<1>7. CASE Retention
    <2>1. PICK old \in SUBSET {r \in RawItem : Expired(r)} :
              rawItems' = [r \in RawItem |-> IF r \in old THEN "deleted" ELSE rawItems[r]]
        BY <1>7 DEF Retention
    <2>2. UNCHANGED <<provenance, objects, offloaders, offloadFaults>>
        BY <1>7 DEF Retention
    <2>3. \A r \in old : rawItems[r] = "stamped" /\ r \notin provenance
        BY DEF Expired
    <2>4. OffloadTypeOK' /\ BatchIsStored'
        BY <2>1, <2>2 DEF BatchIsStored
    <2>5. NoPayloadLost'
        BY <2>1, <2>2, <2>3 DEF NoPayloadLost
    <2> QED BY <2>4, <2>5
<1>8. CASE UNCHANGED offloadVars
    BY <1>8 DEF offloadVars, BatchIsStored, NoPayloadLost
<1> QED BY <1>2, <1>3, <1>4, <1>5, <1>6, <1>7, <1>8 DEF OffloadNext

LEMMA InitOffloadInv ==
    ASSUME OffloadInit
    PROVE  OffloadInv
BY OffloadAssumption DEF OffloadInit, OffloadInv, OffloadTypeOK, BatchIsStored, NoPayloadLost,
                         IdleWorker, Worker

LEMMA OffloadInvHolds == OffloadSpec => []OffloadInv
BY InitOffloadInv, StepOffloadInv, PTL DEF OffloadSpec

(* A payload is in the database or in the store whatever the number of workers, the size of
   their batches and the moment a worker dies (offload_one_batch). *)
THEOREM PayloadsAreKept == OffloadSpec => []NoPayloadLost
<1>1. OffloadInv => NoPayloadLost
    BY DEF OffloadInv
<1> QED BY <1>1, OffloadInvHolds, PTL

-----------------------------------------------------------------------------
(* The archive's exporters *)

V2Trees == [work : Tree, lock : Tree, index : Tree, commit : Tree, remote : Tree]

\* The files of the generation e writes are written.
Written(e) ==
    \A f \in Generated(exporters[e].items) : v2.work[f] = Content(exporters[e].items, f)

\* How far an exporter has taken its files that has had the working copy to itself.
Progress(e) ==
    /\ exporters[e].at \in {"v1", "v2", "status"} => exporters[e].repo = "main"
    /\ exporters[e].at \in {"v1", "v2"} =>
           \A f \in Generated(exporters[e].items) \ exporters[e].todo :
               v2.work[f] = Content(exporters[e].items, f)
    /\ exporters[e].at \in {"status", "add", "adding", "commit", "push", "done"} => Written(e)
    /\ exporters[e].at = "adding" /\ exporters[e].repo = Home =>
           \A f \in File \ exporters[e].todo : v2.lock[f] = v2.work[f]
    /\ exporters[e].at = "commit" /\ exporters[e].repo = Home => v2.index = v2.work
    /\ exporters[e].at = "push" /\ exporters[e].repo = Home => v2.commit = v2.work
    /\ exporters[e].at = "done" =>
           v2.commit = v2.work /\ (target.push /\ ~target.mirror => v2.remote = v2.commit)

Sole(e) ==
    exporters[e].alone =>
        /\ exporters[e].at # "idle" /\ \A x \in Exporter \ {e} : exporters[x].at = "idle"
        /\ Progress(e)

ExportInv ==
    /\ ExportTypeOK
    /\ ReadersFindArticles
    /\ \A e \in Exporter : Sole(e) /\ (exporters[e].repo = "mirror" => target.mirror)

LEMMA IdleThreadShape ==
    /\ IdleThread \in Thread /\ IdleThread.at = "idle" /\ ~IdleThread.alone
    /\ IdleThread.repo = "main"
BY DEF IdleThread, Thread, Repo

LEMMA MayFaultTypes ==
    ASSUME exportFaults \in 0..MaxExportFaults, MayFault
    PROVE  exportFaults' \in 0..MaxExportFaults
BY ExportAssumption DEF MayFault

LEMMA MayChangeTypes ==
    ASSUME changes \in 0..MaxChanges, MayChange
    PROVE  changes' \in 0..MaxChanges
BY ExportAssumption DEF MayChange

LEMMA ContentShape ==
    ASSUME NEW S, S \subseteq Doc
    PROVE  /\ \A f : Content(S, f) \in SUBSET (Doc \cup {"torn"})
           /\ Content(S, Head) = S /\ Head \in Generated(S)
           /\ \A d \in S : Content(S, d) = {d} /\ d \in Generated(S)
           /\ Generated(S) \subseteq File
<1>1. Head \notin Doc /\ Covers[Head] = Doc /\ Head \in File
    BY ExportAssumption DEF File
<1>2. Content(S, Head) = S
    BY <1>1 DEF Content
<1>3. \A d \in S : Content(S, d) = {d} /\ d \in File
    BY DEF Content, File
<1> QED BY <1>1, <1>2, <1>3 DEF Content, Generated

LEMMA WrittenIsComplete ==
    ASSUME NEW e \in Exporter, exporters[e].items \subseteq Doc, Written(e)
    PROVE  /\ Complete(v2.work)
           /\ \A d \in exporters[e].items : v2.work[d] = {d}
<1>1. v2.work[Head] = exporters[e].items
    BY ContentShape DEF Written
<1> QED BY <1>1, ContentShape DEF Complete, Written

\* A step of one exporter, which only for one that is alone has to take the files further.
LEMMA ExporterMoves ==
    ASSUME ExportInv, NEW e \in Exporter, exporters[e].at # "idle", NEW y \in Thread,
           exporters' = [exporters EXCEPT ![e] = y],
           y.repo = "mirror" => target.mirror,
           y.alone => exporters[e].alone /\ y.at # "idle" /\ Progress(e)',
           v2' \in V2Trees, ReadersFindArticles', UNCHANGED <<target, selectable>>,
           exportJob' \in BOOLEAN, staleLocks' \subseteq Repo,
           overlap' \subseteq {"commit", "remote"},
           exportFaults' \in 0..MaxExportFaults, changes' \in 0..MaxChanges
    PROVE  ExportInv'
<1>1. /\ exporters' \in [Exporter -> Thread] /\ exporters'[e] = y
      /\ \A x \in Exporter : x # e => exporters'[x] = exporters[x]
    BY DEF ExportInv, ExportTypeOK
<1>2. ExportTypeOK'
    BY <1>1 DEF ExportInv, ExportTypeOK, V2Trees
<1>3. \A x \in Exporter : exporters'[x].repo = "mirror" => target'.mirror
    BY <1>1 DEF ExportInv
<1>4. ASSUME NEW x \in Exporter, x # e PROVE Sole(x)'
    BY <1>1, <1>4 DEF ExportInv, Sole
<1>5. Sole(e)'
    BY <1>1 DEF ExportInv, Sole
<1> QED BY <1>2, <1>3, <1>4, <1>5 DEF ExportInv

\* The trees stay, and each exporter is as far as it was or no longer alone.
LEMMA TreesStay ==
    ASSUME ExportInv, UNCHANGED <<v2, overlap>>, exporters' \in [Exporter -> Thread],
           \A x \in Exporter :
               \/ /\ exporters'[x].at = exporters[x].at /\ exporters'[x].repo = exporters[x].repo
                  /\ exporters'[x].alone = exporters[x].alone
                  /\ exporters'[x].items = exporters[x].items
                  /\ exporters'[x].todo = exporters[x].todo
               \/ ~exporters'[x].alone /\ exporters'[x].repo = exporters[x].repo
                  /\ \A z \in Exporter : ~exporters'[z].alone
               \/ exporters'[x] = IdleThread,
           target' \in [enabled : BOOLEAN, dual : BOOLEAN, mirror : BOOLEAN, push : BOOLEAN],
           target'.push = target.push, target'.mirror = target.mirror,
           selectable' \subseteq Doc, exportJob' \in BOOLEAN, staleLocks' \subseteq Repo,
           exportFaults' \in 0..MaxExportFaults, changes' \in 0..MaxChanges
    PROVE  ExportInv'
<1>1. ExportTypeOK'
    BY DEF ExportInv, ExportTypeOK
<1>2. ReadersFindArticles'
    BY DEF ExportInv, ReadersFindArticles, Complete
<1>3. \A x \in Exporter : exporters'[x].repo = "mirror" => target'.mirror
    BY IdleThreadShape DEF ExportInv
<1>4. ASSUME NEW x \in Exporter, exporters'[x].alone PROVE Sole(x)'
    <2>1. /\ exporters'[x].at = exporters[x].at /\ exporters'[x].repo = exporters[x].repo
          /\ exporters[x].alone
          /\ exporters'[x].items = exporters[x].items
          /\ exporters'[x].todo = exporters[x].todo
        BY <1>4, IdleThreadShape
    <2>2. exporters[x].at # "idle" /\ Progress(x)
          /\ \A z \in Exporter \ {x} : exporters[z].at = "idle"
        BY <2>1 DEF ExportInv, Sole
    <2>3. Progress(x)'
        BY <2>1, <2>2 DEF Progress, Written, Home
    <2>4. ASSUME NEW z \in Exporter \ {x} PROVE exporters'[z].at = "idle"
        BY <1>4, <2>2, IdleThreadShape
    <2> QED BY <2>1, <2>2, <2>3, <2>4 DEF Sole
<1> QED BY <1>1, <1>2, <1>3, <1>4 DEF ExportInv, Sole

LEMMA BeginKeepsInv ==
    ASSUME ExportInv, NEW e \in Exporter, BeginExport(e)
    PROVE  ExportInv'
<1>1. /\ ExportTypeOK /\ exporters \in [Exporter -> Thread] /\ selectable \subseteq Doc
      /\ exporters[e].at = "idle"
      /\ UNCHANGED <<target, selectable, v2, staleLocks, overlap, exportFaults, changes>>
    BY DEF ExportInv, ExportTypeOK, BeginExport, Is
<1>2. CASE ~target.enabled
    BY <1>1, <1>2, TreesStay DEF BeginExport, ExportTypeOK
<1>3. CASE target.enabled
    <2> DEFINE y == [IdleThread EXCEPT !.at = IF target.dual THEN "v1" ELSE "v2",
                         !.held = TRUE, !.alone = \A z \in Exporter : Is(z, "idle"),
                         !.items = selectable, !.todo = Generated(selectable)]
    <2>1. /\ exporters' = [x \in Exporter |-> IF x = e THEN y
                                              ELSE [exporters[x] EXCEPT !.alone = FALSE]]
          /\ exportJob' = exportJob
        BY <1>3 DEF BeginExport
    <2>2. /\ y \in Thread /\ y.at \in {"v1", "v2"} /\ y.items = selectable
          /\ y.todo = Generated(selectable) /\ y.repo = "main"
          /\ y.alone => \A z \in Exporter : exporters[z].at = "idle"
        <3>1. Generated(selectable) \in SUBSET File
            BY <1>1, ContentShape
        <3>2. (\A z \in Exporter : Is(z, "idle")) \in BOOLEAN
            OBVIOUS
        <3> QED BY <1>1, <3>1, <3>2 DEF IdleThread, Thread, Repo, Is
    <2> HIDE DEF y
    <2>3. /\ exporters'[e] = y
          /\ \A x \in Exporter : x # e =>
                 /\ exporters'[x] \in Thread /\ ~exporters'[x].alone
                 /\ exporters'[x].at = exporters[x].at /\ exporters'[x].repo = exporters[x].repo
        BY <1>1, <2>1 DEF Thread
    <2>4. exporters' \in [Exporter -> Thread]
        BY <2>1, <2>2, <2>3
    <2>5. ExportTypeOK'
        BY <1>1, <2>1, <2>4 DEF ExportTypeOK
    <2>6. ReadersFindArticles'
        BY <1>1 DEF ExportInv, ReadersFindArticles, Complete
    <2>7. \A x \in Exporter : exporters'[x].repo = "mirror" => target'.mirror
        BY <1>1, <2>2, <2>3 DEF ExportInv
    <2>8. Progress(e)'
        BY <2>2, <2>3 DEF Progress
    <2>9. \A x \in Exporter : Sole(x)'
        BY <2>2, <2>3, <2>8 DEF Sole
    <2> QED BY <2>5, <2>6, <2>7, <2>9 DEF ExportInv
<1> QED BY <1>2, <1>3

\* What the lemmas on the steps of a thread start from.
LEMMA ThreadFacts ==
    ASSUME ExportInv, NEW e \in Exporter
    PROVE  /\ ExportTypeOK /\ ReadersFindArticles /\ exporters[e] \in Thread
           /\ exporters[e].items \subseteq Doc /\ exporters[e].todo \subseteq File
           /\ exporters[e].open \subseteq File /\ exporters[e].repo \in Repo
           /\ exporters[e].repo = "mirror" => target.mirror
           /\ exporters[e].alone => Progress(e) /\ exporters[e].at # "idle"
           /\ v2 \in V2Trees /\ v2.work \in Tree /\ v2.lock \in Tree /\ v2.index \in Tree
           /\ v2.commit \in Tree /\ v2.remote \in Tree
           /\ exportJob \in BOOLEAN /\ exportFaults \in 0..MaxExportFaults
           /\ changes \in 0..MaxChanges /\ staleLocks \subseteq Repo
           /\ overlap \subseteq {"commit", "remote"} /\ exporters \in [Exporter -> Thread]
<1>1. ExportTypeOK /\ ReadersFindArticles /\ Sole(e)
      /\ (exporters[e].repo = "mirror" => target.mirror)
    BY DEF ExportInv
<1>2. exporters[e] \in Thread /\ v2 \in V2Trees
    BY <1>1 DEF ExportTypeOK, V2Trees
<1> QED BY <1>1, <1>2 DEF ExportTypeOK, Thread, V2Trees, Sole

\* A step by which an exporter only moves on in its program.
LEMMA MoveKeepsInv ==
    ASSUME ExportInv, NEW e \in Exporter, exporters[e].at # "idle",
           NEW at \in {"v2", "add", "commit", "push", "done"}, MoveOn(e, at),
           NEW repo \in Repo, repo = exporters[e].repo,
           UNCHANGED <<target, selectable, exportJob, v2, staleLocks, overlap, changes>>,
           exportFaults' \in 0..MaxExportFaults,
           exporters[e].alone /\ Progress(e) =>
               /\ at = "v2" => exporters[e].at = "v1"
               /\ at \in {"add", "commit", "push", "done"} => Written(e)
               /\ at = "commit" /\ repo = Home => v2.index = v2.work
               /\ at = "push" /\ repo = Home => v2.commit = v2.work
               /\ at = "done" => /\ v2.commit = v2.work
                                 /\ target.push /\ ~target.mirror => v2.remote = v2.commit
    PROVE  ExportInv'
<1> DEFINE y == [exporters[e] EXCEPT !.at = at]
<1>1. /\ exporters' = [exporters EXCEPT ![e] = y] /\ y \in Thread /\ y.at = at
      /\ y.repo = repo /\ y.items = exporters[e].items /\ y.todo = exporters[e].todo
      /\ y.alone = exporters[e].alone
    BY ThreadFacts DEF MoveOn, Thread
<1> HIDE DEF y
<1>2. exporters'[e] = y
    BY <1>1, ThreadFacts
<1>3. exporters[e].alone => Progress(e)
    BY ThreadFacts
<1>4. ASSUME y.alone PROVE Progress(e)'
    BY <1>1, <1>2, <1>3, <1>4 DEF Progress, Written, Home
<1>5. ReadersFindArticles'
    BY ThreadFacts DEF ReadersFindArticles, Complete
<1>6. v2' \in V2Trees
    BY ThreadFacts
<1> QED BY <1>1, <1>4, <1>5, <1>6, ThreadFacts, ExporterMoves

\* A step by which it writes a file of the working copy, or leaves it as it is right.
LEMMA WriteKeepsInv ==
    ASSUME ExportInv, NEW e \in Exporter,
           WriteV1(e) \/ SkipFile(e) \/ TruncateFile(e) \/ WriteFile(e)
    PROVE  ExportInv'
<1>1. /\ exporters[e] \in Thread /\ exporters[e].items \subseteq Doc
      /\ exporters[e].todo \subseteq File /\ exporters[e].open \subseteq File
      /\ exporters[e].repo = "mirror" => target.mirror
      /\ exporters[e].alone => Progress(e)
      /\ v2 \in V2Trees /\ v2.work \in Tree /\ ReadersFindArticles
      /\ exportJob \in BOOLEAN /\ exportFaults \in 0..MaxExportFaults
      /\ changes \in 0..MaxChanges /\ staleLocks \subseteq Repo
      /\ overlap \subseteq {"commit", "remote"} /\ exporters \in [Exporter -> Thread]
    BY ThreadFacts
<1> DEFINE Past(f) == [exporters[e] EXCEPT !.todo = @ \ {f}, !.open = {},
                           !.at = IF exporters[e].todo = {f} THEN "status" ELSE "v2"]
<1>2. ASSUME NEW f, Ready(e, f)
      PROVE  /\ exporters' = [exporters EXCEPT ![e] = Past(f)] /\ Past(f) \in Thread
             /\ exporters'[e] = Past(f)
             /\ Past(f).at = IF exporters[e].todo = {f} THEN "status" ELSE "v2"
             /\ Past(f).todo = exporters[e].todo \ {f} /\ Past(f).items = exporters[e].items
             /\ Past(f).repo = exporters[e].repo /\ Past(f).alone = exporters[e].alone
    BY <1>1, <1>2 DEF Ready, Thread
<1> HIDE DEF Past
\* The file is right now, and no other file has changed.
<1>3. ASSUME NEW f \in File, Ready(e, f), exporters[e].at = "v2", Progress(e),
             v2'.work[f] = Content(exporters[e].items, f),
             \A g \in File : g # f => v2'.work[g] = v2.work[g]
      PROVE  Progress(e)'
    <2>1. \A g \in Generated(exporters[e].items) \ (exporters[e].todo \ {f}) :
              v2'.work[g] = Content(exporters[e].items, g)
        BY <1>1, <1>3, ContentShape DEF Progress
    <2> QED BY <1>2, <1>3, <2>1 DEF Progress, Written
<1>4. CASE WriteV1(e)
    <2>1. /\ exporters[e].at = "v1" /\ MoveOn(e, "v2")
          /\ UNCHANGED <<target, selectable, exportJob, v2, staleLocks, overlap, exportFaults,
                         changes>>
        BY <1>4 DEF WriteV1, Is
    <2> QED BY <1>1, <2>1, MoveKeepsInv DEF Thread
<1>5. CASE SkipFile(e)
    <2>1. PICK f \in exporters[e].todo :
              IsNext(e, f) /\ v2.work[f] = Content(exporters[e].items, f) /\ Ready(e, f)
        BY <1>5 DEF SkipFile
    <2>2. /\ exporters[e].at = "v2"
          /\ UNCHANGED <<target, selectable, exportJob, v2, staleLocks, overlap, exportFaults,
                         changes>>
        BY <1>5, <2>1 DEF SkipFile, IsNext, Is
    <2>3. exporters[e].alone => Progress(e)'
        BY <1>1, <1>3, <2>1, <2>2
    <2>4. ReadersFindArticles'
        BY <1>1, <2>2 DEF ReadersFindArticles, Complete
    <2> QED BY <1>1, <1>2, <2>1, <2>2, <2>3, <2>4, ExporterMoves
<1>6. CASE TruncateFile(e)
    <2>1. PICK f \in exporters[e].todo :
              /\ IsNext(e, f) /\ v2' = [v2 EXCEPT !.work[f] = {"torn"}]
              /\ IF v2.work[f] # Content(exporters[e].items, f) THEN UNCHANGED exportFaults
                 ELSE f \in Doc /\ MayFault
              /\ exporters' = [exporters EXCEPT ![e].open = {f}]
        BY <1>6 DEF TruncateFile
    <2>2. /\ exporters[e].at = "v2" /\ exportFaults' \in 0..MaxExportFaults
          /\ UNCHANGED <<target, selectable, exportJob, staleLocks, overlap, changes>>
        BY <1>1, <1>6, <2>1, MayFaultTypes DEF TruncateFile, IsNext, Is
    <2> DEFINE y == [exporters[e] EXCEPT !.open = {f}]
               x == [v2.work EXCEPT ![f] = {"torn"}]
    <2>3. /\ exporters' = [exporters EXCEPT ![e] = y] /\ y \in Thread /\ y.at = "v2"
          /\ y.todo = exporters[e].todo /\ y.items = exporters[e].items
          /\ y.repo = exporters[e].repo /\ y.alone = exporters[e].alone
        BY <1>1, <2>1, <2>2 DEF Thread
    <2>4. v2' = [v2 EXCEPT !.work = x] /\ x \in Tree /\ \A g \in File : g # f => x[g] = v2.work[g]
        BY <1>1, <2>1 DEF Tree, V2Trees
    <2> HIDE DEF x, y
    <2>5. v2' \in V2Trees /\ v2'.work = x /\ v2'.commit = v2.commit /\ v2'.remote = v2.remote
        BY <1>1, <2>4 DEF V2Trees
    <2>6. ReadersFindArticles'
        BY <1>1, <2>2, <2>5 DEF ReadersFindArticles, Complete
    <2>7. exporters'[e] = y
        BY <1>1, <2>3
    <2>8. ASSUME y.alone PROVE Progress(e)'
        <3>1. \A g \in Generated(exporters[e].items) \ exporters[e].todo :
                  v2'.work[g] = Content(exporters[e].items, g)
            BY <1>1, <2>1, <2>2, <2>3, <2>4, <2>5, <2>8, ContentShape DEF Progress
        <3> QED BY <1>1, <2>2, <2>3, <2>7, <2>8, <3>1 DEF Progress
    <2> QED BY <1>1, <2>2, <2>3, <2>5, <2>6, <2>8, ExporterMoves
<1>7. CASE WriteFile(e)
    <2>1. PICK f \in exporters[e].open :
              /\ \E text \in {Content(exporters[e].items, f)}
                                \cup IF exporters[e].alone THEN {} ELSE {{"torn"}} :
                     v2' = [v2 EXCEPT !.work[f] = text]
              /\ Ready(e, f)
        BY <1>7 DEF WriteFile
    <2>2. PICK text \in {Content(exporters[e].items, f)}
                           \cup IF exporters[e].alone THEN {} ELSE {{"torn"}} :
              v2' = [v2 EXCEPT !.work[f] = text]
        BY <2>1
    <2>3. UNCHANGED <<target, selectable, exportJob, staleLocks, overlap, exportFaults, changes>>
        BY <1>7 DEF WriteFile
    <2> DEFINE x == [v2.work EXCEPT ![f] = text]
    <2>4. text \in SUBSET (Doc \cup {"torn"})
        <3>1. Content(exporters[e].items, f) \in SUBSET (Doc \cup {"torn"})
            BY <1>1, ContentShape
        <3>2. text = Content(exporters[e].items, f) \/ text = {"torn"}
            BY <2>2
        <3> QED BY <3>1, <3>2
    <2>5. /\ v2' = [v2 EXCEPT !.work = x] /\ x \in Tree /\ x[f] = text
          /\ \A g \in File : g # f => x[g] = v2.work[g]
        BY <1>1, <2>2, <2>4 DEF Tree, V2Trees
    <2> HIDE DEF x
    <2>6. v2' \in V2Trees /\ v2'.work = x /\ v2'.commit = v2.commit /\ v2'.remote = v2.remote
        BY <1>1, <2>5 DEF V2Trees
    <2>7. ReadersFindArticles'
        BY <1>1, <2>3, <2>6 DEF ReadersFindArticles, Complete
    <2>8. exporters[e].at = "v2"
        BY <1>7 DEF WriteFile, Is
    <2>9. ASSUME exporters[e].alone PROVE Progress(e)'
        BY <1>1, <1>3, <2>1, <2>2, <2>5, <2>6, <2>8, <2>9
    <2> QED BY <1>1, <1>2, <2>1, <2>3, <2>6, <2>7, <2>8, <2>9, ExporterMoves
<1> QED BY <1>4, <1>5, <1>6, <1>7

\* A step by which it adds, commits or pushes what it has written.
LEMMA GitKeepsInv ==
    ASSUME ExportInv, NEW e \in Exporter,
           \/ Status(e) \/ BeginAdd(e) \/ StageFile(e) \/ EndAdd(e)
           \/ MirrorUnchanged(e) \/ Commit(e) \/ Push(e) \/ MirrorPushFails(e)
    PROVE  ExportInv'
<1>1. /\ exporters[e] \in Thread /\ exporters[e].items \subseteq Doc
      /\ exporters[e].todo \subseteq File /\ exporters[e].repo \in Repo
      /\ exporters[e].repo = "mirror" => target.mirror
      /\ exporters[e].alone => Progress(e)
      /\ v2 \in V2Trees /\ v2.work \in Tree /\ v2.lock \in Tree /\ v2.index \in Tree
      /\ v2.commit \in Tree /\ v2.remote \in Tree /\ ReadersFindArticles
      /\ exportJob \in BOOLEAN /\ exportFaults \in 0..MaxExportFaults
      /\ changes \in 0..MaxChanges /\ staleLocks \subseteq Repo
      /\ overlap \subseteq {"commit", "remote"} /\ exporters \in [Exporter -> Thread]
    BY ThreadFacts
<1>2. CASE Status(e)
    <2>1. PICK v1Changed \in {FALSE, target.dual} :
              MoveOn(e, IF v1Changed \/ (Home = "main" /\ ~Clean) THEN "add" ELSE "push")
        BY <1>2 DEF Status
    <2>2. /\ exporters[e].at = "status"
          /\ UNCHANGED <<target, selectable, exportJob, v2, staleLocks, overlap, exportFaults,
                         changes>>
        BY <1>2 DEF Status, Is
    <2>3. CASE v1Changed \/ (Home = "main" /\ ~Clean)
        <3>1. MoveOn(e, "add") /\ (Progress(e) => Written(e))
            BY <2>1, <2>2, <2>3 DEF Progress
        <3> QED BY <1>1, <2>2, <3>1, MoveKeepsInv
    <2>4. CASE ~(v1Changed \/ (Home = "main" /\ ~Clean))
        <3>1. MoveOn(e, "push")
            BY <2>1, <2>4
        <3>2. Progress(e) => /\ Written(e)
                             /\ exporters[e].repo = Home => v2.commit = v2.work
            BY <2>2, <2>4 DEF Progress, Clean
        <3> QED BY <1>1, <2>2, <3>1, <3>2, MoveKeepsInv
    <2> QED BY <2>3, <2>4
<1>3. CASE BeginAdd(e)
    <2> DEFINE y == [exporters[e] EXCEPT !.at = "adding",
                         !.todo = IF exporters[e].repo = Home THEN File ELSE {}]
    <2>1. /\ exporters' = [exporters EXCEPT ![e] = y] /\ exporters[e].at = "add"
          /\ UNCHANGED <<target, selectable, exportJob, v2, staleLocks, overlap, exportFaults,
                         changes>>
        BY <1>1, <1>3 DEF BeginAdd, Is
    <2>2. /\ y \in Thread /\ y.at = "adding" /\ y.items = exporters[e].items
          /\ y.repo = exporters[e].repo /\ y.alone = exporters[e].alone
          /\ exporters[e].repo = Home => y.todo = File
        BY <1>1 DEF Thread
    <2> HIDE DEF y
    <2>3. exporters'[e] = y
        BY <1>1, <2>1
    <2>4. ASSUME y.alone PROVE Progress(e)'
        BY <1>1, <2>1, <2>2, <2>3, <2>4 DEF Progress, Written, Home
    <2>5. ReadersFindArticles'
        BY <1>1, <2>1 DEF ReadersFindArticles, Complete
    <2> QED BY <1>1, <2>1, <2>2, <2>4, <2>5, ExporterMoves
<1>4. CASE StageFile(e)
    <2>1. PICK f \in exporters[e].todo :
              /\ v2' = [v2 EXCEPT !.lock[f] = v2.work[f]]
              /\ exporters' = [exporters EXCEPT ![e].todo = @ \ {f}]
        BY <1>4 DEF StageFile
    <2>2. /\ exporters[e].at = "adding"
          /\ UNCHANGED <<target, selectable, exportJob, staleLocks, overlap, exportFaults, changes>>
        BY <1>4 DEF StageFile, Is
    <2> DEFINE y == [exporters[e] EXCEPT !.todo = @ \ {f}]
               x == [v2.lock EXCEPT ![f] = v2.work[f]]
    <2>3. /\ exporters' = [exporters EXCEPT ![e] = y] /\ y \in Thread /\ y.at = "adding"
          /\ y.todo = exporters[e].todo \ {f} /\ y.items = exporters[e].items
          /\ y.repo = exporters[e].repo /\ y.alone = exporters[e].alone
        BY <1>1, <2>1, <2>2 DEF Thread
    <2>4. /\ v2' = [v2 EXCEPT !.lock = x] /\ x \in Tree /\ x[f] = v2.work[f]
          /\ \A g \in File : g # f => x[g] = v2.lock[g]
        BY <1>1, <2>1 DEF Tree, V2Trees
    <2> HIDE DEF x, y
    <2>5. /\ v2' \in V2Trees /\ v2'.work = v2.work /\ v2'.lock = x
          /\ v2'.commit = v2.commit /\ v2'.remote = v2.remote
        BY <1>1, <2>4 DEF V2Trees
    <2>6. ReadersFindArticles'
        BY <1>1, <2>2, <2>5 DEF ReadersFindArticles, Complete
    <2>7. exporters'[e] = y
        BY <1>1, <2>3
    <2>8. ASSUME y.alone PROVE Progress(e)'
        <3>1. exporters[e].repo = Home =>
                  \A g \in File \ (exporters[e].todo \ {f}) : v2'.lock[g] = v2'.work[g]
            BY <1>1, <2>2, <2>3, <2>4, <2>5, <2>8 DEF Progress
        <3> QED BY <1>1, <2>2, <2>3, <2>5, <2>7, <2>8, <3>1 DEF Progress, Written, Home
    <2> QED BY <1>1, <2>2, <2>3, <2>5, <2>6, <2>8, ExporterMoves
<1>5. CASE EndAdd(e)
    <2>1. /\ exporters[e].at = "adding" /\ exporters[e].todo = {} /\ MoveOn(e, "commit")
          /\ v2' = IF exporters[e].repo = Home THEN [v2 EXCEPT !.index = v2.lock] ELSE v2
          /\ UNCHANGED <<target, selectable, exportJob, staleLocks, overlap, exportFaults, changes>>
        BY <1>5 DEF EndAdd, Is
    <2> DEFINE y == [exporters[e] EXCEPT !.at = "commit"]
    <2>2. /\ exporters' = [exporters EXCEPT ![e] = y] /\ y \in Thread /\ y.at = "commit"
          /\ y.items = exporters[e].items /\ y.todo = exporters[e].todo
          /\ y.repo = exporters[e].repo /\ y.alone = exporters[e].alone
        BY <1>1, <2>1 DEF MoveOn, Thread
    <2> HIDE DEF y
    <2>3. /\ v2' \in V2Trees /\ v2'.work = v2.work
          /\ exporters[e].repo = Home => v2'.index = v2.lock
          /\ v2'.commit = v2.commit /\ v2'.remote = v2.remote
        BY <1>1, <2>1 DEF V2Trees
    <2>4. ReadersFindArticles'
        BY <1>1, <2>1, <2>3 DEF ReadersFindArticles, Complete
    <2>5. exporters'[e] = y
        BY <1>1, <2>2
    <2>6. ASSUME y.alone PROVE Progress(e)'
        <3>1. exporters[e].repo = Home => v2.lock = v2.work
            BY <1>1, <2>1, <2>2, <2>6 DEF Progress, Tree
        <3> QED BY <1>1, <2>1, <2>2, <2>3, <2>5, <2>6, <3>1 DEF Progress, Written, Home
    <2> QED BY <1>1, <2>1, <2>2, <2>3, <2>4, <2>6, ExporterMoves
<1>6. CASE MirrorUnchanged(e)
    <2>1. /\ exporters[e].at = "commit" /\ exporters[e].repo = "mirror" /\ Clean
          /\ MoveOn(e, "done")
          /\ UNCHANGED <<target, selectable, exportJob, v2, staleLocks, overlap, exportFaults,
                         changes>>
        BY <1>6 DEF MirrorUnchanged, Is
    <2>2. Progress(e) => Written(e) /\ v2.commit = v2.work
        BY <1>1, <2>1 DEF Progress, Clean, Home
    <2> QED BY <1>1, <2>1, <2>2, MoveKeepsInv
<1>7. CASE Commit(e)
    <2>1. /\ exporters[e].at = "commit" /\ MoveOn(e, "push")
          /\ UNCHANGED <<target, selectable, exportJob, staleLocks, exportFaults, changes>>
        BY <1>7 DEF Commit, Is
    <2>2. CASE exporters[e].repo # Home
        <3>1. UNCHANGED <<v2, overlap>>
            BY <1>7, <2>2 DEF Commit
        <3>2. Progress(e) => Written(e)
            BY <2>1 DEF Progress
        <3> QED BY <1>1, <2>1, <2>2, <3>1, <3>2, MoveKeepsInv
    <2>3. CASE exporters[e].repo = Home
        <3>1. /\ v2' = [v2 EXCEPT !.commit = v2.index]
              /\ overlap' = IF exporters[e].alone THEN overlap \ {"commit"}
                            ELSE overlap \cup {"commit"}
            BY <1>7, <2>3 DEF Commit
        <3> DEFINE y == [exporters[e] EXCEPT !.at = "push"]
        <3>2. /\ exporters' = [exporters EXCEPT ![e] = y] /\ y \in Thread /\ y.at = "push"
              /\ y.items = exporters[e].items /\ y.todo = exporters[e].todo
              /\ y.repo = exporters[e].repo /\ y.alone = exporters[e].alone
            BY <1>1, <2>1 DEF MoveOn, Thread
        <3> HIDE DEF y
        <3>3. /\ v2' \in V2Trees /\ v2'.work = v2.work /\ v2'.commit = v2.index
              /\ v2'.remote = v2.remote
            BY <1>1, <3>1 DEF V2Trees
        <3>4. exporters'[e] = y
            BY <1>1, <3>2
        <3>5. exporters[e].alone => Written(e) /\ v2.index = v2.work
            BY <1>1, <2>1, <2>3 DEF Progress
        <3>6. ASSUME y.alone PROVE Progress(e)'
            BY <1>1, <2>1, <3>2, <3>3, <3>4, <3>5, <3>6 DEF Progress, Written, Home
        <3>7. exporters[e].alone => Complete(v2.index)
            BY <1>1, <3>5, WrittenIsComplete
        <3>8. ReadersFindArticles'
            BY <1>1, <3>1, <3>3, <3>7 DEF ReadersFindArticles, Complete
        <3> QED BY <1>1, <2>1, <3>1, <3>2, <3>3, <3>6, <3>8, ExporterMoves
    <2> QED BY <2>2, <2>3
<1>8. CASE Push(e)
    <2>1. /\ exporters[e].at = "push" /\ AfterPush(e)
          /\ UNCHANGED <<target, selectable, exportJob, staleLocks, exportFaults, changes>>
          /\ IF exporters[e].repo = Home /\ (target.push \/ target.mirror)
             THEN /\ v2' = [v2 EXCEPT !.remote = v2.commit]
                  /\ overlap' = IF "commit" \in overlap THEN overlap \cup {"remote"}
                                ELSE overlap \ {"remote"}
             ELSE UNCHANGED <<v2, overlap>>
        BY <1>8 DEF Push, Is
    <2> DEFINE toMirror == exporters[e].repo = "main" /\ target.mirror
               y == IF toMirror THEN [exporters[e] EXCEPT !.repo = "mirror", !.at = "add"]
                    ELSE [exporters[e] EXCEPT !.at = "done"]
    <2>2. /\ exporters' = [exporters EXCEPT ![e] = y] /\ y \in Thread
          /\ y.at = IF toMirror THEN "add" ELSE "done"
          /\ y.repo = "mirror" => target.mirror
          /\ y.items = exporters[e].items /\ y.alone = exporters[e].alone
        BY <1>1, <2>1 DEF AfterPush, Thread, Repo
    <2> HIDE DEF y
    <2>3. /\ v2' \in V2Trees /\ v2'.work = v2.work /\ v2'.commit = v2.commit
          /\ overlap' \subseteq {"commit", "remote"}
          /\ exporters[e].repo = Home /\ (target.push \/ target.mirror) => v2'.remote = v2.commit
        BY <1>1, <2>1 DEF V2Trees
    <2>4. ReadersFindArticles'
        <3>1. CASE exporters[e].repo = Home /\ (target.push \/ target.mirror)
            BY <1>1, <2>1, <2>3, <3>1 DEF ReadersFindArticles, Complete
        <3>2. CASE ~(exporters[e].repo = Home /\ (target.push \/ target.mirror))
            BY <1>1, <2>1, <3>2 DEF ReadersFindArticles, Complete
        <3> QED BY <3>1, <3>2
    <2>5. exporters'[e] = y
        BY <1>1, <2>2
    <2>6. ASSUME y.alone PROVE Progress(e)'
        <3>1. Written(e) /\ (exporters[e].repo = Home => v2.commit = v2.work)
            BY <1>1, <2>1, <2>2, <2>6 DEF Progress
        <3>2. Written(e)'
            BY <2>2, <2>3, <2>5, <3>1 DEF Written
        <3>3. CASE toMirror
            BY <2>2, <2>5, <3>2, <3>3 DEF Progress
        <3>4. CASE ~toMirror
            <4>1. exporters[e].repo = Home
                BY <1>1, <3>4 DEF Home, Repo
            <4> QED BY <2>1, <2>2, <2>3, <2>5, <3>1, <3>2, <3>4, <4>1 DEF Progress
        <3> QED BY <3>3, <3>4
    <2> QED BY <1>1, <2>1, <2>2, <2>3, <2>4, <2>6, ExporterMoves
<1>9. CASE MirrorPushFails(e)
    <2>1. /\ exporters[e].at = "push" /\ exporters[e].repo = "mirror" /\ MoveOn(e, "done")
          /\ UNCHANGED <<target, selectable, exportJob, v2, staleLocks, overlap, changes>>
          /\ exportFaults' \in 0..MaxExportFaults
        BY <1>1, <1>9, MayFaultTypes DEF MirrorPushFails, Is
    <2>2. Progress(e) => Written(e) /\ v2.commit = v2.work
        BY <1>1, <2>1 DEF Progress, Home
    <2> QED BY <1>1, <2>1, <2>2, MoveKeepsInv
<1> QED BY <1>2, <1>3, <1>4, <1>5, <1>6, <1>7, <1>8, <1>9

\* A thread returns, however far it has come.
LEMMA EndKeepsInv ==
    ASSUME ExportInv, NEW e \in Exporter,
           GitRefuses(e) \/ FailExport(e) \/ CompleteExport(e) \/ LoseLease(e)
    PROVE  ExportInv'
<1>1. /\ exporters[e] \in Thread /\ exporters[e].repo = "mirror" => target.mirror
      /\ exporters[e].alone => Progress(e) /\ exporters[e].at # "idle"
      /\ v2 \in V2Trees /\ v2.index \in Tree /\ ReadersFindArticles
      /\ exportJob \in BOOLEAN /\ exportFaults \in 0..MaxExportFaults
      /\ changes \in 0..MaxChanges /\ staleLocks \subseteq Repo
      /\ overlap \subseteq {"commit", "remote"} /\ exporters \in [Exporter -> Thread]
      /\ ExportTypeOK
    BY ThreadFacts
<1>2. ASSUME Fails(e), exporters[e].at # "idle", exportFaults' \in 0..MaxExportFaults
      PROVE  ExportInv'
    <2>1. /\ exportJob' \in BOOLEAN /\ exporters' = [exporters EXCEPT ![e] = IdleThread]
          /\ v2' = IF Is(e, "adding") /\ exporters[e].repo = Home
                   THEN [v2 EXCEPT !.lock = v2.index] ELSE v2
          /\ UNCHANGED <<target, selectable, staleLocks, overlap, changes>>
        BY <1>1, <1>2 DEF Fails, Finish
    <2>2. v2' \in V2Trees /\ v2'.commit = v2.commit /\ v2'.remote = v2.remote
        BY <1>1, <2>1 DEF V2Trees
    <2>3. ReadersFindArticles'
        BY <1>1, <2>1, <2>2 DEF ReadersFindArticles, Complete
    <2> QED BY <1>1, <1>2, <2>1, <2>2, <2>3, IdleThreadShape, ExporterMoves
<1>3. CASE GitRefuses(e)
    <2>1. Fails(e) /\ exporters[e].at # "idle" /\ exportFaults' = exportFaults
        BY <1>3 DEF GitRefuses, Is
    <2> QED BY <1>1, <1>2, <2>1
<1>4. CASE FailExport(e)
    <2>1. Fails(e) /\ exporters[e].at # "idle" /\ exportFaults' \in 0..MaxExportFaults
        BY <1>1, <1>4, MayFaultTypes DEF FailExport, Is
    <2> QED BY <1>2, <2>1
<1>5. CASE CompleteExport(e)
    <2>1. /\ exporters[e].at = "done" /\ exporters' = [exporters EXCEPT ![e] = IdleThread]
          /\ exportJob' \in BOOLEAN
          /\ UNCHANGED <<target, selectable, v2, staleLocks, overlap, exportFaults, changes>>
        BY <1>1, <1>5 DEF CompleteExport, Finish, Is
    <2>2. ReadersFindArticles'
        BY <1>1, <2>1 DEF ReadersFindArticles, Complete
    <2> QED BY <1>1, <2>1, <2>2, IdleThreadShape, ExporterMoves
<1>6. CASE LoseLease(e)
    <2>1. /\ exporters' = [exporters EXCEPT ![e].held = FALSE] /\ exportJob' \in BOOLEAN
          /\ UNCHANGED <<target, selectable, v2, staleLocks, overlap, changes>>
          /\ exportFaults' \in 0..MaxExportFaults
        BY <1>1, <1>6, MayFaultTypes DEF LoseLease
    <2>2. /\ exporters' \in [Exporter -> Thread]
          /\ \A x \in Exporter :
                 /\ exporters'[x].at = exporters[x].at /\ exporters'[x].repo = exporters[x].repo
                 /\ exporters'[x].alone = exporters[x].alone
                 /\ exporters'[x].items = exporters[x].items
                 /\ exporters'[x].todo = exporters[x].todo
        <3> DEFINE y == [exporters[e] EXCEPT !.held = FALSE]
        <3>1. /\ exporters' = [exporters EXCEPT ![e] = y] /\ y \in Thread
              /\ y.at = exporters[e].at /\ y.repo = exporters[e].repo
              /\ y.alone = exporters[e].alone
              /\ y.items = exporters[e].items /\ y.todo = exporters[e].todo
            BY <1>1, <2>1 DEF Thread
        <3> HIDE DEF y
        <3> QED BY <1>1, <3>1
    <2>3. /\ target' \in [enabled : BOOLEAN, dual : BOOLEAN, mirror : BOOLEAN, push : BOOLEAN]
          /\ target'.push = target.push /\ target'.mirror = target.mirror
          /\ selectable' \subseteq Doc /\ changes' \in 0..MaxChanges
          /\ staleLocks' \subseteq Repo /\ UNCHANGED <<v2, overlap>>
        BY <1>1, <2>1 DEF ExportTypeOK
    <2> QED BY <2>1, <2>2, <2>3, TreesStay
<1> QED BY <1>3, <1>4, <1>5, <1>6

LEMMA CrashKeepsInv ==
    ASSUME ExportInv, ExporterCrash
    PROVE  ExportInv'
<1>1. /\ ExportTypeOK /\ ReadersFindArticles
      /\ exporters \in [Exporter -> Thread] /\ v2 \in V2Trees
    BY DEF ExportInv, ExportTypeOK, V2Trees
<1>2. /\ exporters' = [e \in Exporter |-> IdleThread] /\ exportJob' \in BOOLEAN
      /\ v2' = [v2 EXCEPT !.lock = v2.index]
      /\ UNCHANGED <<target, selectable, overlap, changes>>
    BY <1>1 DEF ExporterCrash, ExportTypeOK
<1>3. staleLocks' \subseteq Repo
    <2>1. PICK died \in SUBSET {e \in Exporter : exporters[e].at \in {"adding", "commit", "push"}} :
              staleLocks' = staleLocks \cup {exporters[e].repo : e \in died}
        BY DEF ExporterCrash
    <2>2. \A e \in died : exporters[e].repo \in Repo
        BY <1>1 DEF Thread
    <2> QED BY <1>1, <2>1, <2>2 DEF ExportTypeOK
<1>4. exportFaults' \in 0..MaxExportFaults
    BY <1>1, MayFaultTypes DEF ExporterCrash, ExportTypeOK
<1>5. v2' \in V2Trees /\ v2'.commit = v2.commit /\ v2'.remote = v2.remote
    BY <1>1, <1>2 DEF V2Trees
<1>6. /\ exporters' \in [Exporter -> Thread]
      /\ \A e \in Exporter : ~exporters'[e].alone /\ exporters'[e].repo = "main"
    BY <1>2, IdleThreadShape
<1>7. ExportTypeOK'
    BY <1>1, <1>2, <1>3, <1>4, <1>5, <1>6 DEF ExportTypeOK, V2Trees
<1>8. ReadersFindArticles'
    BY <1>1, <1>2, <1>5 DEF ReadersFindArticles, Complete
<1> QED BY <1>6, <1>7, <1>8 DEF ExportInv, Sole

LEMMA StepExportInv ==
    ASSUME ExportInv, [ExportNext]_exportVars
    PROVE  ExportInv'
<1>1. /\ target \in [enabled : BOOLEAN, dual : BOOLEAN, mirror : BOOLEAN, push : BOOLEAN]
      /\ selectable \subseteq Doc /\ exportJob \in BOOLEAN /\ staleLocks \subseteq Repo
      /\ exportFaults \in 0..MaxExportFaults /\ changes \in 0..MaxChanges
      /\ exporters \in [Exporter -> Thread]
    BY DEF ExportInv, ExportTypeOK
<1>2. CASE EnqueueExport
    BY <1>1, <1>2, TreesStay DEF EnqueueExport
<1>3. CASE SetEnabled
    <2>1. /\ target' = [target EXCEPT !.enabled = ~@] /\ changes' \in 0..MaxChanges
          /\ UNCHANGED <<selectable, exportJob, exporters, v2, staleLocks, overlap, exportFaults>>
        BY <1>1, <1>3, MayChangeTypes DEF SetEnabled
    <2>2. /\ target' \in [enabled : BOOLEAN, dual : BOOLEAN, mirror : BOOLEAN, push : BOOLEAN]
          /\ target'.push = target.push /\ target'.mirror = target.mirror
        BY <1>1, <2>1
    <2> QED BY <1>1, <2>1, <2>2, TreesStay
<1>4. ASSUME NEW d \in Doc, SelectionChanges(d)
      PROVE  ExportInv'
    <2>1. /\ selectable' \subseteq Doc /\ changes' \in 0..MaxChanges
          /\ UNCHANGED <<target, exportJob, exporters, v2, staleLocks, overlap, exportFaults>>
        BY <1>1, <1>4, MayChangeTypes DEF SelectionChanges
    <2> QED BY <1>1, <2>1, TreesStay
<1>5. CASE UNCHANGED exportVars
    BY <1>1, <1>5, TreesStay DEF exportVars
<1>6. ASSUME NEW e \in Exporter, ExporterStep(e) \/ ExporterFault(e)
      PROVE  ExportInv'
    BY <1>6, BeginKeepsInv, WriteKeepsInv, GitKeepsInv, EndKeepsInv
    DEF ExporterStep, ExporterFault
<1> QED BY <1>2, <1>3, <1>4, <1>5, <1>6, CrashKeepsInv DEF ExportNext

LEMMA InitExportInv ==
    ASSUME ExportInit
    PROVE  ExportInv
<1>1. target \in [enabled : BOOLEAN, dual : BOOLEAN, mirror : BOOLEAN, push : BOOLEAN]
    <2>1. PICK c \in TargetConfig :
              target = [enabled |-> TRUE, dual |-> c.dual, mirror |-> c.mirror, push |-> c.push]
        BY DEF ExportInit
    <2>2. c \in [dual : BOOLEAN, mirror : BOOLEAN, push : BOOLEAN]
        BY ExportAssumption
    <2> QED BY <2>1, <2>2
<1>2. /\ exporters \in [Exporter -> Thread]
      /\ \A e \in Exporter : ~exporters[e].alone /\ exporters[e].repo = "main"
    BY IdleThreadShape DEF ExportInit
<1>3. NoTree \in Tree /\ Head \in File /\ \A f \in File : NoTree[f] = {}
    BY ExportAssumption DEF NoTree, Tree, File
<1>4. Complete(NoTree)
    BY <1>3 DEF Complete, Content, Generated
<1>5. v2 \in V2Trees /\ v2.commit = NoTree /\ v2.remote = NoTree
    BY <1>3 DEF ExportInit, V2Trees
<1>6. exportFaults \in 0..MaxExportFaults /\ changes \in 0..MaxChanges
    BY ExportAssumption DEF ExportInit
<1>7. selectable \subseteq Doc /\ exportJob \in BOOLEAN /\ staleLocks = {} /\ overlap = {}
    BY DEF ExportInit
<1>8. ExportTypeOK
    BY <1>1, <1>2, <1>5, <1>6, <1>7 DEF ExportTypeOK, V2Trees
<1>9. ReadersFindArticles
    BY <1>4, <1>5 DEF ReadersFindArticles
<1> QED BY <1>2, <1>8, <1>9 DEF ExportInv, Sole

LEMMA ExportInvHolds == ExportSpec => []ExportInv
BY InitExportInv, StepExportInv, PTL DEF ExportSpec

(* What an exporter commits that has had the working copy to itself is a generation a reader
   can open whole, and so is what any exporter pushes of it: for any number of articles,
   indexes and attempts, torn files, crashes and locks left behind (archive_v2.rs, lib.rs). *)
THEOREM ArchiveIsReadable == ExportSpec => []ReadersFindArticles
<1>1. ExportInv => ReadersFindArticles
    BY DEF ExportInv
<1> QED BY <1>1, ExportInvHolds, PTL

(* When an exporter that has been alone records its articles as exported, they are committed,
   and pushed if the run is one that fails without it (export_archive_sync,
   complete_export_run). *)
THEOREM CheckpointsArePublished == ExportSpec => []CheckpointIsPublished
<1>1. ASSUME ExportInv, NEW e \in Exporter, Is(e, "done"), exporters[e].alone
      PROVE  \A d \in exporters[e].items :
                 /\ v2.commit[d] = {d}
                 /\ target.push /\ ~target.mirror => v2.remote[d] = {d}
    <2>1. /\ exporters[e].items \subseteq Doc /\ Written(e) /\ v2.commit = v2.work
          /\ target.push /\ ~target.mirror => v2.remote = v2.commit
        BY <1>1, ThreadFacts DEF Progress, Is
    <2> QED BY <2>1, WrittenIsComplete
<1>2. ExportInv => CheckpointIsPublished
    BY <1>1 DEF CheckpointIsPublished
<1> QED BY <1>2, ExportInvHolds, PTL

-----------------------------------------------------------------------------
(* The rows an export selects *)

LEMMA StepSelectionTypes ==
    ASSUME SelectionTypeOK, [SelectionNext]_selectionVars
    PROVE  SelectionTypeOK'
<1>1. Cardinality(Story) \in Nat /\ Story = 1..Cardinality(Story)
    BY SelectionAssumption, FS_CardinalityType
<1>2. ASSUME NEW s \in Story, Recrawl(s)
      PROVE  SelectionTypeOK'
    <2>1. ASSUME NEW t \in Story
          PROVE  fetched'[t] \in 1..Cardinality(Story)
        <3>1. /\ fetched[t] \in 1..Cardinality(Story) /\ fetched[s] \in 1..Cardinality(Story)
              /\ s \in 1..Cardinality(Story)
            BY <1>1, <1>2 DEF SelectionTypeOK
        <3>2. fetched'[t] = IF t = s THEN Cardinality(Story)
                            ELSE IF fetched[t] > fetched[s] THEN fetched[t] - 1 ELSE fetched[t]
            BY <1>2 DEF Recrawl
        <3> QED BY <1>1, <3>1, <3>2
    <2>2. fetched' \in [Story -> 1..Cardinality(Story)]
        BY <1>2, <2>1 DEF Recrawl
    <2> QED BY <1>2, <2>2 DEF Recrawl, SelectionTypeOK
<1>3. ASSUME NEW s \in Story, Hydrate(s)
      PROVE  SelectionTypeOK'
    <2>1. content[s] \in 0..1
        BY DEF SelectionTypeOK
    <2>2. 1 - content[s] \in 0..1
        BY <2>1
    <2> QED BY <1>3, <2>2 DEF Hydrate, SelectionTypeOK
<1>4. ASSUME NEW s \in Story, ShowOrHide(s)
      PROVE  SelectionTypeOK'
    BY <1>4 DEF ShowOrHide, SelectionTypeOK
<1>5. CASE UNCHANGED selectionVars
    BY <1>5 DEF selectionVars, SelectionTypeOK
<1> QED BY <1>2, <1>3, <1>4, <1>5 DEF SelectionNext

LEMMA InitSelectionTypes ==
    ASSUME SelectionInit
    PROVE  SelectionTypeOK
BY SelectionAssumption DEF SelectionInit, SelectionTypeOK

(* What is read of the stored articles is typed: the fetch times are ranks. *)
THEOREM SelectionIsTyped == SelectionSpec => []SelectionTypeOK
BY InitSelectionTypes, StepSelectionTypes, PTL DEF SelectionSpec

\* Two rows of one document are of one URL of one entity, and of those the last stage keeps the
\* one that comes first in a total order.
LEMMA SelectedDocuments ==
    ASSUME SelectionTypeOK
    PROVE  OneRowPerDocument
<1> SUFFICES ASSUME NEW s \in EntityRows, NEW t \in EntityRows, DocumentId(s) = DocumentId(t)
             PROVE  s = t
    BY DEF OneRowPerDocument
<1>1. s \in TitleRows /\ t \in TitleRows /\ s \in Story /\ t \in Story
    BY DEF EntityRows, TitleRows, CanonicalRows, SelectionTypeOK
<1>2. SameEntityUrl(s, t) /\ SameEntityUrl(t, s)
    BY DEF DocumentId, SameEntityUrl, Identity
<1>3. Earlier(s, t) /\ Earlier(t, s)
    BY <1>1, <1>2 DEF EntityRows
<1>4. fetched[s] \in Nat /\ fetched[t] \in Nat /\ s \in Nat /\ t \in Nat
    <2>1. Cardinality(Story) \in Nat /\ Story = 1..Cardinality(Story)
        BY SelectionAssumption, FS_CardinalityType
    <2>2. /\ fetched[s] \in 1..Cardinality(Story) /\ fetched[t] \in 1..Cardinality(Story)
          /\ s \in 1..Cardinality(Story) /\ t \in 1..Cardinality(Story)
        BY <1>1, <2>1 DEF SelectionTypeOK
    <2> QED BY <2>1, <2>2
<1> QED BY <1>3, <1>4 DEF Earlier

(* The exporter is never handed two rows of one document, whatever companies, entities, titles,
   URLs and their identities there are, in whatever state a crawl or a hydration leaves the
   stored articles (list_exportable_feed_items; project_articles would refuse the archive). *)
THEOREM DocumentsAreDistinct == SelectionSpec => []OneRowPerDocument
BY SelectionIsTyped, SelectedDocuments, PTL

-----------------------------------------------------------------------------
(* The article crawler *)

LEMMA QueuedIsFetch ==
    ASSUME NEW c \in Candidate
    PROVE  Queued(c) \in Fetch
BY ArticleLimitsAssumption DEF Queued, Fetch, Host, Pending

LEMMA DoneKeepsTypes ==
    ASSUME FetchTypeOK, NEW c \in Candidate, NEW result \in Item \cup {Failure}, Done(c, result),
           UNCHANGED <<arrivals, reports>>
    PROVE  FetchTypeOK'
<1>1. [Queued(c) EXCEPT !.at = "done", !.result = result] \in Fetch
    BY QueuedIsFetch DEF Queued, Fetch
<1> QED BY <1>1 DEF Done, Step, FetchTypeOK

LEMMA StepKeepsFetchTypes ==
    ASSUME FetchTypeOK, NEW c \in Candidate, NEW fields \in Fetch, Step(c, fields),
           UNCHANGED <<arrivals, reports>>
    PROVE  FetchTypeOK'
BY DEF Step, FetchTypeOK

LEMMA StepFetchTypes ==
    ASSUME FetchTypeOK, [FetchNext]_fetchVars
    PROVE  FetchTypeOK'
<1>1. \A c \in Candidate : fetches[c] \in Fetch
    BY DEF FetchTypeOK
<1>2. ASSUME NEW c \in Candidate, Advance(c)
      PROVE  FetchTypeOK'
    <2>1. ASSUME Begin(c) \/ AcquireHost(c) \/ AcquireSlot(c)
          PROVE  FetchTypeOK'
        <3>1. \A at \in {"host", "slot", "request"} : [fetches[c] EXCEPT !.at = at] \in Fetch
            BY <1>1 DEF Fetch
        <3> QED BY <2>1, <3>1, StepKeepsFetchTypes DEF Begin, AcquireHost, AcquireSlot
    <2>2. CASE Redirected(c)
        <3>1. CASE Done(c, Failure)
            BY <2>2, <3>1, DoneKeepsTypes DEF Redirected
        <3>2. ASSUME NEW h \in Host, fetches[c].hops # MaxRedirects,
                     Step(c, [fetches[c] EXCEPT !.at = "host", !.host = h, !.hops = @ + 1])
              PROVE  FetchTypeOK'
            <4>1. fetches[c].hops + 1 \in 0..MaxRedirects
                <5>1. fetches[c].hops \in 0..MaxRedirects
                    BY <1>1 DEF Fetch
                <5> QED BY <5>1, <3>2, ArticleLimitsAssumption DEF ArticleLimitsAssumption
            <4>2. [fetches[c] EXCEPT !.at = "host", !.host = h, !.hops = @ + 1] \in Fetch
                BY <1>1, <4>1 DEF Fetch
            <4> QED BY <2>2, <3>2, <4>2, StepKeepsFetchTypes DEF Redirected
        <3> QED BY <2>2, <3>1, <3>2 DEF Redirected
    <2>3. CASE FetchFails(c)
        BY <2>3, DoneKeepsTypes DEF FetchFails
    <2>4. CASE Extracted(c)
        BY <2>4, DoneKeepsTypes DEF Extracted
    <2>5. CASE BrowserFetched(c)
        BY <2>5, DoneKeepsTypes DEF BrowserFetched
    <2>6. CASE FollowFramework(c)
        <3>1. PICK next \in {"sveltekit", "aem"} :
                  Step(c, [fetches[c] EXCEPT !.at = "host", !.resource = next, !.hops = 0])
            BY <2>6 DEF FollowFramework
        <3>2. [fetches[c] EXCEPT !.at = "host", !.resource = next, !.hops = 0] \in Fetch
            <4>1. 0 \in 0..MaxRedirects
                BY ArticleLimitsAssumption
            <4> QED BY <1>1, <4>1 DEF Fetch
        <3> QED BY <2>6, <3>1, <3>2, StepKeepsFetchTypes DEF FollowFramework
    <2> QED BY <1>2, <2>1, <2>2, <2>3, <2>4, <2>5, <2>6 DEF Advance
<1>3. ASSUME NEW c \in Candidate, Arrive(c)
      PROVE  FetchTypeOK'
    BY <1>3 DEF Arrive, Group, FetchTypeOK
<1>4. ASSUME NEW b \in CrawlBatch, CollectReport(b)
      PROVE  FetchTypeOK'
    BY <1>4 DEF CollectReport, Members, Report, FetchTypeOK
<1>5. ASSUME NEW b \in CrawlBatch, JudgeReport(b)
      PROVE  FetchTypeOK'
    BY <1>5 DEF JudgeReport, Report, FetchTypeOK
<1>6. CASE UNCHANGED fetchVars
    BY <1>6 DEF fetchVars, FetchTypeOK
<1> QED BY <1>2, <1>3, <1>4, <1>5, <1>6 DEF FetchNext

LEMMA InitFetchTypes ==
    ASSUME FetchInit
    PROVE  FetchTypeOK
BY QueuedIsFetch DEF FetchInit, FetchTypeOK, Report

(* No page is redirected beyond the limit, and a report names candidates of the crawl only. *)
THEOREM FetchIsTyped == FetchSpec => []FetchTypeOK
BY InitFetchTypes, StepFetchTypes, PTL DEF FetchSpec

\* A step of a fetch changes that fetch alone, and none that is done.
LEMMA AdvanceIsLocal ==
    ASSUME FetchTypeOK, NEW c \in Candidate, Advance(c)
    PROVE  /\ UNCHANGED <<arrivals, reports>> /\ fetches[c].at # "done"
           /\ \A d \in Candidate \ {c} : fetches'[d] = fetches[d]
           /\ \/ fetches'[c].at \in {"host", "done"}
              \/ AcquireHost(c) \/ AcquireSlot(c)
<1>1. ASSUME NEW x, Step(c, x)
      PROVE  fetches'[c] = x /\ \A d \in Candidate \ {c} : fetches'[d] = fetches[d]
    BY <1>1 DEF Step, FetchTypeOK
<1>2. ASSUME NEW result, Done(c, result)
      PROVE  fetches'[c].at = "done" /\ \A d \in Candidate \ {c} : fetches'[d] = fetches[d]
    <2>1. [Queued(c) EXCEPT !.at = "done", !.result = result].at = "done"
        BY DEF Queued
    <2> QED BY <1>1, <1>2, <2>1 DEF Done
<1>3. fetches[c] \in Fetch
    BY DEF FetchTypeOK
<1>4. CASE Begin(c)
    <2>1. [fetches[c] EXCEPT !.at = "host"].at = "host"
        BY <1>3 DEF Fetch
    <2> QED BY <1>1, <1>4, <2>1 DEF Begin
<1>5. CASE AcquireHost(c)
    BY <1>1, <1>5 DEF AcquireHost
<1>6. CASE AcquireSlot(c)
    BY <1>1, <1>6 DEF AcquireSlot
<1>7. CASE Redirected(c)
    <2>1. CASE Done(c, Failure)
        BY <1>2, <1>7, <2>1 DEF Redirected
    <2>2. ASSUME NEW h \in Host, Step(c, [fetches[c] EXCEPT !.at = "host", !.host = h, !.hops = @ + 1])
          PROVE  fetches'[c].at = "host" /\ \A d \in Candidate \ {c} : fetches'[d] = fetches[d]
        <3>1. [fetches[c] EXCEPT !.at = "host", !.host = h, !.hops = @ + 1].at = "host"
            BY <1>3 DEF Fetch
        <3> QED BY <1>1, <2>2, <3>1
    <2> QED BY <1>7, <2>1, <2>2 DEF Redirected
<1>8. CASE FetchFails(c) \/ Extracted(c) \/ BrowserFetched(c)
    BY <1>2, <1>8 DEF FetchFails, Extracted, BrowserFetched
<1>9. CASE FollowFramework(c)
    <2>1. PICK next \in {"sveltekit", "aem"} :
              Step(c, [fetches[c] EXCEPT !.at = "host", !.resource = next, !.hops = 0])
        BY <1>9 DEF FollowFramework
    <2>2. [fetches[c] EXCEPT !.at = "host", !.resource = next, !.hops = 0].at = "host"
        BY <1>3 DEF Fetch
    <2> QED BY <1>1, <1>9, <2>1, <2>2 DEF FollowFramework
<1> QED BY <1>4, <1>5, <1>6, <1>7, <1>8, <1>9 DEF Advance

LEMMA CandidatesAreFinite ==
    ASSUME NEW S, S \subseteq Candidate
    PROVE  IsFiniteSet(S) /\ Cardinality(S) \in Nat
<1>1. IsFiniteSet(Candidate)
    BY FS_Interval, ArticleLimitsAssumption DEF Candidate
<1>2. IsFiniteSet(S)
    BY <1>1, FS_Subset
<1> QED BY <1>2, FS_CardinalityType

\* At most one more, and that only where there was room.
LEMMA RoomForOneMore ==
    ASSUME NEW S, NEW T, NEW c \in Candidate, NEW limit \in Nat,
           S \subseteq Candidate, T \subseteq Candidate, T \subseteq S \cup {c},
           Cardinality(S) <= limit, T \subseteq S \/ Cardinality(S) < limit
    PROVE  Cardinality(T) <= limit
<1>1. IsFiniteSet(S) /\ Cardinality(S) \in Nat /\ Cardinality(T) \in Nat
    BY CandidatesAreFinite
<1>2. CASE T \subseteq S
    <2>1. Cardinality(T) <= Cardinality(S)
        BY <1>1, <1>2, FS_Subset
    <2> QED BY <1>1, <2>1
<1>3. CASE Cardinality(S) < limit
    <2>1. IsFiniteSet(S \cup {c}) /\ Cardinality(S \cup {c}) <= Cardinality(S) + 1
        <3>1. /\ IsFiniteSet(S \cup {c})
              /\ Cardinality(S \cup {c}) = IF c \in S THEN Cardinality(S) ELSE Cardinality(S) + 1
            BY <1>1, FS_AddElement
        <3> QED BY <1>1, <3>1
    <2>2. Cardinality(T) <= Cardinality(S \cup {c}) /\ Cardinality(S \cup {c}) \in Nat
        BY <2>1, FS_Subset, FS_CardinalityType
    <2> QED BY <1>1, <1>3, <2>1, <2>2
<1> QED BY <1>2, <1>3

LEMMA StepSlotsAreHeld ==
    ASSUME FetchTypeOK, SlotsAreHeld, [FetchNext]_fetchVars
    PROVE  SlotsAreHeld'
<1> USE DEF HostHolders, SlotHolders
<1>1. CASE UNCHANGED fetches
    BY <1>1 DEF SlotsAreHeld
<1>2. ASSUME NEW c \in Candidate, Advance(c)
      PROVE  SlotsAreHeld'
    <2>1. /\ \A d \in Candidate \ {c} : fetches'[d] = fetches[d]
          /\ fetches'[c].at \in {"host", "done"} \/ AcquireHost(c) \/ AcquireSlot(c)
        BY <1>2, AdvanceIsLocal
    <2>2. MaxPerHostConcurrency \in Nat /\ MaxConcurrency \in Nat
        BY ArticleLimitsAssumption
    <2>3. ASSUME AcquireHost(c)
          PROVE  /\ fetches[c].at = "host" /\ fetches'[c].at = "slot"
                 /\ fetches'[c].host = fetches[c].host
                 /\ Cardinality(HostHolders(fetches[c].host)) < MaxPerHostConcurrency
        BY <2>3 DEF AcquireHost, Step, FetchTypeOK, Fetch
    <2>4. ASSUME AcquireSlot(c)
          PROVE  /\ fetches[c].at = "slot" /\ fetches'[c].at = "request"
                 /\ fetches'[c].host = fetches[c].host
                 /\ Cardinality(SlotHolders) < MaxConcurrency
        BY <2>4 DEF AcquireSlot, Step, FetchTypeOK, Fetch
    <2>5. ASSUME NEW h \in Host
          PROVE  Cardinality(HostHolders(h)') <= MaxPerHostConcurrency
        <3>1. HostHolders(h)' \subseteq HostHolders(h) \cup {c}
            BY <2>1
        <3>2. HostHolders(h)' \subseteq HostHolders(h) \/ Cardinality(HostHolders(h)) < MaxPerHostConcurrency
            BY <2>1, <2>3, <2>4
        <3>3. /\ HostHolders(h) \subseteq Candidate /\ HostHolders(h)' \subseteq Candidate
              /\ Cardinality(HostHolders(h)) <= MaxPerHostConcurrency
            BY DEF SlotsAreHeld
        <3> HIDE DEF HostHolders
        <3> QED BY <2>2, <3>1, <3>2, <3>3, RoomForOneMore
    <2>6. Cardinality(SlotHolders') <= MaxConcurrency
        <3>1. SlotHolders' \subseteq SlotHolders \cup {c}
            BY <2>1
        <3>2. SlotHolders' \subseteq SlotHolders \/ Cardinality(SlotHolders) < MaxConcurrency
            BY <2>1, <2>3, <2>4
        <3>3. /\ SlotHolders \subseteq Candidate /\ SlotHolders' \subseteq Candidate
              /\ Cardinality(SlotHolders) <= MaxConcurrency
            BY DEF SlotsAreHeld
        <3> HIDE DEF SlotHolders
        <3> QED BY <2>2, <3>1, <3>2, <3>3, RoomForOneMore
    <2> HIDE DEF HostHolders, SlotHolders
    <2> QED BY <2>5, <2>6 DEF SlotsAreHeld
<1> QED BY <1>1, <1>2 DEF FetchNext, fetchVars, Arrive, CollectReport, JudgeReport

LEMMA InitSlotsAreHeld ==
    ASSUME FetchInit
    PROVE  SlotsAreHeld
<1>1. SlotHolders = {} /\ \A h \in Host : HostHolders(h) = {}
    BY DEF FetchInit, Queued, SlotHolders, HostHolders
<1> QED BY <1>1, FS_EmptySet, ArticleLimitsAssumption DEF SlotsAreHeld

(* No host and no process has more requests under way than it has slots.  SlotsAreHeld, for any
   number of batches, hosts and slots. *)
THEOREM SlotsBoundRequests == FetchSpec => []SlotsAreHeld
BY FetchIsTyped, InitSlotsAreHeld, StepSlotsAreHeld, PTL DEF FetchSpec

LEMMA LeastCandidate ==
    ASSUME NEW S, S \subseteq Candidate, S # {}
    PROVE  First(S) \in S /\ \A d \in S : First(S) <= d
<1>1. S \subseteq Nat
    BY DEF Candidate
<1>2. PICK m \in S : \A y \in S : <<y, m>> \notin OpToRel(<, Nat)
    BY <1>1, NatLessThanWellFounded, WFMin
<1>3. \A d \in S : m <= d
    <2> SUFFICES ASSUME NEW d \in S, d < m PROVE FALSE
        BY <1>1
    <2>1. <<d, m>> \in OpToRel(<, Nat)
        BY <1>1 DEF OpToRel
    <2> QED BY <1>2, <2>1
<1> QED BY <1>2, <1>3 DEF First

LEMMA GroupHolds ==
    ASSUME NEW c \in Candidate
    PROVE  /\ c \in Group(c) /\ Group(c) \subseteq Candidate /\ Group(c) \subseteq Members(BatchOf[c])
           /\ \A d \in Group(c) : Group(d) = Group(c)
BY DEF Group, Members

LEMMA Widths ==
    /\ PerHost \in Nat \ {0} /\ HostConcurrency \in Nat \ {0}
<1>1. PerHost \in Nat \ {0} /\ PerHost <= MaxConcurrency /\ MaxConcurrency \in Nat
    BY ArticleLimitsAssumption DEF PerHost
<1>2. MaxConcurrency \div PerHost \in Nat
    BY <1>1
<1> QED BY <1>1, <1>2 DEF HostConcurrency

\* The first open group of a batch may start, and so may its first open candidate.
LEMMA FirstOfFirstGroup ==
    ASSUME FetchTypeOK, NEW x \in Candidate, fetches[x].at # "done",
           \A c \in Candidate : fetches[c].at \in {"queued", "done"}
    PROVE  \E c \in Candidate : fetches[c].at = "queued" /\ GroupStarts(c) /\ Buffered(c)
<1> DEFINE open == {d \in Members(BatchOf[x]) : ~GroupDone(Group(d))}
           heads == {First(Group(d)) : d \in open}
<1>1. x \in open
    BY GroupHolds DEF Members, GroupDone
<1>2. heads \subseteq Candidate /\ heads # {}
    BY <1>1, GroupHolds, LeastCandidate DEF Members
<1>3. PICK d \in open : First(Group(d)) = First(heads)
    <2>1. First(heads) \in heads
        <3> HIDE DEF heads
        <3> QED BY <1>2, LeastCandidate
    <2> QED BY <2>1
<1>4. \A e \in open : ~(First(Group(e)) < First(Group(d)))
    <2> SUFFICES ASSUME NEW e \in open PROVE ~(First(Group(e)) < First(heads))
        BY <1>3
    <2>1. First(Group(e)) \in heads
        OBVIOUS
    <2>2. First(heads) <= First(Group(e)) /\ First(heads) \in Candidate /\ First(Group(e)) \in Candidate
        <3> HIDE DEF heads
        <3> QED BY <1>2, <2>1, LeastCandidate
    <2> QED BY <2>2 DEF Candidate
<1>5. d \in Candidate /\ BatchOf[d] = BatchOf[x]
    BY DEF Members
<1> DEFINE todo == {c \in Group(d) : fetches[c].at # "done"}
           c == First(todo)
<1>6. todo \subseteq Candidate /\ todo # {}
    BY <1>5, GroupHolds DEF GroupDone
<1>7. c \in todo /\ \A e \in todo : c <= e
    <2> HIDE DEF todo
    <2> QED BY <1>6, LeastCandidate
<1> HIDE DEF c
<1>8. c \in Candidate /\ c \in Group(d) /\ Group(c) = Group(d) /\ BatchOf[c] = BatchOf[x]
    BY <1>5, <1>7, GroupHolds DEF Group
<1>9. GroupStarts(c)
    <2>1. {e \in Members(BatchOf[c]) : First(Group(e)) < First(Group(c)) /\ ~GroupDone(Group(e))} = {}
        BY <1>4, <1>8
    <2>2. {First(Group(e)) : e \in {y \in Members(BatchOf[c]) :
              First(Group(y)) < First(Group(c)) /\ ~GroupDone(Group(y))}} = {}
        BY <2>1
    <2>3. Cardinality({}) < HostConcurrency
        BY FS_EmptySet, Widths
    <2> QED BY <2>2, <2>3 DEF GroupStarts
<1>10. Buffered(c)
    <2>1. {e \in Group(c) : e <= c /\ \E f \in Group(c) : f <= e /\ fetches[f].at # "done"} = {c}
        <3>1. ASSUME NEW e \in Group(c), e <= c, NEW f \in Group(c), f <= e, fetches[f].at # "done"
              PROVE  e = c
            <4>1. f \in todo /\ c <= f
                BY <1>7, <1>8, <3>1
            <4>2. e \in Nat /\ f \in Nat /\ c \in Nat
                BY <1>8, GroupHolds DEF Candidate
            <4> QED BY <3>1, <4>1, <4>2
        <3>2. c \in Group(c) /\ c <= c /\ fetches[c].at # "done"
            BY <1>7, <1>8 DEF Candidate
        <3>3. \A e \in Group(c) : (e <= c /\ \E f \in Group(c) : f <= e /\ fetches[f].at # "done") <=> e = c
            BY <3>1, <3>2
        <3> QED BY <3>2, <3>3
    <2>2. Cardinality({c}) = 1
        BY FS_Singleton
    <2>3. 1 <= PerHost
        BY Widths
    <2> QED BY <2>1, <2>2, <2>3 DEF Buffered
<1> QED BY <1>7, <1>8, <1>9, <1>10

\* Who has both slots goes on; else who has one gets the other; else a host has one to give.
LEMMA SlotsCirculate ==
    ASSUME FetchTypeOK
    PROVE  SomeFetchGoesOn
<1> SUFFICES ASSUME NEW x \in Candidate, fetches[x].at # "done"
             PROVE  \E c \in Candidate : CanGoOn(c)
    BY DEF SomeFetchGoesOn
<1>1. \A c \in Candidate : fetches[c].at \in {"queued", "host", "slot", "request", "done"}
    BY DEF FetchTypeOK, Fetch
<1>2. MaxPerHostConcurrency > 0 /\ MaxConcurrency > 0 /\ Cardinality({}) = 0
    BY ArticleLimitsAssumption, FS_EmptySet
<1>3. ASSUME NEW c \in Candidate, fetches[c].at = "request"
      PROVE  CanGoOn(c)
    BY <1>3 DEF CanGoOn
<1>4. ASSUME NEW c \in Candidate, fetches[c].at = "slot",
             \A d \in Candidate : fetches[d].at # "request"
      PROVE  CanGoOn(c)
    <2>1. SlotHolders = {}
        BY <1>4 DEF SlotHolders
    <2> QED BY <1>2, <1>4, <2>1 DEF CanGoOn
<1>5. ASSUME NEW c \in Candidate, fetches[c].at = "host",
             \A d \in Candidate : fetches[d].at \notin {"request", "slot"}
      PROVE  CanGoOn(c)
    <2>1. HostHolders(fetches[c].host) = {}
        BY <1>5 DEF HostHolders
    <2> QED BY <1>2, <1>5, <2>1 DEF CanGoOn
<1>6. CASE \A c \in Candidate : fetches[c].at \in {"queued", "done"}
    BY <1>6, FirstOfFirstGroup DEF CanGoOn
<1> QED BY <1>1, <1>3, <1>4, <1>5, <1>6

(* While a fetch is not done, one has the slots, the turn or the room it waits for: however many
   batches, hosts and slots there are, they never all wait for one another (fetch_article drops
   its permits before each further request). *)
THEOREM FetchesDoNotBlock == FetchSpec => []SomeFetchGoesOn
BY FetchIsTyped, SlotsCirculate, PTL

\* What has arrived is done, and a report is drawn up of what has arrived.
ReportInv ==
    /\ FetchTypeOK
    /\ \A c \in arrivals : fetches[c].at = "done"
    /\ \A b \in CrawlBatch : reports[b].stage # "open" =>
          /\ Members(b) \subseteq arrivals
          /\ reports[b].items \cup reports[b].failures = Members(b)
          /\ reports[b].items \cap reports[b].failures = {}
          /\ \A c \in reports[b].items : Represents(c)

LEMMA StepReportInv ==
    ASSUME ReportInv, [FetchNext]_fetchVars
    PROVE  ReportInv'
<1>1. FetchTypeOK /\ FetchTypeOK'
    BY StepFetchTypes DEF ReportInv
<1>2. ASSUME NEW c \in Candidate, Advance(c)
      PROVE  ReportInv'
    <2>1. /\ UNCHANGED <<arrivals, reports>> /\ fetches[c].at # "done"
          /\ \A d \in Candidate \ {c} : fetches'[d] = fetches[d]
        BY <1>1, <1>2, AdvanceIsLocal
    <2>2. arrivals \subseteq Candidate \ {c}
        BY <1>1, <2>1 DEF ReportInv, FetchTypeOK
    <2>3. \A d \in arrivals : fetches'[d] = fetches[d]
        BY <2>1, <2>2
    <2>4. ASSUME NEW b \in CrawlBatch, reports[b].stage # "open", NEW d \in reports[b].items
          PROVE  Represents(d)'
        <3>1. /\ Members(b) \subseteq arrivals /\ d \in Members(b) /\ Represents(d)
            BY <2>4 DEF ReportInv
        <3>2. Members(BatchOf[d]) = Members(b)
            BY <3>1 DEF Members
        <3> QED BY <2>3, <3>1, <3>2 DEF Represents, IsItem
    <2> QED BY <1>1, <2>1, <2>3, <2>4 DEF ReportInv
<1>3. ASSUME NEW c \in Candidate, Arrive(c)
      PROVE  ReportInv'
    BY <1>1, <1>3 DEF Arrive, GroupDone, ReportInv, Represents, IsItem
<1>4. ASSUME NEW b \in CrawlBatch, CollectReport(b)
      PROVE  ReportInv'
    <2> DEFINE kept == {c \in Members(b) : Represents(c)}
    <2>1. /\ Members(b) \subseteq arrivals /\ UNCHANGED <<fetches, arrivals>>
          /\ reports'[b] = [stage |-> "collected", items |-> kept, failures |-> Members(b) \ kept]
          /\ \A e \in CrawlBatch \ {b} : reports'[e] = reports[e]
        BY <1>1, <1>4 DEF CollectReport, FetchTypeOK
    <2>2. kept \cup (Members(b) \ kept) = Members(b) /\ kept \cap (Members(b) \ kept) = {}
        OBVIOUS
    <2> QED BY <1>1, <2>1, <2>2 DEF ReportInv, Represents, IsItem
<1>5. ASSUME NEW b \in CrawlBatch, JudgeReport(b)
      PROVE  ReportInv'
    <2>1. /\ UNCHANGED <<fetches, arrivals>> /\ reports[b].stage = "collected"
          /\ \A e \in CrawlBatch \ {b} : reports'[e] = reports[e]
        BY <1>1, <1>5 DEF JudgeReport, FetchTypeOK
    <2>2. PICK refused \in SUBSET reports[b].items :
              reports'[b] = [stage |-> "judged", items |-> reports[b].items \ refused,
                             failures |-> reports[b].failures \cup refused]
        BY <1>1, <1>5 DEF JudgeReport, FetchTypeOK
    <2> QED BY <1>1, <2>1, <2>2 DEF ReportInv, Represents, IsItem
<1>6. CASE UNCHANGED fetchVars
    BY <1>1, <1>6 DEF ReportInv, Represents, IsItem, fetchVars
<1> QED BY <1>2, <1>3, <1>4, <1>5, <1>6 DEF FetchNext

(* A report names every candidate of its batch once, as an article or a failure, and no page
   twice, whatever other batches do after it was drawn up. *)
THEOREM EveryCandidateIsReported == FetchSpec => []ReportsAccount
<1>1. FetchInit => ReportInv
    BY InitFetchTypes DEF FetchInit, ReportInv
<1>2. ReportInv => ReportsAccount
    <2> SUFFICES ASSUME ReportInv, NEW b \in CrawlBatch, reports[b].stage # "open"
                 PROVE  /\ reports[b].items \cup reports[b].failures = Members(b)
                        /\ reports[b].items \cap reports[b].failures = {}
                        /\ \A c, d \in reports[b].items :
                              IsItem(c) /\ (fetches[c].result = fetches[d].result => c = d)
        BY DEF ReportsAccount
    <2>1. ASSUME NEW c \in reports[b].items, NEW d \in reports[b].items
          PROVE  IsItem(c) /\ (fetches[c].result = fetches[d].result => c = d)
        <3>1. /\ Represents(c) /\ Represents(d)
              /\ c \in Members(b) /\ d \in Members(b) /\ c \in Nat /\ d \in Nat
            BY <2>1 DEF ReportInv, Members, Candidate
        <3>2. BatchOf[c] = b /\ BatchOf[d] = b
            BY <3>1 DEF Members
        <3> QED BY <3>1, <3>2 DEF Represents
    <2> QED BY <2>1 DEF ReportInv
<1> QED BY <1>1, <1>2, StepReportInv, PTL DEF FetchSpec

-----------------------------------------------------------------------------
(* The greatest and the least of a set of numbers *)

\* A bounded set of naturals has a greatest member.
LEMMA GreatestOfBounded ==
    ASSUME NEW n \in Nat, NEW S, S \subseteq 0..n, S # {}
    PROVE  Max(S) \in S /\ \A y \in S : y <= Max(S)
<1> DEFINE T == {m \in Nat : n - m \in S}
<1>1. T \subseteq Nat
    OBVIOUS
<1>2. T # {}
    <2>1. PICK x \in S : x \in 0..n
        OBVIOUS
    <2>2. n - x \in Nat /\ n - (n - x) = x
        BY <2>1
    <2> QED BY <2>1, <2>2
<1>3. \E m \in T : \A y \in T : ~ (<<y, m>> \in OpToRel(<, Nat))
    <2> HIDE DEF T
    <2> QED BY <1>1, <1>2, NatLessThanWellFounded, WFMin
<1>4. PICK m \in T : \A y \in T : <<y, m>> \notin OpToRel(<, Nat)
    BY <1>3
<1>5. \A y \in T : m <= y
    <2> SUFFICES ASSUME NEW y \in T, y < m PROVE FALSE
        BY <1>1
    <2>1. y \in Nat /\ m \in Nat
        BY <1>1
    <2>2. <<y, m>> \in OpToRel(<, Nat)
        BY <2>1 DEF OpToRel
    <2> QED BY <2>2, <1>4
<1>6. n - m \in S /\ m \in Nat
    BY <1>4
<1>7. \A y \in S : n - m >= y
    <2> SUFFICES ASSUME NEW y \in S PROVE n - m >= y
        OBVIOUS
    <2>1. y \in 0..n /\ n - y \in Nat /\ n - (n - y) = y
        OBVIOUS
    <2>2. n - y \in T
        BY <2>1
    <2>3. m <= n - y
        BY <1>5, <2>2
    <2> QED BY <2>1, <2>3, <1>6
<1>8. Max(S) \in S /\ \A y \in S : Max(S) >= y
    BY <1>6, <1>7 DEF Max
<1>9. \A y \in S : y \in Int
    OBVIOUS
<1> QED BY <1>8, <1>9

LEMMA GreaterOfTwo ==
    ASSUME NEW a \in Int, NEW b \in Int
    PROVE  Max({a, b}) = IF a >= b THEN a ELSE b
<1>1. \E x \in {a, b} : \A y \in {a, b} : x >= y
    OBVIOUS
<1>2. Max({a, b}) \in {a, b} /\ \A y \in {a, b} : Max({a, b}) >= y
    BY <1>1 DEF Max
<1> QED BY <1>2

LEMMA LesserOfTwo ==
    ASSUME NEW a \in Int, NEW b \in Int
    PROVE  Min({a, b}) = IF a <= b THEN a ELSE b
<1>1. \E x \in {a, b} : \A y \in {a, b} : x <= y
    OBVIOUS
<1>2. Min({a, b}) \in {a, b} /\ \A y \in {a, b} : Min({a, b}) <= y
    BY <1>1 DEF Min
<1> QED BY <1>2

-----------------------------------------------------------------------------
(* The schedule and the crawls of a source *)

LEMMA EmptyBatch == Empty \in Batch /\ IdleCrawler \in Crawler /\ NoMark \in NoMark..MaxSignal
BY SourceAssumption DEF Empty, Batch, IdleCrawler, Crawler, NoMark

LEMMA WatermarkOfEntries ==
    ASSUME SourceTypeOK, NEW ranked, ranked \subseteq Page
    PROVE  /\ NewWatermark(ranked) \in NoMark..MaxSignal
           /\ NewWatermark(ranked) = 0 \/ \E p \in ranked \ Undated : NewWatermark(ranked) = listed[p]
<1> DEFINE S == {Signal(p, listed[p]) : p \in ranked} \cup {NoMark}
<1>1. S \subseteq 0..MaxSignal /\ S # {} /\ MaxSignal \in Nat
    BY SourceAssumption DEF SourceTypeOK, Batch, Signal, NoMark
<1>2. Max(S) \in S
    <2> HIDE DEF S
    <2> QED BY <1>1, GreatestOfBounded
<1>3. NewWatermark(ranked) = Max(S)
    BY DEF NewWatermark
<1>4. \A x \in S : x = 0 \/ \E p \in ranked \ Undated : x = listed[p]
    BY DEF Signal, NoMark
<1> HIDE DEF S
<1> QED BY <1>1, <1>2, <1>3, <1>4 DEF NoMark

\* What a crawl of a sitemap returns: entries it has ranked, in their editions.
Brought(ranked, got) == [mark |-> NewWatermark(ranked),
                         items |-> [p \in Page |-> IF p \in got THEN listed[p] ELSE 0]]
CrawlOf(since, batch, children, ranked, taken, got) ==
    /\ children \subseteq 1..MaxChildren /\ ranked \in Latest(MaxItems, Entries(children))
    /\ taken \in Latest(MaxArticles, {p \in ranked : Eligible(p, since)}) /\ got \subseteq taken
    /\ ~MissesPages => children = 1..MaxChildren /\ got = taken
    /\ ranked \subseteq Page /\ taken \subseteq Page
    /\ batch = Brought(ranked, got)

LEMMA SitemapBatchShape ==
    ASSUME NEW since, NEW batch \in SitemapBatches(since)
    PROVE  \E children, ranked, taken, got : CrawlOf(since, batch, children, ranked, taken, got)
<1> DEFINE Ways(taken) == IF MissesPages THEN SUBSET taken ELSE {taken}
           Taken(ranked) == Latest(MaxArticles, {p \in ranked : Eligible(p, since)})
           OfRanked(ranked) == {Brought(ranked, got) : got \in UNION {Ways(taken) : taken \in Taken(ranked)}}
           OfChildren(children) == UNION {OfRanked(ranked) : ranked \in Latest(MaxItems, Entries(children))}
           Reached == IF MissesPages THEN SUBSET (1..MaxChildren) ELSE {1..MaxChildren}
<1>1. batch \in UNION {OfChildren(children) : children \in Reached}
    BY DEF SitemapBatches, Brought
<1> HIDE DEF OfChildren, OfRanked, Taken, Ways, Reached
<1>2. PICK children \in Reached : batch \in OfChildren(children)
    BY <1>1
<1>3. PICK ranked \in Latest(MaxItems, Entries(children)) : batch \in OfRanked(ranked)
    BY <1>2 DEF OfChildren
<1>4. PICK got \in UNION {Ways(taken) : taken \in Taken(ranked)} : batch = Brought(ranked, got)
    BY <1>3 DEF OfRanked
<1>5. PICK taken \in Taken(ranked) : got \in Ways(taken)
    BY <1>4
<1>6. taken \in Latest(MaxArticles, {p \in ranked : Eligible(p, since)})
    BY DEF Taken
<1>7. ranked \subseteq Page /\ taken \subseteq Page
    BY <1>6 DEF Latest, Entries
<1>8. got \subseteq taken /\ children \subseteq 1..MaxChildren
    BY <1>5 DEF Ways, Reached
<1>9. ~MissesPages => children = 1..MaxChildren /\ got = taken
    BY <1>5 DEF Ways, Reached
<1>10. CrawlOf(since, batch, children, ranked, taken, got)
    BY <1>4, <1>6, <1>7, <1>8, <1>9 DEF CrawlOf
<1> QED BY <1>10

LEMMA SitemapBatchTyped ==
    ASSUME SourceTypeOK, NEW since, NEW batch \in SitemapBatches(since)
    PROVE  batch.mark \in NoMark..MaxSignal /\ batch.items \in Batch
<1>1. PICK children, ranked, taken, got : CrawlOf(since, batch, children, ranked, taken, got)
    BY SitemapBatchShape
<1>2. [p \in Page |-> IF p \in got THEN listed[p] ELSE 0] \in Batch
    BY SourceAssumption DEF SourceTypeOK, Batch
<1>3. NewWatermark(ranked) \in NoMark..MaxSignal
    BY <1>1, WatermarkOfEntries DEF CrawlOf
<1> QED BY <1>1, <1>2, <1>3 DEF CrawlOf, Brought

LEMMA BackoffTyped ==
    ASSUME NEW n \in Nat
    PROVE  Backoff(n) \in 0..MaxBackoff
<1>1. Min({n, MaxExponent}) \in 0..MaxExponent
    BY LesserOfTwo, SourceAssumption
<1>2. 2 ^ Min({n, MaxExponent}) \in Nat
    BY <1>1, SourceAssumption
<1> DEFINE delay == 2 ^ Min({n, MaxExponent})
<1>3. delay \in Nat /\ MaxBackoff \in Nat
    BY <1>2, SourceAssumption
<1>4. Min({MaxBackoff, delay}) \in 0..MaxBackoff
    <2> HIDE DEF delay
    <2> QED BY <1>3, LesserOfTwo
<1> QED BY <1>4 DEF Backoff

LEMMA ClockTyped ==
    ASSUME SourceTypeOK, CrawlClock
    PROVE  SourceTypeOK'
<1>1. /\ sourceState \in SourceState /\ FreshnessSlo \in Nat /\ MaxBackoff \in Nat
      /\ sourceState.age \in 0..FreshnessSlo /\ sourceState.wait \in 0..MaxBackoff
    BY SourceAssumption DEF SourceTypeOK, SourceState
<1>2. Min({sourceState.age + 1, FreshnessSlo}) \in 0..FreshnessSlo
    BY <1>1, LesserOfTwo
<1>3. Max({sourceState.wait - 1, 0}) \in 0..MaxBackoff
    BY <1>1, GreaterOfTwo
<1>4. sourceState' \in SourceState
    BY <1>1, <1>2, <1>3 DEF CrawlClock, SourceState
<1> QED BY <1>4 DEF CrawlClock, SourceTypeOK

LEMMA FailedStateTyped ==
    ASSUME SourceTypeOK
    PROVE  FailedState \in SourceState /\ FailedState.mark = sourceState.mark
<1>1. /\ sourceState \in SourceState /\ MaxExponent \in Nat /\ FreshnessSlo \in Nat
      /\ sourceState.failures \in 0..MaxExponent + 1
    BY SourceAssumption DEF SourceTypeOK, SourceState
<1>2. Backoff(sourceState.failures) \in 0..MaxBackoff
    BY <1>1, BackoffTyped
<1>3. Min({sourceState.failures + 1, MaxExponent + 1}) \in 0..MaxExponent + 1
    BY <1>1, LesserOfTwo
<1> DEFINE failures == Min({sourceState.failures + 1, MaxExponent + 1})
           wait == Backoff(sourceState.failures)
<1>4. FailedState = [sourceState EXCEPT !.age = 0, !.wait = wait, !.failures = failures]
    BY DEF FailedState
<1>5. wait \in 0..MaxBackoff /\ failures \in 0..MaxExponent + 1 /\ 0 \in 0..FreshnessSlo
    BY <1>1, <1>2, <1>3
<1> HIDE DEF wait, failures
<1> QED BY <1>1, <1>4, <1>5 DEF SourceState

LEMMA CompletedStateTyped ==
    ASSUME SourceTypeOK, NEW a \in CrawlAttempt
    PROVE  CompletedState(a) \in SourceState /\ CompletedState(a).mark = crawlers[a].mark
BY SourceAssumption DEF CompletedState, SourceState, SourceTypeOK, Crawler

LEMMA MergedTyped ==
    ASSUME SourceTypeOK, NEW items \in Batch
    PROVE  /\ [p \in Page |-> Max({crawled[p], items[p]})] \in Batch
           /\ \A p \in Page : Max({crawled[p], items[p]}) =
                                  IF crawled[p] >= items[p] THEN crawled[p] ELSE items[p]
<1>1. \A p \in Page : crawled[p] \in 0..MaxSignal /\ items[p] \in 0..MaxSignal
    BY DEF SourceTypeOK, Batch
<1>2. \A p \in Page : Max({crawled[p], items[p]}) =
                          IF crawled[p] >= items[p] THEN crawled[p] ELSE items[p]
    BY <1>1, GreaterOfTwo, SourceAssumption
<1> QED BY <1>1, <1>2 DEF Batch

LEMMA CrawlerStepTyped ==
    ASSUME SourceTypeOK, NEW a \in CrawlAttempt, CrawlerStep(a)
    PROVE  SourceTypeOK'
<1>1. crawlers[a] \in Crawler /\ crawlers \in [CrawlAttempt -> Crawler]
    BY DEF SourceTypeOK
<1>2. \A where \in {"started", "begun"} : [crawlers EXCEPT ![a].at = where] \in [CrawlAttempt -> Crawler]
    BY <1>1 DEF Crawler
<1>3. Leave(a) => crawlers' \in [CrawlAttempt -> Crawler]
    BY <1>1, EmptyBatch DEF Leave
<1>4. CASE StartAttempt(a) \/ BeginRun(a)
    BY <1>4, <1>2 DEF StartAttempt, BeginRun, Goto, SourceTypeOK
<1>5. CASE ReadWatermark(a)
    BY <1>5, <1>1 DEF ReadWatermark, SourceTypeOK, SourceState, Crawler
<1>6. CASE FetchListing(a)
    <2>1. PICK batch : /\ batch.mark \in NoMark..MaxSignal /\ batch.items \in Batch
                       /\ crawlers' = [crawlers EXCEPT ![a].at = "fetched", ![a].mark = batch.mark,
                                                       ![a].items = batch.items]
        BY <1>6, SitemapBatchTyped, EmptyBatch DEF FetchListing
    <2>2. crawlers' \in [CrawlAttempt -> Crawler]
        BY <1>1, <2>1 DEF Crawler
    <2> QED BY <1>6, <2>2 DEF FetchListing, SourceTypeOK
<1>7. CASE CrawlRefused(a)
    <2>1. [IdleCrawler EXCEPT !.at = "failed"] \in Crawler
        BY EmptyBatch DEF IdleCrawler, Crawler
    <2> QED BY <1>7, <1>1, <2>1 DEF CrawlRefused, SourceTypeOK
<1>8. CASE CompleteCrawl(a)
    <2>1. crawlers[a].items \in Batch
        BY <1>1 DEF Crawler
    <2> QED BY <1>8, <1>3, <2>1, MergedTyped, CompletedStateTyped DEF CompleteCrawl, SourceTypeOK
<1>9. CASE FailCrawl(a)
    BY <1>9, <1>3, FailedStateTyped DEF FailCrawl, SourceTypeOK
<1>10. CASE Abandon(a)
    BY <1>10, <1>3 DEF Abandon, SourceTypeOK
<1> QED BY <1>4, <1>5, <1>6, <1>7, <1>8, <1>9, <1>10, ZenonT(30) DEF CrawlerStep

\* The newest date in the sitemap.
Newest == Max({listed[q] : q \in Page \ Undated} \cup {0})

LEMMA NewestIsNewest ==
    ASSUME SourceTypeOK
    PROVE  Newest \in 0..MaxSignal /\ \A q \in Page \ Undated : listed[q] <= Newest
<1> DEFINE S == {listed[q] : q \in Page \ Undated} \cup {0}
<1>1. S \subseteq 0..MaxSignal /\ S # {} /\ MaxSignal \in Nat
    BY SourceAssumption DEF SourceTypeOK, Batch
<1>2. Max(S) \in S /\ \A y \in S : y <= Max(S)
    <2> HIDE DEF S
    <2> QED BY <1>1, GreatestOfBounded
<1>3. Newest = Max(S)
    BY DEF Newest
<1>4. \A q \in Page \ Undated : listed[q] \in S
    OBVIOUS
<1> HIDE DEF S
<1> QED BY <1>1, <1>2, <1>3, <1>4

LEMMA PublishTyped ==
    ASSUME SourceTypeOK, NEW p \in Page, Publish(p)
    PROVE  /\ SourceTypeOK'
           /\ \E edition \in 0..MaxSignal :
                 /\ listed' = [listed EXCEPT ![p] = edition]
                 /\ p \notin Undated /\ ~SameDay => edition > Newest
<1>1. PICK edition \in (IF p \in Undated THEN {1} ELSE Newest..MaxSignal) \ {0} :
          /\ p \in Undated \/ SameDay \/ edition > Newest
          /\ listed' = [listed EXCEPT ![p] = edition]
    BY DEF Publish, Newest
<1>2. edition \in 0..MaxSignal
    <2>1. Newest \in 0..MaxSignal /\ MaxSignal \in Nat \ {0}
        BY NewestIsNewest, SourceAssumption
    <2> QED BY <1>1, <2>1
<1>3. listed' \in Batch
    BY <1>1, <1>2 DEF SourceTypeOK, Batch
<1> QED BY <1>1, <1>2, <1>3 DEF Publish, SourceTypeOK

LEMMA StepSourceTypes ==
    ASSUME SourceTypeOK, [SourceNext]_sourceVars
    PROVE  SourceTypeOK'
<1>1. CASE EnqueueCrawl \/ SettleCrawlJob
    BY <1>1 DEF EnqueueCrawl, SettleCrawlJob, SourceTypeOK
<1>2. CASE OperateSource
    BY <1>2 DEF OperateSource, SourceTypeOK, SourceRow
<1>3. CASE UNCHANGED sourceVars
    BY <1>3 DEF sourceVars, SourceTypeOK
<1> QED BY <1>1, <1>2, <1>3, ClockTyped, CrawlerStepTyped, PublishTyped DEF SourceNext

LEMMA InitSourceTypes ==
    ASSUME SourceInit
    PROVE  SourceTypeOK
<1>1. [age |-> FreshnessSlo, wait |-> 0, failures |-> 0, mark |-> NoMark] \in SourceState
    BY SourceAssumption, EmptyBatch DEF SourceState
<1> QED BY <1>1, EmptyBatch DEF SourceInit, SourceTypeOK

(* The row of source_state stays typed: the delay after any number of failures is a number of
   seconds up to the cap, and the watermark a date that the sitemap can have. *)
THEOREM SourceIsTyped == SourceSpec => []SourceTypeOK
BY InitSourceTypes, StepSourceTypes, PTL DEF SourceSpec

-----------------------------------------------------------------------------
(* The watermark *)

\* Dates that only move forward, and crawls that miss no page and meet no cap.
DatesMoveForward == ~SameDay
NothingIsMissed ==
    /\ ~MissesPages
    /\ Cardinality(Page) <= MaxItems /\ Cardinality(Page) <= MaxArticles
    /\ \A p \in Page : ChildOf[p] <= MaxChildren

\* A mark is a date that was listed once; what is listed up to it is at home, or among the items
\* of the crawl that has reached it.
Sound(list, home, mark, items) ==
    /\ mark = 0 \/ \E q \in Page \ Undated : mark <= list[q]
    /\ \A p \in Page \ Undated : list[p] > 0 /\ list[p] <= mark =>
           home[p] >= list[p] \/ items[p] = list[p]

WatermarkInv ==
    /\ SourceTypeOK
    /\ Sound(listed, crawled, sourceState.mark, Empty)
    /\ \A a \in CrawlAttempt :
          /\ Sound(listed, crawled, crawlers[a].mark, crawlers[a].items)
          /\ crawlers[a].at # "fetched" => crawlers[a].items = Empty

LEMMA BatchNumbers == \A list \in Batch : \A p \in Page : list[p] \in Nat
BY SourceAssumption DEF Batch

LEMMA SourceNumbers ==
    ASSUME SourceTypeOK
    PROVE  /\ sourceState.mark \in Nat
           /\ \A a \in CrawlAttempt : crawlers[a].mark \in Nat /\ crawlers[a].items \in Batch
           /\ listed \in Batch /\ crawled \in Batch
BY SourceAssumption DEF SourceTypeOK, SourceState, Crawler, NoMark

LEMMA NoMarkIsSound ==
    ASSUME NEW list \in Batch, NEW home, NEW items
    PROVE  Sound(list, home, NoMark, items)
BY BatchNumbers DEF Sound, NoMark

\* What has come home stays there.
LEMMA SoundStays ==
    ASSUME NEW list \in Batch, NEW home \in Batch, NEW later \in Batch, NEW mark \in Nat, NEW items \in Batch,
           \A p \in Page : later[p] >= home[p], Sound(list, home, mark, items)
    PROVE  Sound(list, later, mark, items)
<1>1. \A p \in Page : list[p] \in Nat /\ home[p] \in Nat /\ later[p] \in Nat /\ items[p] \in Nat
    BY BatchNumbers
<1> QED BY <1>1 DEF Sound

\* The items of a crawl come home.
LEMMA SoundAtHome ==
    ASSUME NEW list \in Batch, NEW home \in Batch, NEW later \in Batch, NEW mark \in Nat, NEW items \in Batch,
           \A p \in Page : later[p] >= home[p] /\ later[p] >= items[p], Sound(list, home, mark, items)
    PROVE  Sound(list, later, mark, Empty)
<1>1. \A p \in Page : list[p] \in Nat /\ home[p] \in Nat /\ later[p] \in Nat /\ items[p] \in Nat
    BY BatchNumbers
<1> QED BY <1>1 DEF Sound

\* A page is listed or edited: its date is newer than every mark.
LEMMA SoundWhenPublished ==
    ASSUME SourceTypeOK, NEW p \in Page, NEW edition \in Nat, NEW home, NEW mark \in Nat, NEW items,
           p \notin Undated => edition > Newest, Sound(listed, home, mark, items)
    PROVE  Sound([listed EXCEPT ![p] = edition], home, mark, items)
<1> DEFINE list == [listed EXCEPT ![p] = edition]
<1>1. \A q \in Page : listed[q] \in Nat /\ list[q] = IF q = p THEN edition ELSE listed[q]
    BY SourceNumbers, BatchNumbers DEF Batch
<1>2. \A q \in Page \ Undated : listed[q] <= Newest /\ Newest \in Nat
    BY NewestIsNewest, SourceAssumption
<1>3. p \notin Undated => edition > mark
    BY <1>1, <1>2, NewestIsNewest, SourceAssumption DEF Sound
<1>4. \A q \in Page \ Undated : list[q] >= listed[q]
    BY <1>1, <1>2
<1> HIDE DEF list
<1>5. mark = 0 \/ \E q \in Page \ Undated : mark <= list[q]
    <2> SUFFICES ASSUME mark # 0 PROVE \E q \in Page \ Undated : mark <= list[q]
        OBVIOUS
    <2>1. PICK q \in Page \ Undated : mark <= listed[q]
        BY DEF Sound
    <2>2. mark <= list[q]
        BY <1>1, <1>4, <2>1
    <2> QED BY <2>2
<1>6. ASSUME NEW q \in Page \ Undated, list[q] > 0, list[q] <= mark
      PROVE  home[q] >= list[q] \/ items[q] = list[q]
    <2>1. q # p
        BY <1>1, <1>3, <1>6
    <2> QED BY <1>1, <1>6, <2>1 DEF Sound
<1> QED BY <1>5, <1>6 DEF Sound, list

\* A crawl that misses nothing brings home every edition that is newer than the mark it has read.
LEMMA LatestIsAll ==
    ASSUME NEW n \in Nat, NEW S, S \subseteq Page, Cardinality(Page) <= n, NEW T \in Latest(n, S)
    PROVE  T = S
<1>1. IsFiniteSet(S) /\ Cardinality(S) <= Cardinality(Page)
    BY SourceAssumption, FS_Subset
<1>2. Cardinality(S) \in Nat /\ Cardinality(Page) \in Nat
    BY <1>1, SourceAssumption, FS_CardinalityType
<1>3. T \subseteq S /\ Cardinality(T) = Cardinality(S)
    BY <1>1, <1>2 DEF Latest
<1> QED BY <1>1, <1>3, FS_Subset

LEMMA CrawlIsSound ==
    ASSUME NothingIsMissed, SourceTypeOK, NEW since \in Nat, NEW batch \in SitemapBatches(since),
           Sound(listed, crawled, since, Empty)
    PROVE  Sound(listed, crawled, batch.mark, batch.items)
<1>1. PICK children, ranked, taken, got : CrawlOf(since, batch, children, ranked, taken, got)
    BY SitemapBatchShape
<1>2. children = 1..MaxChildren /\ got = taken /\ batch = Brought(ranked, taken)
    BY <1>1 DEF CrawlOf, NothingIsMissed
<1>3. ranked = Entries(children)
    <2>1. Entries(children) \subseteq Page
        BY DEF Entries
    <2> QED BY <1>1, <2>1, LatestIsAll, SourceAssumption DEF CrawlOf, NothingIsMissed
<1>4. taken = {p \in ranked : Eligible(p, since)}
    <2>1. {p \in ranked : Eligible(p, since)} \subseteq Page
        BY <1>3 DEF Entries
    <2> QED BY <1>1, <2>1, LatestIsAll, SourceAssumption DEF CrawlOf, NothingIsMissed
<1>5. \A p \in Page : listed[p] \in Nat /\ ChildOf[p] \in 0..MaxChildren
    BY SourceNumbers, BatchNumbers, SourceAssumption DEF NothingIsMissed
<1>6. \A p \in Page : listed[p] > 0 => p \in ranked
    BY <1>2, <1>3, <1>5 DEF Entries
<1>7. ranked \subseteq Page /\ batch.mark = NewWatermark(ranked)
    BY <1>2, <1>3 DEF Brought, Entries
<1>8. batch.mark = 0 \/ \E q \in Page \ Undated : batch.mark <= listed[q]
    BY <1>5, <1>7, WatermarkOfEntries
<1>9. ASSUME NEW p \in Page \ Undated, listed[p] > 0
      PROVE  crawled[p] >= listed[p] \/ batch.items[p] = listed[p]
    <2>1. p \in ranked /\ batch.items[p] = IF p \in taken THEN listed[p] ELSE 0
        BY <1>2, <1>6, <1>9 DEF Brought
    <2>2. CASE p \in taken
        BY <2>1, <2>2
    <2>3. CASE p \notin taken
        <3>1. ~Eligible(p, since)
            BY <1>4, <2>1, <2>3
        <3>2. listed[p] <= since
            BY <1>5, <3>1 DEF Eligible, Signal
        <3>3. Empty[p] = 0
            BY DEF Empty
        <3> QED BY <1>5, <1>9, <3>2, <3>3 DEF Sound
    <2> QED BY <2>2, <2>3
<1> QED BY <1>8, <1>9 DEF Sound

\* Steps of a crawler that leave the listing, the row of source_state and what is at home alone.
LEMMA CrawlerKeepsWatermark ==
    ASSUME WatermarkInv, SourceTypeOK', UNCHANGED <<listed, crawled, sourceState>>, NEW a \in CrawlAttempt,
           \A b \in CrawlAttempt \ {a} : crawlers'[b] = crawlers[b],
           Sound(listed, crawled, crawlers'[a].mark, crawlers'[a].items),
           crawlers'[a].at # "fetched" => crawlers'[a].items = Empty
    PROVE  WatermarkInv'
<1>1. ASSUME NEW b \in CrawlAttempt
      PROVE  /\ Sound(listed', crawled', crawlers'[b].mark, crawlers'[b].items)
             /\ crawlers'[b].at # "fetched" => crawlers'[b].items = Empty
    BY DEF WatermarkInv
<1> QED BY <1>1 DEF WatermarkInv

\* Steps in which articles come home and source_state is given a sound mark; the crawler leaves.
LEMMA HomecomingKeepsWatermark ==
    ASSUME WatermarkInv, SourceTypeOK', listed' = listed, \A p \in Page : crawled'[p] >= crawled[p],
           Sound(listed, crawled', sourceState'.mark, Empty), NEW a \in CrawlAttempt, Leave(a)
    PROVE  WatermarkInv'
<1>1. listed \in Batch /\ crawled \in Batch /\ crawled' \in Batch
    BY DEF WatermarkInv, SourceTypeOK
<1>2. ASSUME NEW b \in CrawlAttempt
      PROVE  /\ Sound(listed', crawled', crawlers'[b].mark, crawlers'[b].items)
             /\ crawlers'[b].at # "fetched" => crawlers'[b].items = Empty
    <2>1. CASE b = a
        <3>1. crawlers'[b] = IdleCrawler
            BY <2>1 DEF Leave, WatermarkInv, SourceTypeOK
        <3> QED BY <1>1, <3>1, NoMarkIsSound DEF IdleCrawler
    <2>2. CASE b # a
        <3>1. crawlers'[b] = crawlers[b]
            BY <2>2 DEF Leave, WatermarkInv, SourceTypeOK
        <3>2. crawlers[b].mark \in Nat /\ crawlers[b].items \in Batch
            BY SourceNumbers DEF WatermarkInv
        <3> QED BY <1>1, <3>1, <3>2, SoundStays DEF WatermarkInv
    <2> QED BY <2>1, <2>2
<1> QED BY <1>2 DEF WatermarkInv

LEMMA CrawlerStepWatermark ==
    ASSUME NothingIsMissed, WatermarkInv, SourceTypeOK', NEW a \in CrawlAttempt, CrawlerStep(a)
    PROVE  WatermarkInv'
<1>1. /\ SourceTypeOK /\ crawlers \in [CrawlAttempt -> Crawler] /\ Empty \in Batch
      /\ listed \in Batch /\ crawled \in Batch
    BY EmptyBatch DEF WatermarkInv, SourceTypeOK
<1>2. /\ sourceState.mark \in Nat /\ Sound(listed, crawled, sourceState.mark, Empty)
      /\ crawlers[a].mark \in Nat /\ crawlers[a].items \in Batch
      /\ Sound(listed, crawled, crawlers[a].mark, crawlers[a].items)
      /\ crawlers[a].at # "fetched" => crawlers[a].items = Empty
    BY SourceNumbers DEF WatermarkInv
<1>3. Leave(a) => /\ \A b \in CrawlAttempt \ {a} : crawlers'[b] = crawlers[b]
                  /\ crawlers'[a] = IdleCrawler
    BY <1>1 DEF Leave
<1>4. CASE StartAttempt(a) \/ BeginRun(a)
    <2>1. \/ UNCHANGED crawlers
          \/ /\ \A b \in CrawlAttempt \ {a} : crawlers'[b] = crawlers[b]
             /\ crawlers'[a].mark = crawlers[a].mark /\ crawlers'[a].items = crawlers[a].items
             /\ crawlers[a].at # "fetched"
        BY <1>4, <1>1 DEF StartAttempt, BeginRun, Goto, At, Crawler
    <2>2. UNCHANGED <<listed, crawled, sourceState>>
        BY <1>4 DEF StartAttempt, BeginRun
    <2> QED BY <1>2, <2>1, <2>2, CrawlerKeepsWatermark
<1>5. CASE ReadWatermark(a)
    <2>1. /\ \A b \in CrawlAttempt \ {a} : crawlers'[b] = crawlers[b]
          /\ crawlers'[a].mark = sourceState.mark /\ crawlers'[a].items = crawlers[a].items
          /\ crawlers[a].at # "fetched"
        BY <1>5, <1>1 DEF ReadWatermark, At, Crawler
    <2>2. UNCHANGED <<listed, crawled, sourceState>>
        BY <1>5 DEF ReadWatermark
    <2> QED BY <1>2, <2>1, <2>2, CrawlerKeepsWatermark
<1>6. CASE FetchListing(a)
    <2>1. PICK batch \in IF sourceRow.kind = "sitemap" THEN SitemapBatches(crawlers[a].mark)
                         ELSE {[mark |-> NoMark, items |-> Empty]} :
              crawlers' = [crawlers EXCEPT ![a].at = "fetched", ![a].mark = batch.mark,
                                           ![a].items = batch.items]
        BY <1>6 DEF FetchListing
    <2>2. /\ \A b \in CrawlAttempt \ {a} : crawlers'[b] = crawlers[b]
          /\ crawlers'[a].at = "fetched"
          /\ crawlers'[a].mark = batch.mark /\ crawlers'[a].items = batch.items
        BY <1>1, <2>1 DEF Crawler
    <2>3. Sound(listed, crawled, crawlers[a].mark, Empty)
        BY <1>2, <1>6 DEF FetchListing, At
    <2>4. Sound(listed, crawled, batch.mark, batch.items)
        <3>1. CASE sourceRow.kind = "sitemap"
            BY <1>1, <1>2, <2>1, <2>3, <3>1, CrawlIsSound
        <3>2. CASE sourceRow.kind # "sitemap"
            BY <1>1, <2>1, <3>2, NoMarkIsSound
        <3> QED BY <3>1, <3>2
    <2> QED BY <1>6, <2>2, <2>4, CrawlerKeepsWatermark DEF FetchListing
<1>7. CASE CrawlRefused(a)
    <2>1. /\ \A b \in CrawlAttempt \ {a} : crawlers'[b] = crawlers[b]
          /\ crawlers'[a].mark = NoMark /\ crawlers'[a].items = Empty
        BY <1>7, <1>1 DEF CrawlRefused, IdleCrawler
    <2> QED BY <1>1, <1>7, <2>1, NoMarkIsSound, CrawlerKeepsWatermark DEF CrawlRefused
<1>8. CASE CompleteCrawl(a)
    <2>1. CASE RunIsOpen(a)
        <3>1. /\ crawled' = [p \in Page |-> Max({crawled[p], crawlers[a].items[p]})]
              /\ sourceState'.mark = crawlers[a].mark /\ listed' = listed /\ Leave(a)
            BY <1>1, <1>8, <2>1, CompletedStateTyped DEF CompleteCrawl
        <3>2. \A p \in Page : crawled'[p] >= crawled[p] /\ crawled'[p] >= crawlers[a].items[p]
            <4> SUFFICES ASSUME NEW p \in Page
                         PROVE  crawled'[p] >= crawled[p] /\ crawled'[p] >= crawlers[a].items[p]
                OBVIOUS
            <4>1. crawled[p] \in Nat /\ crawlers[a].items[p] \in Nat
                BY <1>1, <1>2, BatchNumbers
            <4>2. crawled'[p] = IF crawled[p] >= crawlers[a].items[p] THEN crawled[p]
                                ELSE crawlers[a].items[p]
                BY <1>1, <1>2, <3>1, MergedTyped
            <4> QED BY <4>1, <4>2
        <3>3. crawled' \in Batch
            BY DEF SourceTypeOK
        <3>4. Sound(listed, crawled', sourceState'.mark, Empty)
            BY <1>1, <1>2, <3>1, <3>2, <3>3, SoundAtHome
        <3> QED BY <3>1, <3>2, <3>4, HomecomingKeepsWatermark
    <2>2. CASE ~RunIsOpen(a)
        <3>1. UNCHANGED <<listed, crawled, sourceState>> /\ Leave(a)
            BY <1>8, <2>2 DEF CompleteCrawl
        <3> QED BY <1>1, <1>3, <3>1, NoMarkIsSound, CrawlerKeepsWatermark DEF IdleCrawler
    <2> QED BY <2>1, <2>2
<1>9. CASE FailCrawl(a)
    <2>1. /\ sourceState'.mark = sourceState.mark /\ crawled' = crawled /\ listed' = listed /\ Leave(a)
        BY <1>1, <1>9, FailedStateTyped DEF FailCrawl
    <2>2. \A p \in Page : crawled'[p] >= crawled[p]
        BY <1>1, <2>1, BatchNumbers
    <2> QED BY <1>2, <2>1, <2>2, HomecomingKeepsWatermark
<1>10. CASE Abandon(a)
    BY <1>1, <1>3, <1>10, NoMarkIsSound, CrawlerKeepsWatermark DEF Abandon, IdleCrawler
<1> QED BY <1>4, <1>5, <1>6, <1>7, <1>8, <1>9, <1>10, ZenonT(30) DEF CrawlerStep

LEMMA StepWatermark ==
    ASSUME DatesMoveForward, NothingIsMissed, WatermarkInv, [SourceNext]_sourceVars
    PROVE  WatermarkInv'
<1>1. SourceTypeOK /\ SourceTypeOK'
    BY StepSourceTypes DEF WatermarkInv
<1>2. CASE /\ UNCHANGED <<listed, crawled, crawlers>> /\ sourceState'.mark = sourceState.mark
    BY <1>1, <1>2 DEF WatermarkInv
<1>3. EnqueueCrawl \/ SettleCrawlJob \/ OperateSource \/ UNCHANGED sourceVars =>
          UNCHANGED <<listed, crawled, crawlers, sourceState>>
    BY DEF EnqueueCrawl, SettleCrawlJob, OperateSource, sourceVars
<1>4. CrawlClock => UNCHANGED <<listed, crawled, crawlers>> /\ sourceState'.mark = sourceState.mark
    BY <1>1 DEF CrawlClock, SourceTypeOK, SourceState
<1>5. ASSUME NEW p \in Page, Publish(p)
      PROVE  WatermarkInv'
    <2>1. PICK edition \in 0..MaxSignal :
              /\ listed' = [listed EXCEPT ![p] = edition]
              /\ p \notin Undated => edition > Newest
        BY <1>1, <1>5, PublishTyped DEF DatesMoveForward
    <2>2. edition \in Nat
        BY <2>1, SourceAssumption
    <2>3. UNCHANGED <<crawled, crawlers, sourceState>>
        BY <1>5 DEF Publish
    <2>4. sourceState.mark \in Nat /\ \A a \in CrawlAttempt : crawlers[a].mark \in Nat
        BY <1>1, SourceNumbers
    <2>5. Sound(listed', crawled', sourceState'.mark, Empty)
        BY <1>1, <2>1, <2>2, <2>3, <2>4, SoundWhenPublished DEF WatermarkInv
    <2>6. ASSUME NEW a \in CrawlAttempt
          PROVE  Sound(listed', crawled', crawlers'[a].mark, crawlers'[a].items)
        BY <1>1, <2>1, <2>2, <2>3, <2>4, SoundWhenPublished DEF WatermarkInv
    <2> QED BY <1>1, <2>3, <2>5, <2>6 DEF WatermarkInv
<1> QED BY <1>1, <1>2, <1>3, <1>4, <1>5, CrawlerStepWatermark DEF SourceNext

LEMMA InitWatermark ==
    ASSUME SourceInit
    PROVE  WatermarkInv
<1>1. SourceTypeOK /\ listed \in Batch
    BY InitSourceTypes DEF SourceTypeOK
<1> QED BY <1>1, NoMarkIsSound DEF SourceInit, WatermarkInv, IdleCrawler

LEMMA SoundIsCaughtUp ==
    ASSUME WatermarkInv
    PROVE  CaughtUp
<1>1. \A p \in Page : Empty[p] = 0 /\ listed[p] \in Nat
    BY SourceNumbers, BatchNumbers DEF WatermarkInv, Empty
<1> QED BY <1>1 DEF WatermarkInv, Sound, CaughtUp

(* The watermark hides no article from the crawls to come, for any number of pages, child
   sitemaps, overlapping attempts, failures and crashes: it moves in the transaction that
   stores what was found under it, and one that was read earlier is no newer
   (SitemapCrawler::crawl, complete_crawl_run).  It takes a publisher whose dates move forward
   and crawls that meet no cap; without either it is refuted by small examples. *)
THEOREM WatermarkIsSound ==
    ASSUME DatesMoveForward, NothingIsMissed
    PROVE  SourceSpec => []CaughtUp
<1>1. SourceInit => WatermarkInv
    BY InitWatermark
<1>2. WatermarkInv /\ [SourceNext]_sourceVars => WatermarkInv'
    BY StepWatermark
<1>3. WatermarkInv => CaughtUp
    BY SoundIsCaughtUp
<1> QED BY <1>1, <1>2, <1>3, PTL DEF SourceSpec

-----------------------------------------------------------------------------
(* The parts together *)

LEMMA PartsBegin ==
    ASSUME PublicationInit
    PROVE  FeedInit /\ SourceInit /\ FetchInit /\ OffloadInit /\ SelectionInit /\ ExportInit
<1>1. SelectionInit
    BY DEF PublicationInit, SelectionInit
<1> QED BY <1>1 DEF PublicationInit

LEMMA PartsStep ==
    ASSUME [PublicationNext]_publicationVars
    PROVE  /\ [FeedNext]_feedRows /\ [SourceNext]_sourceVars /\ [FetchNext]_fetchVars
           /\ [OffloadNext]_offloadVars /\ [SelectionNext]_selectionVars /\ [ExportNext]_exportVars
BY DEF PublicationNext, publicationVars

(* The instances that the runs work on one by one are behaviours of each module on its own:
   what is proved of a module holds in them. *)
THEOREM PublicationIsItsParts ==
    PublicationSpec =>
        /\ FeedSpec /\ SelectionSpec /\ OffloadInit /\ [][OffloadNext]_offloadVars
        /\ SourceInit /\ [][SourceNext]_sourceVars
        /\ FetchInit /\ [][FetchNext]_fetchVars
        /\ ExportInit /\ [][ExportNext]_exportVars
BY PartsBegin, PartsStep, PTL DEF PublicationSpec, FeedSpec, SelectionSpec

(* The types of all parts, for every instance. *)
THEOREM PublicationIsTyped == PublicationSpec => []PublicationTypeOK
<1> DEFINE Typed == /\ FeedTypeOK /\ SourceTypeOK /\ FetchTypeOK
                    /\ OffloadInv /\ SelectionTypeOK /\ ExportInv
<1>1. PublicationInit => Typed
    <2>1. FeedInit => FeedTypeOK
        BY DEF FeedInit, FeedTypeOK, UniqueKeys
    <2> QED BY <2>1, PartsBegin, InitSourceTypes, InitFetchTypes, InitOffloadInv, InitSelectionTypes,
               InitExportInv
<1>2. Typed /\ [PublicationNext]_publicationVars => Typed'
    BY PartsStep, StepFeedTypes, StepSourceTypes, StepFetchTypes, StepOffloadInv,
       StepSelectionTypes, StepExportInv
<1>3. Typed => PublicationTypeOK
    BY DEF PublicationTypeOK, OffloadInv, ExportInv
<1> QED BY <1>1, <1>2, <1>3, PTL DEF PublicationSpec
=============================================================================
