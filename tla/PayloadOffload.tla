--------------------------- MODULE PayloadOffload ---------------------------
(***************************************************************************)
(* The payloads of crawled items (raw_crawl_items): written by             *)
(* complete_crawl_run, moved in batches to object storage by the           *)
(* offloader's workers (bins/feed-payload-offloader/src/main.rs), and      *)
(* their rows deleted by the nightly retention job                         *)
(* (scripts/retention-raw-crawl-items.sh).                                 *)
(***************************************************************************)
EXTENDS Naturals, FiniteSets

CONSTANTS
    RawItem, Offloader,
    RowsPerObject,       \* OFFLOAD_BATCH_SIZE
    MaxOffloadFaults     \* bound: failures of the store and the database, crashes

ASSUME OffloadAssumption == MaxOffloadFaults \in Nat

VARIABLES
    rawItems,       \* [RawItem -> "none", "inline", "stamped" or "deleted"]
    provenance,     \* rows a feed item points at: the latest crawl of each article
    objects,        \* rows whose payload is in an object that was uploaded
    offloaders,     \* [Offloader -> [at, batch]]; batch holds its row locks until commit
    offloadFaults

offloadVars == <<rawItems, provenance, objects, offloaders, offloadFaults>>

Worker == [at : {"idle", "packed", "uploaded"}, batch : SUBSET RawItem]
IdleWorker == [at |-> "idle", batch |-> {}]

OffloadInit ==
    /\ rawItems = [r \in RawItem |-> "none"]
    /\ provenance = {}
    /\ objects = {}
    /\ offloaders = [w \in Offloader |-> IdleWorker]
    /\ offloadFaults = 0

Locked == UNION {offloaders[w].batch : w \in Offloader}
Offloadable == {r \in RawItem : rawItems[r] = "inline"}

\* A crawl commits the row of an item, alone or as the item's new provenance.
RecordRawItem(r) ==
    /\ rawItems[r] = "none"
    /\ rawItems' = [rawItems EXCEPT ![r] = "inline"]
    /\ \E superseded \in SUBSET provenance :
           provenance' \in {provenance, (provenance \ superseded) \cup {r}}
    /\ UNCHANGED <<objects, offloaders, offloadFaults>>

\* offload_one_batch: FOR UPDATE SKIP LOCKED over the rows without a key, and the payloads packed.
ClaimBatch(w) ==
    /\ offloaders[w].at = "idle"
    /\ \E batch \in (SUBSET (Offloadable \ Locked)) \ {{}} :
        /\ \/ Cardinality(batch) = RowsPerObject
           \/ Cardinality(batch) < RowsPerObject /\ batch = Offloadable \ Locked
        /\ offloaders' = [offloaders EXCEPT ![w] = [at |-> "packed", batch |-> batch]]
    /\ UNCHANGED <<rawItems, provenance, objects, offloadFaults>>

PutObject(w) ==
    /\ offloaders[w].at = "packed"
    /\ objects' = objects \cup offloaders[w].batch
    /\ offloaders' = [offloaders EXCEPT ![w].at = "uploaded"]
    /\ UNCHANGED <<rawItems, provenance, offloadFaults>>

\* The payloads are blanked and the key recorded, in the claim's transaction.
StampBatch(w) ==
    /\ offloaders[w].at = "uploaded"
    /\ rawItems' = [r \in RawItem |-> IF r \in offloaders[w].batch THEN "stamped" ELSE rawItems[r]]
    /\ offloaders' = [offloaders EXCEPT ![w] = IdleWorker]
    /\ UNCHANGED <<provenance, objects, offloadFaults>>

\* The store is down, the commit fails or the process dies: the transaction is rolled back.
BatchFails(w) ==
    /\ offloaders[w].at # "idle"
    /\ offloadFaults < MaxOffloadFaults
    /\ offloadFaults' = offloadFaults + 1
    /\ offloaders' = [offloaders EXCEPT ![w] = IdleWorker]
    /\ UNCHANGED <<rawItems, provenance, objects>>
\* Mutant: the articles' rows are not spared.
ExpiredByAge(r) == rawItems[r] = "stamped"

\* Old rows that have a key and are nobody's provenance.
Expired(r) == rawItems[r] = "stamped" /\ r \notin provenance

Retention ==
    /\ \E old \in (SUBSET {r \in RawItem : Expired(r)}) \ {{}} :
           rawItems' = [r \in RawItem |-> IF r \in old THEN "deleted" ELSE rawItems[r]]
    /\ UNCHANGED <<provenance, objects, offloaders, offloadFaults>>

OffloadNext ==
    \/ \E r \in RawItem : RecordRawItem(r)
    \/ \E w \in Offloader : ClaimBatch(w) \/ PutObject(w) \/ StampBatch(w) \/ BatchFails(w)
    \/ Retention

OffloadSpec == OffloadInit /\ [][OffloadNext]_offloadVars

\* Workers run in a loop until they are stopped.
FairOffloadSpec ==
    /\ OffloadSpec
    /\ \A w \in Offloader : WF_offloadVars(ClaimBatch(w) \/ PutObject(w) \/ StampBatch(w))

-----------------------------------------------------------------------------
OffloadTypeOK ==
    /\ rawItems \in [RawItem -> {"none", "inline", "stamped", "deleted"}]
    /\ provenance \subseteq RawItem /\ objects \subseteq RawItem
    /\ offloaders \in [Offloader -> Worker]
    /\ offloadFaults \in 0..MaxOffloadFaults

(* A payload is in the database or in the store, at every moment and for every crash of a
   worker, and the row an article came from is never deleted (offload_one_batch uploads before
   it blanks; retention takes only rows with a key that no article points at). *)
NoPayloadLost ==
    /\ \A r \in RawItem : rawItems[r] \in {"stamped", "deleted"} => r \in objects
    /\ \A r \in provenance : rawItems[r] \in {"inline", "stamped"}
=============================================================================
