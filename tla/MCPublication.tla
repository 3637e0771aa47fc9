--------------------------- MODULE MCPublication ---------------------------
(***************************************************************************)
(* Instances of the modules between a due source and the published         *)
(* archive.  They share no variable, so that a behaviour works one of      *)
(* them, its part, and leaves the others as they begin.                    *)
(***************************************************************************)
EXTENDS FeedItems, SourceCrawl, ArticleFetch, PayloadOffload, ExportSelection, ExportRuns

VARIABLE part

publicationVars ==
    <<part, feedRows, sourceVars, fetchVars, offloadVars, selectionVars, exportVars>>

MCChildOf == [p \in Page |-> IF p = "p2" THEN 1 ELSE 0]
MCBatchOf == <<"b1", "b1", "b2">>
MCHostOf == <<"h1", "h2", "h1">>
MCCompanyOf == <<"classA", "classA", "classC", "classC">>
MCEntityOf == [c \in {"classA", "classC"} |-> "entity"]
MCUrlOf == <<"u1", "u2", "u1", "u3">>
MCIdentityOf == [u \in {"u1", "u2", "u3"} |-> IF u = "u3" THEN "i3" ELSE "i1"]
MCTitleOf == <<"t1", "t1", "t1", "undated">>
MCKindOf == <<0, 0, 1, 0>>
MCCovers == [f \in Index |-> Doc]
MCTargets == {[dual |-> TRUE, mirror |-> FALSE, push |-> TRUE],
              [dual |-> FALSE, mirror |-> TRUE, push |-> FALSE]}

PublicationInit ==
    /\ part \in {"feed", "source", "fetch", "offload", "selection", "export"}
    /\ FeedInit /\ FetchInit /\ OffloadInit
    /\ SourceInit /\ (part # "source" => sourceRow.kind = "recipe" /\ ~sourceRow.ready)
    /\ ExportInit /\ (part # "export" => selectable = {} /\ target.dual)
    /\ IF part = "selection" THEN SelectionInit
       ELSE /\ shown = {} /\ content = [s \in Story |-> 0]
            /\ fetched = [s \in Story |-> s]

PublicationNext ==
    /\ UNCHANGED part
    /\ IF part = "feed" THEN FeedNext ELSE UNCHANGED feedRows
    /\ IF part = "source" THEN SourceNext ELSE UNCHANGED sourceVars
    /\ IF part = "fetch" THEN FetchNext ELSE UNCHANGED fetchVars
    /\ IF part = "offload" THEN OffloadNext ELSE UNCHANGED offloadVars
    /\ IF part = "selection" THEN SelectionNext ELSE UNCHANGED selectionVars
    /\ IF part = "export" THEN ExportNext ELSE UNCHANGED exportVars

\* The fairness of each module's specification, for the part that is worked.
PublicationFairness ==
    /\ WF_sourceVars(part = "source" /\ EnqueueCrawl)
    /\ WF_sourceVars(part = "source" /\ CrawlClock)
    /\ WF_sourceVars(part = "source" /\ SettleCrawlJob)
    /\ WF_exportVars(part = "export" /\ EnqueueExport)
    /\ WF_exportVars(part = "export" /\ \E e \in Exporter : BeginExport(e))
    /\ \A w \in Offloader :
           WF_offloadVars(part = "offload" /\ (ClaimBatch(w) \/ PutObject(w) \/ StampBatch(w)))
    /\ \A c \in Candidate :
          /\ WF_fetchVars(part = "fetch" /\ Begin(c))
          /\ WF_fetchVars(part = "fetch" /\ AcquireHost(c))
          /\ WF_fetchVars(part = "fetch" /\ AcquireSlot(c))
          /\ WF_fetchVars(part = "fetch" /\ AfterWaiting(c))
          /\ WF_fetchVars(part = "fetch" /\ Arrive(c))
    /\ \A b \in CrawlBatch : WF_fetchVars(part = "fetch" /\ CollectReport(b))

PublicationSpec ==
    PublicationInit /\ [][PublicationNext]_publicationVars /\ PublicationFairness

-----------------------------------------------------------------------------
\* The type invariants of the parts.
PublicationTypeOK ==
    FeedTypeOK /\ SourceTypeOK /\ FetchTypeOK /\ OffloadTypeOK /\ SelectionTypeOK /\ ExportTypeOK
=============================================================================
