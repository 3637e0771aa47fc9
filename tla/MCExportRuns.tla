---------------------------- MODULE MCExportRuns ----------------------------
(***************************************************************************)
(* Instance of ExportRuns for the remote of a mirror: nothing crashes,     *)
(* and nothing fails but its push.                                         *)
(***************************************************************************)
EXTENDS ExportRuns

MCCovers == [f \in Index |-> Doc]
MCMirror == {[dual |-> FALSE, mirror |-> TRUE, push |-> FALSE]}

MirrorNext ==
    \/ EnqueueExport \/ SetEnabled
    \/ \E e \in Exporter : ExporterStep(e) \/ MirrorPushFails(e)
    \/ \E d \in Doc : SelectionChanges(d)

MirrorSpec ==
    /\ ExportInit /\ [][MirrorNext]_exportVars
    /\ WF_exportVars(EnqueueExport) /\ WF_exportVars(\E e \in Exporter : BeginExport(e))
=============================================================================
