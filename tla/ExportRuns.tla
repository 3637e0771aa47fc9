----------------------------- MODULE ExportRuns -----------------------------
(***************************************************************************)
(* Publication of the archive: the producer of export_target jobs          *)
(* (crates/feed-db/src/exports.rs), the job's handler                      *)
(* (crates/feed-jobs/src/lib.rs) and the exporter, which regenerates the   *)
(* archive file by file in a git working copy, then adds, commits and      *)
(* pushes it (crates/feed-exporter/src/lib.rs, archive_v2.rs).             *)
(*                                                                         *)
(* The exporter runs in a blocking thread that outlives its handler: after *)
(* a lost lease two of them work in one working copy, with no lock but the *)
(* one git takes on its index.                                             *)
(***************************************************************************)
EXTENDS Naturals, FiniteSets

CONSTANTS
    Doc,             \* articles, by document id
    Index,           \* the files of v2 that name articles: indexes, and HEAD.json and all that
                     \* is written each time, which count as one
    Covers, Head,    \* [Index -> SUBSET Doc]: the articles each names; Head covers all
    Exporter,        \* attempts of the export job, and the threads they leave behind
    TargetConfig,    \* the metadata a target may have: dual_write_v1, v2_mirror, push_enabled
    MaxExportFaults, \* bound: crashes, lost leases, failures of files and of the network, and
                     \* articles that are written again for another text
    MaxChanges       \* bound: changes of the selection and of the target's configuration

File == Doc \cup Index

\* A pushed repository holds something: v2, or v1.
ASSUME ExportAssumption ==
    /\ Doc \cap Index = {} /\ "torn" \notin Doc
    /\ Covers \in [Index -> SUBSET Doc] /\ Head \in Index /\ Covers[Head] = Doc
    /\ TargetConfig \subseteq [dual : BOOLEAN, mirror : BOOLEAN, push : BOOLEAN]
    /\ \A c \in TargetConfig : c.push => c.dual \/ ~c.mirror
    /\ MaxExportFaults \in Nat /\ MaxChanges \in Nat

VARIABLES
    target,        \* export_targets: enabled, and its metadata
    selectable,    \* articles list_exportable_feed_items returns
    exportJob,     \* whether an active export_target job exists
    exporters,     \* [Exporter -> Thread]
    v2,            \* the tree of v2: in the working copy, in git's index and its lock, committed,
                   \* and at the remote
    staleLocks,    \* repositories with an index.lock whose git command has died
    overlap,       \* history: which of commit and remote an exporter has made that was not alone
    exportFaults, changes

exportVars ==
    <<target, selectable, exportJob, exporters, v2, staleLocks, overlap, exportFaults, changes>>

\* What a file says of which articles: an article's own file, the rows of an index, the
\* articles HEAD.json counts; or the rest of a write that was cut short.
Tree == [File -> SUBSET (Doc \cup {"torn"})]
NoTree == [f \in File |-> {}]
Content(S, f) == IF f \in Doc THEN S \cap {f} ELSE S \cap Covers[f]
Generated(S) == {f \in File : f = Head \/ Content(S, f) # {}}

Repo == {"main", "mirror"}
Home == IF target.mirror THEN "mirror" ELSE "main"  \* the repository with v2

\* held: the handler that awaits the thread still holds the job.  todo: files to write, or to
\* add; open: the one being written.  alone is history: no other exporter has been at work
\* since this one began.
Thread == [at : {"idle", "v1", "v2", "status", "add", "adding", "commit", "push", "done"},
           repo : Repo, held : BOOLEAN, alone : BOOLEAN,
           items : SUBSET Doc, todo : SUBSET File, open : SUBSET File]
IdleThread == [at |-> "idle", repo |-> "main", held |-> FALSE, alone |-> FALSE,
               items |-> {}, todo |-> {}, open |-> {}]

ExportInit ==
    /\ target \in {[enabled |-> TRUE, dual |-> c.dual, mirror |-> c.mirror, push |-> c.push] :
                     c \in TargetConfig}
    /\ selectable \in SUBSET Doc
    /\ exportJob = FALSE
    /\ exporters = [e \in Exporter |-> IdleThread]
    /\ v2 = [work |-> NoTree, lock |-> NoTree, index |-> NoTree, commit |-> NoTree,
             remote |-> NoTree]
    /\ staleLocks = {} /\ overlap = {}
    /\ exportFaults = 0 /\ changes = 0

-----------------------------------------------------------------------------
Is(e, at) == exporters[e].at = at
MoveOn(e, at) == exporters' = [exporters EXCEPT ![e].at = at]
Finish(e) == exporters' = [exporters EXCEPT ![e] = IdleThread]
MayFault == exportFaults < MaxExportFaults /\ exportFaults' = exportFaults + 1
MayChange == changes < MaxChanges /\ changes' = changes + 1

\* enqueue_due_export_jobs, once the cadence has elapsed since the last one.
EnqueueExport ==
    /\ target.enabled /\ ~exportJob
    /\ exportJob' = TRUE
    /\ UNCHANGED <<target, selectable, exporters, v2, staleLocks, overlap, exportFaults, changes>>

\* The handler until its thread starts: a disabled target fails the job for good; the run is
\* recorded, which closes no run left behind by an earlier attempt, and the items are listed.
BeginExport(e) ==
    /\ exportJob /\ Is(e, "idle") /\ \A x \in Exporter : ~exporters[x].held
    /\ IF target.enabled
       THEN /\ exporters' = [x \in Exporter |->
                   IF x = e
                   THEN [IdleThread EXCEPT !.at = IF target.dual THEN "v1" ELSE "v2",
                             !.held = TRUE, !.alone = \A y \in Exporter : Is(y, "idle"),
                             !.items = selectable, !.todo = Generated(selectable)]
                   ELSE [exporters[x] EXCEPT !.alone = FALSE]]
            /\ UNCHANGED exportJob
       ELSE exportJob' = FALSE /\ UNCHANGED exporters
    /\ UNCHANGED <<target, selectable, v2, staleLocks, overlap, exportFaults, changes>>

-----------------------------------------------------------------------------
\* The thread writes the files.

\* archive_v1::materialize_archive; of the files of v1 only that they may have changed is kept.
WriteV1(e) ==
    /\ Is(e, "v1")
    /\ MoveOn(e, "v2")
    /\ UNCHANGED <<target, selectable, exportJob, v2, staleLocks, overlap, exportFaults, changes>>

\* The articles, then the indexes, then the head.
WrittenBefore(f) == IF f \in Doc THEN {} ELSE IF f = Head THEN File \ {Head} ELSE Doc
IsNext(e, f) ==
    /\ Is(e, "v2") /\ exporters[e].open = {}
    /\ f \in exporters[e].todo /\ WrittenBefore(f) \cap exporters[e].todo = {}

Ready(e, f) ==
    exporters' = [exporters EXCEPT ![e].todo = @ \ {f}, ![e].open = {},
                                   ![e].at = IF exporters[e].todo = {f}
                                             THEN "status" ELSE "v2"]

\* Mutant: an article that has a file is not written again.
KeepArticle(e) ==
    /\ \E f \in exporters[e].todo :
        /\ IsNext(e, f)
        /\ v2.work[f] = Content(exporters[e].items, f) \/ (f \in Doc /\ v2.work[f] # {})
        /\ Ready(e, f)
    /\ UNCHANGED <<target, selectable, exportJob, v2, staleLocks, overlap, exportFaults, changes>>

\* write_if_changed: a file that is right is left alone, any other is truncated and then
\* written.  An article's text may have changed though its id has not.
SkipFile(e) ==
    /\ \E f \in exporters[e].todo :
        /\ IsNext(e, f) /\ v2.work[f] = Content(exporters[e].items, f)
        /\ Ready(e, f)
    /\ UNCHANGED <<target, selectable, exportJob, v2, staleLocks, overlap, exportFaults, changes>>

TruncateFile(e) ==
    /\ \E f \in exporters[e].todo :
        /\ IsNext(e, f)
        /\ IF v2.work[f] # Content(exporters[e].items, f) THEN UNCHANGED exportFaults
           ELSE f \in Doc /\ MayFault
        /\ v2' = [v2 EXCEPT !.work[f] = {"torn"}]
        /\ exporters' = [exporters EXCEPT ![e].open = {f}]
    /\ UNCHANGED <<target, selectable, exportJob, staleLocks, overlap, changes>>

\* Two exporters that write a file at the same time may mix what they write.
WriteFile(e) ==
    /\ Is(e, "v2")
    /\ \E f \in exporters[e].open :
        /\ \E content \in {Content(exporters[e].items, f)}
                          \cup IF exporters[e].alone THEN {} ELSE {{"torn"}} :
               v2' = [v2 EXCEPT !.work[f] = content]
        /\ Ready(e, f)
    /\ UNCHANGED <<target, selectable, exportJob, staleLocks, overlap, exportFaults, changes>>

-----------------------------------------------------------------------------
\* The thread adds, commits and pushes: in the main repository, then in the mirror.

IndexLocked(repo) ==
    repo \in staleLocks \/ \E x \in Exporter : Is(x, "adding") /\ exporters[x].repo = repo

Clean == v2.work = v2.index /\ v2.index = v2.commit

\* Mutant: without a change the main repository is not pushed.
PushOnlyChanges(e) ==
    /\ Is(e, "status")
    /\ \E v1Changed \in {FALSE, target.dual} :
           IF v1Changed \/ (Home = "main" /\ ~Clean) THEN MoveOn(e, "add")
           ELSE exporters' = IF target.mirror
                             THEN [exporters EXCEPT ![e].repo = "mirror", ![e].at = "add"]
                             ELSE [exporters EXCEPT ![e].at = "done"]
    /\ UNCHANGED <<target, selectable, exportJob, v2, staleLocks, overlap, exportFaults, changes>>

\* repository_has_owned_changes: the main repository's files differ from its index or commit.
Status(e) ==
    /\ Is(e, "status")
    /\ \E v1Changed \in {FALSE, target.dual} :
           MoveOn(e, IF v1Changed \/ (Home = "main" /\ ~Clean) THEN "add" ELSE "push")
    /\ UNCHANGED <<target, selectable, exportJob, v2, staleLocks, overlap, exportFaults, changes>>

\* git add reads one file after the other into the new index, and then replaces the old one.
BeginAdd(e) ==
    /\ Is(e, "add") /\ ~IndexLocked(exporters[e].repo)
    /\ exporters' = [exporters EXCEPT ![e].at = "adding",
                                      ![e].todo = IF exporters[e].repo = Home THEN File ELSE {}]
    /\ UNCHANGED <<target, selectable, exportJob, v2, staleLocks, overlap, exportFaults, changes>>

StageFile(e) ==
    /\ Is(e, "adding")
    /\ \E f \in exporters[e].todo :
        /\ v2' = [v2 EXCEPT !.lock[f] = v2.work[f]]
        /\ exporters' = [exporters EXCEPT ![e].todo = @ \ {f}]
    /\ UNCHANGED <<target, selectable, exportJob, staleLocks, overlap, exportFaults, changes>>

EndAdd(e) ==
    /\ Is(e, "adding") /\ exporters[e].todo = {}
    /\ v2' = IF exporters[e].repo = Home THEN [v2 EXCEPT !.index = v2.lock] ELSE v2
    /\ MoveOn(e, "commit")
    /\ UNCHANGED <<target, selectable, exportJob, staleLocks, overlap, exportFaults, changes>>

\* The mirror's own status, between its add and its commit: nothing has changed, and
\* mirror_commit_and_push returns before the push.
MirrorUnchanged(e) ==
    /\ Is(e, "commit") /\ exporters[e].repo = "mirror" /\ Clean
    /\ MoveOn(e, "done")
    /\ UNCHANGED <<target, selectable, exportJob, v2, staleLocks, overlap, exportFaults, changes>>

\* A commit needs something to commit: v1 may have it, in the main repository.
Staged(repo) == repo # Home \/ v2.index # v2.commit \/ (target.dual /\ repo = "main")

Commit(e) ==
    /\ Is(e, "commit") /\ ~IndexLocked(exporters[e].repo) /\ Staged(exporters[e].repo)
    /\ IF exporters[e].repo = Home
       THEN /\ v2' = [v2 EXCEPT !.commit = v2.index]
            /\ overlap' = IF exporters[e].alone THEN overlap \ {"commit"}
                          ELSE overlap \cup {"commit"}
       ELSE UNCHANGED <<v2, overlap>>
    /\ MoveOn(e, "push")
    /\ UNCHANGED <<target, selectable, exportJob, staleLocks, exportFaults, changes>>

AfterPush(e) ==
    exporters' = IF exporters[e].repo = "main" /\ target.mirror
                 THEN [exporters EXCEPT ![e].repo = "mirror", ![e].at = "add"]
                 ELSE [exporters EXCEPT ![e].at = "done"]

\* git push of HEAD, in the main repository also when nothing was committed, if it is enabled.
Push(e) ==
    /\ Is(e, "push")
    /\ IF exporters[e].repo = Home /\ (target.push \/ target.mirror)
       THEN /\ v2' = [v2 EXCEPT !.remote = v2.commit]
            /\ overlap' = IF "commit" \in overlap THEN overlap \cup {"remote"}
                          ELSE overlap \ {"remote"}
       ELSE UNCHANGED <<v2, overlap>>
    /\ AfterPush(e)
    /\ UNCHANGED <<target, selectable, exportJob, staleLocks, exportFaults, changes>>

\* A push of the mirror that fails, or lacks its token, is only logged.
MirrorPushFails(e) ==
    /\ Is(e, "push") /\ exporters[e].repo = "mirror"
    /\ MayFault
    /\ MoveOn(e, "done")
    /\ UNCHANGED <<target, selectable, exportJob, v2, staleLocks, overlap, changes>>

-----------------------------------------------------------------------------
\* fail_export_run; the job stays for its retries, until one is its last.
Fails(e) ==
    /\ exportJob' \in IF exporters[e].held THEN {exportJob, FALSE} ELSE {exportJob}
    /\ v2' = IF Is(e, "adding") /\ exporters[e].repo = Home
             THEN [v2 EXCEPT !.lock = v2.index] ELSE v2
    /\ Finish(e)
    /\ UNCHANGED <<target, selectable, staleLocks, overlap, changes>>

\* git add and git commit fail on a locked index, git commit also with nothing to commit.
GitRefuses(e) ==
    /\ \/ exporters[e].at \in {"add", "commit"} /\ IndexLocked(exporters[e].repo)
       \/ Is(e, "commit") /\ ~Staged(exporters[e].repo)
          /\ ~(exporters[e].repo = "mirror" /\ Clean)
    /\ Fails(e) /\ UNCHANGED exportFaults

\* A file, the network or the database fails; a torn file stays as it is.
FailExport(e) ==
    /\ ~Is(e, "idle")
    /\ MayFault
    /\ Fails(e)

\* complete_export_run records every article of the run in exported_items, which nothing here
\* reads, and the job completes, unless it is no longer this attempt's.
CompleteExport(e) ==
    /\ Is(e, "done")
    /\ exportJob' = (exportJob /\ ~exporters[e].held)
    /\ Finish(e)
    /\ UNCHANGED <<target, selectable, v2, staleLocks, overlap, exportFaults, changes>>

\* A lost lease or a timeout drops the handler, at once or later, and the thread goes on.
LoseLease(e) ==
    /\ exporters[e].held
    /\ MayFault
    /\ exporters' = [exporters EXCEPT ![e].held = FALSE]
    /\ exportJob' \in {exportJob, FALSE}
    /\ UNCHANGED <<target, selectable, v2, staleLocks, overlap, changes>>

\* The process ends, and with it what its exporters have open.  A git command that dies with it
\* leaves its index.lock, which no code removes; its last act may have been the commit.
ExporterCrash ==
    /\ \E e \in Exporter : ~Is(e, "idle")
    /\ MayFault
    /\ \E died \in SUBSET {e \in Exporter : exporters[e].at \in {"adding", "commit", "push"}} :
           staleLocks' = staleLocks \cup {exporters[e].repo : e \in died}
    /\ v2' = [v2 EXCEPT !.lock = v2.index]
    /\ exporters' = [e \in Exporter |-> IdleThread]
    /\ exportJob' \in {exportJob, FALSE}
    /\ UNCHANGED <<target, selectable, overlap, changes>>

-----------------------------------------------------------------------------
\* Crawls add articles; reviews, withdrawals and stale recipes remove some.
SelectionChanges(d) ==
    /\ MayChange
    /\ selectable' \in {selectable \cup {d}, selectable \ {d}}
    /\ UNCHANGED <<target, exportJob, exporters, v2, staleLocks, overlap, exportFaults>>

SetEnabled ==
    /\ MayChange
    /\ target' = [target EXCEPT !.enabled = ~@]
    /\ UNCHANGED <<selectable, exportJob, exporters, v2, staleLocks, overlap, exportFaults>>

ExporterStep(e) ==
    \/ BeginExport(e) \/ WriteV1(e) \/ SkipFile(e) \/ TruncateFile(e) \/ WriteFile(e)
    \/ Status(e) \/ BeginAdd(e) \/ StageFile(e) \/ EndAdd(e) \/ MirrorUnchanged(e)
    \/ Commit(e) \/ Push(e) \/ GitRefuses(e) \/ CompleteExport(e)

ExporterFault(e) == MirrorPushFails(e) \/ FailExport(e) \/ LoseLease(e)

ExportNext ==
    \/ EnqueueExport \/ SetEnabled \/ ExporterCrash
    \/ \E e \in Exporter : ExporterStep(e) \/ ExporterFault(e)
    \/ \E d \in Doc : SelectionChanges(d)

ExportSpec == ExportInit /\ [][ExportNext]_exportVars

\* The producer's scan, and the worker's claim.  That a thread returns is no more than a
\* hypothesis, ExportsEnd: nothing limits the time a git command takes.
FairExportSpec ==
    /\ ExportSpec
    /\ WF_exportVars(EnqueueExport)
    /\ WF_exportVars(\E e \in Exporter : BeginExport(e))

-----------------------------------------------------------------------------
ExportTypeOK ==
    /\ target \in [enabled : BOOLEAN, dual : BOOLEAN, mirror : BOOLEAN, push : BOOLEAN]
    /\ selectable \subseteq Doc
    /\ exportJob \in BOOLEAN
    /\ exporters \in [Exporter -> Thread]
    /\ v2 \in [work : Tree, lock : Tree, index : Tree, commit : Tree, remote : Tree]
    /\ staleLocks \subseteq Repo /\ overlap \subseteq {"commit", "remote"}
    /\ exportFaults \in 0..MaxExportFaults /\ changes \in 0..MaxChanges

\* Every file of the generation HEAD.json tells of is there, whole, and of that generation.
Complete(tree) ==
    /\ tree[Head] \subseteq Doc
    /\ \A f \in Generated(tree[Head]) : tree[f] = Content(tree[Head], f)

(* Whatever generation a reader finds in HEAD.json, its indexes name its articles and no
   others, and each of them can be opened: in what is committed and in what is at the remote,
   after any crash or failure in the middle of a file, of the files or of git add, if the
   exporter that committed it had the working copy to itself (archive_v2.rs writes a file in
   place, and again if it finds it wrong; lib.rs adds and commits once all are written). *)
ReadersFindArticles ==
    /\ "commit" \in overlap \/ Complete(v2.commit)
    /\ "remote" \in overlap \/ Complete(v2.remote)

(* What complete_export_run is about to record as exported has been: its articles are whole in
   the commit, and at the remote if the repository with v2 is one that fails the run when it
   cannot be pushed (export_archive_sync).  For an exporter that has been alone. *)
CheckpointIsPublished ==
    \A e \in Exporter : Is(e, "done") /\ exporters[e].alone =>
        \A d \in exporters[e].items :
            /\ v2.commit[d] = {d}
            /\ target.push /\ ~target.mirror => v2.remote[d] = {d}

\* Every exporter returns, and from some time on nothing keeps d in, or out, but its being
\* selectable: no git command has died with the lock of an index.
ExportsEnd == \A e \in Exporter : []<>Is(e, "idle")
Stays(d, in) == target.enabled /\ staleLocks = {} /\ (d \in selectable) = in
Published == IF target.push /\ ~target.mirror THEN v2.remote ELSE v2.commit

(* The committed generation follows the selection, and where the main repository holds v2 and
   is pushed the remote's does: an article that stays selectable gets into it for good, one
   that stays withdrawn leaves it, through overlapping exporters, torn files, lost leases and
   failed pushes (enqueue_due_export_jobs, export_archive_sync, which pushes also when it has
   committed nothing).  MirrorCatchesUp is about the remote of a mirror. *)
GenerationCatchesUp ==
    \A d \in Doc, in \in BOOLEAN :
        ExportsEnd /\ <>[]Stays(d, in) => <>[]((d \in Published[Head]) = in)

(* "A push failure is logged and swallowed (the local commit is kept and the next export
   fast-forwards it)" (lib.rs:193-197): so that what the data host serves follows, too. *)
MirrorCatchesUp ==
    \A d \in Doc, in \in BOOLEAN :
        ExportsEnd /\ <>[](target.mirror /\ Stays(d, in)) => <>[]((d \in v2.remote[Head]) = in)
=============================================================================
