SPECIFICATION MirrorSpec
CONSTANTS
 Doc={"d1","d2"} Index={"f1","head"} Head="head" Exporter={x1} MaxExportFaults=1 MaxChanges=1
 Covers <- MCCovers TargetConfig <- MCMirror
CHECK_DEADLOCK FALSE
PROPERTIES
    MirrorCatchesUp
