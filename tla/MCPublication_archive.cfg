SPECIFICATION PublicationSpec
CONSTANTS
 ExternalId={e1,e2} Canonical={c1,c2} UrlKey={u1,u2} MaxRows=3
 CrawlAttempt={a1,a2} FreshnessSlo=1 MaxBackoff=2 MaxExponent=1 Page={"p1","p2"} Undated={} PathDate=1 MaxChildren=1 MaxItems=3 MaxArticles=3 MaxSignal=2 SameDay=FALSE MissesPages=FALSE
 ChildOf <- MCChildOf
 CrawlBatch={"b1","b2"} MaxCandidate=3 MaxConcurrency=2 MaxPerHostConcurrency=1 MaxRedirects=1 CanonicalUrl={k1}
 BatchOf <- MCBatchOf HostOf <- MCHostOf
 RawItem={r1,r2,r3} Offloader={w1,w2} RowsPerObject=2 MaxOffloadFaults=1
 Story={1,2,3,4}
 CompanyOf <- MCCompanyOf EntityOf <- MCEntityOf UrlOf <- MCUrlOf IdentityOf <- MCIdentityOf TitleOf <- MCTitleOf KindOf <- MCKindOf
 Doc={"d1"} Index={"head"} Head="head" Exporter={x1,x2} MaxExportFaults=1 MaxChanges=1
 Covers <- MCCovers TargetConfig <- MCTargets
CHECK_DEADLOCK FALSE
INVARIANTS
    PublicationTypeOK
    NoBatchIsRejected
    CaughtUp
    NoPayloadLost
    OneRowPerDocument
    ReadersFindArticles
PROPERTIES
    NoSourceForgotten
    BatchSettles
    GenerationCatchesUp
