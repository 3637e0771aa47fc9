---------------------------- MODULE MCCrawlRuns ----------------------------
(* Instances of CrawlRuns for TLC. *)
EXTENDS CrawlRuns, TLC

CONSTANTS w1, w2, source, news

MCRetryDelay == [n \in 1..5 |-> 0]
MCMaxAttempts == [k \in Key |-> 2]
MCSupportsAll == [w \in Worker |-> Key]
\* Runners that take news jobs as well, and so take their locks first.
MCSupportsNews == [w \in Worker |-> Key \cup NewsKey]
MCSymmetry == Permutations(Worker)
=============================================================================
