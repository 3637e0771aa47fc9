---------------------------- MODULE MCJobQueue ----------------------------
(* An instance of JobQueue for TLC: two news jobs, of which both runners serve one, and a crawl. *)
EXTENDS JobQueue, TLC

CONSTANTS w1, w2, news1, news2, source

\* One retry delay for every attempt; the delay's growth is Backoff's subject.
MCRetryDelay == [n \in 1..5 |-> 1]

\* The key that both runners serve has an attempt that can be retried and a final one.
MCMaxAttempts == [k \in Key |-> IF k = news1 THEN 2 ELSE 1]

MCSupports == [w \in Worker |-> IF w = w1 THEN NewsKey ELSE {news1, source}]
=============================================================================
