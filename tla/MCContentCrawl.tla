--------------------------- MODULE MCContentCrawl ---------------------------
(* Instances of ContentCrawl for TLC. *)
EXTENDS ContentCrawl, TLC

CONSTANTS first, second, i1, i2, worker, admin

MCMaxAttempts == [k \in Key |-> IF k = first THEN 2 ELSE 1]
MCSymmetry == Permutations(Producer)
=============================================================================
