-------------------------- MODULE MCNewsExtraction --------------------------
(* An instance of NewsExtraction: one job with two attempts. *)
EXTENDS NewsExtraction

MCMaxAttempts == [k \in Key |-> 2]
=============================================================================
