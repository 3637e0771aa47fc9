-------------------------- MODULE MCUniverseImport --------------------------
(* An instance of UniverseImport: the seeds and a revision name a primary listing each, and another
   revision lists the one of the seeds as secondary. *)
EXTENDS UniverseImport

MCRowsOf ==
    [d \in Document |->
        {[company |-> "a", id |-> 1, homepage |-> "none",
          listings |-> IF d = "first" THEN {"l", "m"} ELSE {"l"},
          primary |-> IF d = "first" THEN "m" ELSE "none"]}]
=============================================================================
