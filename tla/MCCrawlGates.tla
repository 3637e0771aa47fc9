---------------------------- MODULE MCCrawlGates ----------------------------
(* An instance of CrawlGates: an inferred publication that brings five articles, of which two name
   its company and one of these is another issuer's. *)
EXTENDS CrawlGates, TLC

MCRow(kind, company, names, against) ==
    [kind |-> kind, company |-> company, issuer |-> company, publication |-> company,
     rank |-> company, excluded |-> FALSE, scopeRequired |-> TRUE, mentions |-> names,
     scoped |-> against, repeats |-> {}]
MCRegistries ==
    {[o \in Outlet |-> IF o = "o1" THEN MCRow("recipe", 1, {"t1", "t2"}, {})
                       ELSE MCRow("feed", 2, {"t1"}, {<<"t1", "o1">>})]}
MCFetches ==
    {[s \in Story |-> "kept"], [s \in Story |-> IF s = "t1" THEN "kept" ELSE "unseen"]}
=============================================================================
