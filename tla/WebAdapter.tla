----------------------------- MODULE WebAdapter -----------------------------
(***************************************************************************)
(* What a request to a web adapter comes to                                *)
(* (crates/feed-web-adapter/src/lib.rs): an answer that the caller may     *)
(* trust the shape of, or an error that the job is retried for or given up *)
(* for.  The adapter is a service of its own, so any reply is possible.    *)
(* The clients for discovery and for extraction differ in what they take   *)
(* for an answer.                                                          *)
(***************************************************************************)
EXTENDS Naturals, Sequences, FiniteSets

CONSTANT
    MaxSuggestions   \* the request's limit on suggestions and the client's, whichever is smaller

ASSUME AdapterAssumption == MaxSuggestions \in Nat

Client == {"discover", "extract_news"}

\* A URL by what the checks tell apart; the last one is foreign, hostless, of a reserved host or
\* carries credentials.
AdapterUrl == {"page", "other page", "site root", "search results", "misshapen"}
HasUrlShape(u) == u # "misshapen"
IsArticleUrl(u) == HasUrlShape(u) /\ u \notin {"site root", "search results"}

\* of: the role of a candidate, or the list that a suggestion is in.  All roles are asked for.
SuggestionKind(client) ==
    IF client = "discover" THEN {"newsroom", "blog"} ELSE {"publication", "article"}
\* ranked: the score is a number from 0 to 1.
Suggestion(client) == [of : SuggestionKind(client), url : AdapterUrl, ranked : BOOLEAN]

\* Candidates count together, publications and articles each on their own.
WithinLimit(client, s) ==
    IF client = "discover" THEN Len(s) <= MaxSuggestions
    ELSE \A kind \in SuggestionKind(client) :
            Cardinality({i \in DOMAIN s : s[i].of = kind}) <= MaxSuggestions

\* validate_response, validate_news_extraction_response
IsAnswer(client, s) ==
    /\ WithinLimit(client, s)
    /\ \A i \in DOMAIN s :
          /\ IF s[i].of = "article" THEN IsArticleUrl(s[i].url) ELSE HasUrlShape(s[i].url)
          /\ s[i].ranked
          /\ \A k \in DOMAIN s : <<s[i].of, s[i].url>> = <<s[k].of, s[k].url>> => i = k

\* head: what became of the request up to the status.  body: of reading it within the limit.
\* ours: it is of the schema and names the request's id.
ReplyHead ==
    {"unreachable", "timed out", "success", "too many requests", "server error", "other status"}
ReplyBody == {"complete", "undecodable", "broken off", "timed out", "too long"}
AdapterReply(client) ==
    [head : ReplyHead, body : ReplyBody, ours : BOOLEAN,
     suggestions : UNION {[1..n -> Suggestion(client)] : n \in 0..MaxSuggestions + 1}]

\* is_retryable: a reply that breaks off is an error of the transport as well, but none of those
\* that are retried.  The body is read before the status is looked at.
IsTransient(reply) ==
    \/ reply.head \in {"unreachable", "timed out"}
    \/ reply.body = "timed out"
    \/ /\ reply.head \in {"too many requests", "server error"}
       /\ reply.body \in {"complete", "undecodable"}

\* extract_news, discover
RefusalOf(client, reply) ==
    IF IsTransient(reply) THEN "transient"
    ELSE IF /\ reply.head = "success" /\ reply.body = "complete" /\ reply.ours
            /\ IsAnswer(client, reply.suggestions) THEN "none"
    ELSE "permanent"

\* A request that is no valid one is not sent.
Outcomes(client) ==
    {"permanent"} \cup {RefusalOf(client, reply) : reply \in AdapterReply(client)}
=============================================================================
