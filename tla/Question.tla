------------------------------- MODULE Question -------------------------------
(***************************************************************************)
(* The state of the query pipeline, a question's part of it and the        *)
(* tenant's, and what its answer promises to the client, to the query log  *)
(* and to the bill.  QueryPipeline has the steps.                          *)
(***************************************************************************)
EXTENDS Naturals, Sequences, FiniteSets, SequencesExt

CONSTANTS
  Requests,
  Hits,         \* the vector list and the text list a search may find
  Relevance,    \* scores a reranker may give
  TopKs,        \* top_k of a request, 0 when unset
  MaxTopK,      \* the ceiling of top_k
  FinalK, TopN, \* settings.retrieval.final_k, settings.reranker.top_n
  MinScore,     \* settings.retrieval.min_score, or DefaultMinScore
  Budget,       \* context blocks that fit settings.answering.token_budget
  MaxRetries,   \* Config.MaxRetries of a provider
  Threshold,    \* Config.BreakerThreshold
  MaxPatches    \* bound on settings patches, suspensions and resumptions

ASSUME QueryAssumption ==
  /\ IsFiniteSet(Requests) /\ TopKs \subseteq Nat /\ MaxTopK \in Nat \ {0}
  /\ FinalK \in Nat \ {0} /\ TopN \in Nat \ {0}
  /\ \A h \in Hits : h.vec \in Seq(ToSet(h.vec)) /\ h.txt \in Seq(ToSet(h.txt))
  /\ Relevance \subseteq Nat /\ MinScore \in Nat /\ Budget \in Nat /\ MaxRetries \in Nat /\ Threshold \in Nat \ {0}
  /\ MaxPatches \in Nat

VARIABLES
  reranker,  \* settings.reranker.enabled
  status,    \* of the tenant: "active", "suspended", "gone"
  changes,
  query,     \* per request
  entry,     \* query_log: per request "none", "pending" (the goroutine runs), "stored", "lost"
  rating,    \* query_feedback
  up         \* the serving process

-----------------------------------------------------------------------------
(* Promises.                                                               *)

\* A citation number leads the client, the query log and feedback to the same chunk: every
\* [n] the answer holds and cites is the n-th block of the prompt, what is logged is what was
\* cited, and each cited chunk was retrieved for this request and passed the floor in force
\* (answer.go mapCitations, candidateCitations, logQuery; service.go reorderByScore).
CitationsResolve ==
  \A r \in Requests :
    LET q == query[r]
    IN  /\ \A x \in q.cites :
             /\ x.n \in 1..Len(q.context) /\ q.context[x.n].c = x.c
             /\ q.context[x.n] \in ToSet(q.results)
             /\ (q.reranked => q.context[x.n].score >= MinScore)
        /\ q.out = "answered" /\ q.mode = "json" => {x.n : x \in q.cites} = q.marks \cap 1..Len(q.context)
        /\ q.out \in {"answered", "degraded", "interrupted"} => q.logged = {x.c : x \in q.cites}

\* A question costs the tenant one query and its tokens at most once, whatever the retries, the
\* fallbacks and the mode.  Only a generation costs tokens: an answer's always in JSON, and in
\* SSE those the stream's last event brought, though the stream may break after it.  A refusal,
\* a degraded answer, an error and a client that left cost none (query.go recordQuery,
\* QueryStream; answer.go Answer, RecordStreamed).
CountedOnce ==
  \A r \in Requests :
    /\ query[r].counted <= 1 /\ query[r].billed <= query[r].counted
    /\ query[r].counted = 1 <=> query[r].out \in {"answered", "refused", "degraded", "interrupted"}
    /\ query[r].billed = 1 =>
         query[r].out = "answered" \/ (query[r].out = "interrupted" /\ query[r].mode = "sse")
    /\ query[r].out = "answered" /\ query[r].mode = "json" => query[r].billed = 1
===============================================================================
