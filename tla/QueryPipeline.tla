----------------------------- MODULE QueryPipeline -----------------------------
(***************************************************************************)
(* One /v1/query or /v1/retrieve from its settings to its log row:         *)
(* internal/query (JSON and SSE modes, rewrite, HyDE), internal/retrieve   *)
(* (hybrid search and fusion), internal/rerank, internal/answer (grounding *)
(* floor, budget, citations), internal/llm (retries and breaker) and       *)
(* internal/querylog (asynchronous log, feedback).                         *)
(*                                                                         *)
(* Every request builds its providers anew, so a circuit breaker lives as  *)
(* long as one call with its retries.  Scores are per mille: a single-list *)
(* RRF hit is 1000 \div 61 = 16.                                           *)
(***************************************************************************)
EXTENDS Question

vars == <<reranker, status, changes, query, entry, rating, up>>

Modes == {"json", "sse", "retrieve"}
CallStages == {"rewrite", "hyde", "rerank", "generate"}
Stages == CallStages \cup {"new", "search", "hybrid", "cut", "prepare", "stream", "end"}
\* What the client is left with.
Outcomes == {"none", "chunks", "answered", "refused", "degraded", "interrupted", "error", "left"}
NoCall == [tries |-> 0, fails |-> 0, result |-> "none"]
New == [at |-> "new", mode |-> "json", k |-> 0, reranked |-> FALSE, rr |-> "none", results |-> <<>>, context |-> <<>>,
        call |-> NoCall, cites |-> {}, marks |-> {}, logged |-> {}, out |-> "none", counted |-> 0,
        billed |-> 0]

\* The scored candidates: rel tells a reranker's score from the fused one.
IsResults(s) == \A i \in 1..Len(s) : s[i].score \in Nat /\ s[i].rel \in BOOLEAN
TypeOK ==
  /\ reranker \in BOOLEAN /\ up \in BOOLEAN
  /\ status \in {"active", "suspended", "gone"} /\ changes \in 0..MaxPatches
  /\ \A r \in Requests :
       /\ query[r].at \in Stages /\ query[r].mode \in Modes /\ query[r].out \in Outcomes
       /\ IsResults(query[r].results)
       /\ Len(query[r].context) <= MaxTopK
       /\ query[r].call.tries <= MaxRetries
       /\ entry[r] \in {"none", "pending", "stored", "lost"}
       /\ rating[r] \in {0, 1, 2} /\ (rating[r] # 0 => entry[r] = "stored")

Init ==
  /\ reranker \in BOOLEAN /\ status = "active" /\ changes = 0
  /\ query = [r \in Requests |-> New]
  /\ entry = [r \in Requests |-> "none"] /\ rating = [r \in Requests |-> 0]
  /\ up = TRUE

At(r, stage) == up /\ query[r].at = stage
Env_ == <<reranker, status, changes, up>>
Log_ == <<entry, rating>>

-----------------------------------------------------------------------------
(* The tenant changes while requests run.                                  *)

Change == changes < MaxPatches /\ changes' = changes + 1
PatchSettings ==
  /\ Change /\ reranker' = ~reranker
  /\ UNCHANGED <<status, query, entry, rating, up>>
SetStatus(to) ==
  /\ Change /\ status # to /\ status' = to
  /\ UNCHANGED <<reranker, query, entry, rating, up>>

-----------------------------------------------------------------------------
(* A provider call: retryValue and doer.do, with the breaker of the        *)
(* instance just built.                                                    *)

Called(r) == query[r].call.result # "none"
\* Complete and Stream of an llm.Provider, as against the Cohere client's doer.
ByCohere(r) == query[r].at = "rerank" /\ query[r].rr = "cohere"
Calling(r) == up /\ query[r].at \in CallStages /\ ~Called(r) /\ ~ByCohere(r)
\* breaker.record: nothing but this call's own failures reaches the instance.
Tripped(c) == c.fails >= Threshold

\* Variant for mutation: a transient failure is retried without being counted.
AttemptFailsForever(r) ==
  /\ Calling(r) /\ ~Tripped(query[r].call)
  /\ query' = [query EXCEPT ![r].call.tries = IF @ = 0 THEN 1 ELSE 0]
  /\ UNCHANGED <<Env_, Log_>>

\* 429, 5xx, transport: retried until the attempts are spent.
AttemptFails(r) ==
  /\ Calling(r) /\ ~Tripped(query[r].call)
  /\ query' = [query EXCEPT ![r].call =
       [tries |-> IF @.tries < MaxRetries THEN @.tries + 1 ELSE @.tries,
        fails |-> @.fails + 1,
        result |-> IF @.tries < MaxRetries THEN "none" ELSE "failed"]]
  /\ UNCHANGED <<Env_, Log_>>

\* breaker.allow on the next attempt: ErrCircuitOpen.
AttemptRefused(r) ==
  /\ Calling(r) /\ Tripped(query[r].call)
  /\ query' = [query EXCEPT ![r].call.result = "open"]
  /\ UNCHANGED <<Env_, Log_>>

\* The provider cannot be built: allowlists, unknown provider or model.
ProviderRefused(r) ==
  /\ Calling(r) /\ query[r].call = NoCall
  /\ query' = [query EXCEPT ![r].call.result = "failed"]
  /\ UNCHANGED <<Env_, Log_>>

\* A completion, an open stream, or a terminal answer of the provider.
AttemptEnds(r, result) ==
  /\ Calling(r) /\ ~Tripped(query[r].call)
  /\ query' = [query EXCEPT ![r].call.result = result]
  /\ UNCHANGED <<Env_, Log_>>

\* doer.do: the same retries; the breaker is asked once, before the first attempt, and an
\* instance that was just built is closed.
DoerFails(r) ==
  /\ up /\ ByCohere(r) /\ ~Called(r)
  /\ query' = [query EXCEPT ![r].call.tries = IF @ < MaxRetries THEN @ + 1 ELSE @,
                        ![r].call.result = IF query[r].call.tries < MaxRetries THEN "none" ELSE "failed"]
  /\ UNCHANGED <<Env_, Log_>>
DoerEnds(r, result) ==
  /\ up /\ ByCohere(r) /\ ~Called(r)
  /\ query' = [query EXCEPT ![r].call.result = result]
  /\ UNCHANGED <<Env_, Log_>>

-----------------------------------------------------------------------------
(* Service.build.                                                          *)

Goes(r, stage) == query' = [query EXCEPT ![r].at = stage, ![r].call = NoCall]

\* The request ends with what the client is left with.
Ends(r, out) == query' = [query EXCEPT ![r].at = "end", ![r].out = out, ![r].call = NoCall]

\* parseAnswerSettings: the floor is in force when the document enables a reranker.
Reranked == reranker
\* finalK: the request's top_k, else the tenant's, under the ceiling.
FinalKOf(k) ==
  LET asked == IF k = 0 THEN FinalK ELSE k IN IF asked > MaxTopK THEN MaxTopK ELSE asked

\* /v1/query: the settings are read; a follow-up is rewritten and expanded where the
\* settings ask for it.
QueryBegins(r, mode, stage, k) ==
  /\ At(r, "new") /\ mode # "retrieve" /\ stage \in {"rewrite", "hyde", "search"}
  /\ query' = [query EXCEPT ![r].at = stage, ![r].mode = mode, ![r].reranked = Reranked,
                        ![r].k = FinalKOf(k)]
  /\ UNCHANGED <<Env_, Log_>>

\* /v1/retrieve: Search alone.
RetrieveBegins(r, k) ==
  /\ At(r, "new")
  /\ query' = [query EXCEPT ![r].at = "search", ![r].mode = "retrieve", ![r].k = FinalKOf(k)]
  /\ UNCHANGED <<Env_, Log_>>

\* The settings cannot be read, or the body is refused.
BeginFails(r) ==
  /\ At(r, "new") /\ Ends(r, "error")
  /\ UNCHANGED <<Env_, Log_>>

\* Whatever the call returned, the pipeline goes on: with the original question on failure.
RewriteReturns(r, stage) ==
  /\ At(r, "rewrite") /\ Called(r) /\ stage \in {"hyde", "search"}
  /\ Goes(r, stage)
  /\ UNCHANGED <<Env_, Log_>>
HydeReturns(r) ==
  /\ At(r, "hyde") /\ Called(r)
  /\ Goes(r, "search")
  /\ UNCHANGED <<Env_, Log_>>

-----------------------------------------------------------------------------
(* Service.Search.                                                         *)

\* parseSettings, of the document as it is now.
RerankEnabled == reranker
\* The tenant is resolved, the settings read again and the query embedded; a reranker that
\* cannot be built is left out.
SearchOpens(r, built) ==
  /\ At(r, "search") /\ status # "gone" /\ (~RerankEnabled => built = "none")
  /\ query' = [query EXCEPT ![r].at = "hybrid", ![r].rr = built]
  /\ UNCHANGED <<Env_, Log_>>

\* An empty query, an unavailable tenant, an embedding that fails.
SearchFails(r) ==
  /\ At(r, "search") /\ Ends(r, "error")
  /\ UNCHANGED <<Env_, Log_>>

\* hybridSQL: sum(1/(60+r)) over the lists a chunk is in, highest first; equal sums come in
\* any order.
RRFScore(c, h) ==
  LET In(list) == {i \in 1..Len(list) : list[i] = c}
      Part(list) == IF In(list) = {} THEN 0 ELSE 1000 \div (60 + CHOOSE i \in In(list) : TRUE)
  IN  Part(h.vec) + Part(h.txt)
Fusions(h) ==
  LET found == {[c |-> c, score |-> RRFScore(c, h), rel |-> FALSE] : c \in ToSet(h.vec) \cup ToSet(h.txt)}
  IN  {s \in SetToSeqs(found) : \A i \in 2..Len(s) : s[i].score <= s[i - 1].score}
First(s, n) == SubSeq(s, 1, IF Len(s) < n THEN Len(s) ELSE n)

\* Retrieve with K = max(top_k, top_n) when there is a reranker, else top_k.
Hybrid(r, h) ==
  /\ At(r, "hybrid")
  /\ LET rr == query[r].rr # "none"
         k  == IF rr /\ TopN > query[r].k THEN TopN ELSE query[r].k
     IN  \E s \in Fusions(h) :
           LET found == First(s, k)
           IN  query' = [query EXCEPT ![r].results = found,
                                  ![r].at = IF rr /\ found # <<>> THEN "rerank" ELSE "cut"]
  /\ UNCHANGED <<Env_, Log_>>

\* What a reranker returns of n passages: some of them, in its order, with its scores
\* (Cohere's come sorted by score, stably).
Rankings(n) ==
  {k \in UNION {[1..m -> [i: 1..n, score: Relevance]] : m \in 1..n} :
     \A i, j \in DOMAIN k : k[i].i = k[j].i => i = j}

\* ensureDescending: scores of an LLM that do not descend are replaced by positions.
EnsureDescending(k) ==
  IF \A i \in 2..Len(k) : k[i].score < k[i - 1].score
  THEN k
  ELSE [i \in 1..Len(k) |-> [k[i] EXCEPT !.score = (1000 * (Len(k) + 1 - i)) \div Len(k)]]

\* The indexes in S, from the lowest up.
Ascending(S) == [n \in 1..Cardinality(S) |-> CHOOSE i \in S : Cardinality(S \cap 1..i) = n]

\* orderMissingLast: passages left out come last, as they were, with score 0.
OrderMissingLast(k, n) ==
  LET missing == Ascending({j \in 1..n : \A x \in DOMAIN k : k[x].i # j})
  IN  k \o [x \in 1..Len(missing) |-> [i |-> missing[x], score |-> 0]]

\* reorderByScore: the head in the reranker's order with its scores, the tail as fused.
ReorderByScore(s, k) ==
  [x \in 1..Len(k) |-> [c |-> s[k[x].i].c, score |-> k[x].score, rel |-> TRUE]]
    \o SubSeq(s, Len(k) + 1, Len(s))

RerankReturns(r) ==
  /\ At(r, "rerank") /\ query[r].call.result = "ok"
  /\ LET n == IF TopN < Len(query[r].results) THEN TopN ELSE Len(query[r].results)
     IN  \E k \in Rankings(n) :
           LET ranked == IF query[r].rr = "llm" THEN EnsureDescending(k) ELSE k
           IN  /\ query[r].rr = "cohere" => \A i \in 2..Len(k) : k[i].score <= k[i - 1].score
               /\ query' = [query EXCEPT ![r].results = ReorderByScore(query[r].results, OrderMissingLast(ranked, n)),
                                     ![r].at = "cut", ![r].call = NoCall]
  /\ UNCHANGED <<Env_, Log_>>

\* applyRerank: any failure keeps the fused order and its scores.
RerankFallsBack(r) ==
  /\ At(r, "rerank") /\ query[r].call.result \in {"failed", "open"}
  /\ Goes(r, "cut")
  /\ UNCHANGED <<Env_, Log_>>

SearchReturns(r) ==
  /\ At(r, "cut")
  /\ query' = [query EXCEPT ![r].results = First(@, query[r].k),
                        ![r].at = IF query[r].mode = "retrieve" THEN "end" ELSE "prepare",
                        ![r].out = IF query[r].mode = "retrieve" THEN "chunks" ELSE "none"]
  /\ UNCHANGED <<Env_, Log_>>

-----------------------------------------------------------------------------
(* Service.Prepare and its two users.                                      *)

\* minScore: the floor holds when the settings build read say that a reranker is enabled.
PassFloor(r) ==
  LET floor == IF query[r].reranked THEN MinScore ELSE 0
      kept  == Ascending({i \in 1..Len(query[r].results) : query[r].results[i].score >= floor})
  IN  [n \in 1..Len(kept) |-> query[r].results[kept[n]]]
WithinBudget(s) == First(s, IF Budget = 0 THEN 1 ELSE Budget)

Candidates(s) == {[n |-> i, c |-> s[i].c] : i \in 1..Len(s)}
\* Variant for mutation: the citations that remain are numbered from 1.
MapCitationsRenumbered(s, marks) ==
  LET used == SetToSortSeq(marks \cap 1..Len(s), <) IN {[n |-> i, c |-> s[used[i]].c] : i \in 1..Len(used)}
MapCitations(s, marks) == {[n |-> i, c |-> s[i].c] : i \in marks \cap 1..Len(s)}

\* logQuery: citation numbers looked up in the context the prompt was built from.
CitedChunks(cites, context) == {context[x.n].c : x \in {y \in cites : y.n <= Len(context)}}

\* The response of a request, the record the logger's goroutine starts with, one Queries
\* count and, when tokens were used, one fold of them.
Responds(r, out, cites, marks, billed) ==
  query' = [query EXCEPT ![r].at = "end", ![r].out = out, ![r].cites = cites, ![r].marks = marks,
                     ![r].counted = @ + 1, ![r].billed = @ + billed, ![r].call = NoCall,
                     ![r].logged = CitedChunks(cites, query[r].context)]
Logs(r) == entry' = [entry EXCEPT ![r] = "pending"] /\ UNCHANGED rating

\* Variant for mutation: a refusal is answered and not logged.
RefuseUnlogged(r) ==
  /\ At(r, "prepare") /\ PassFloor(r) = <<>>
  /\ Responds(r, "refused", {}, {}, 0)
  /\ UNCHANGED <<Env_, Log_>>

\* Nothing passed the floor: the fixed refusal, no provider.
Refuse(r) ==
  /\ At(r, "prepare") /\ PassFloor(r) = <<>>
  /\ Responds(r, "refused", {}, {}, 0) /\ Logs(r)
  /\ UNCHANGED Env_

\* Grounded: the context is numbered; SSE sends the candidate citations first.
Prepare(r) ==
  /\ At(r, "prepare") /\ PassFloor(r) # <<>>
  /\ LET context == WithinBudget(PassFloor(r))
     IN  query' = [query EXCEPT ![r].at = "generate", ![r].context = context,
                            ![r].cites = IF query[r].mode = "sse" THEN Candidates(context) ELSE {}]
  /\ UNCHANGED <<Env_, Log_>>

\* Answer: the completion, with markers in and out of range.
AnswerReturns(r, marks) ==
  /\ At(r, "generate") /\ query[r].mode = "json" /\ query[r].call.result = "ok"
  /\ Responds(r, "answered", MapCitations(query[r].context, marks), marks, 1) /\ Logs(r)
  /\ UNCHANGED Env_

\* degradedResult: all candidates as sources; counted, not logged.
AnswerDegrades(r) ==
  /\ At(r, "generate") /\ query[r].mode = "json" /\ query[r].call.result = "open"
  /\ Responds(r, "degraded", Candidates(query[r].context), {}, 0)
  /\ UNCHANGED <<Env_, Log_>>

\* Any other failure is the client's error, in both modes.
GenerateFails(r) ==
  /\ At(r, "generate") /\ query[r].call.result = "failed"
  /\ Ends(r, "error")
  /\ UNCHANGED <<Env_, Log_>>

StreamOpens(r) ==
  /\ At(r, "generate") /\ query[r].mode = "sse" /\ query[r].call.result = "ok"
  /\ Goes(r, "stream")
  /\ UNCHANGED <<Env_, Log_>>
StreamDegrades(r) ==
  /\ At(r, "generate") /\ query[r].mode = "sse" /\ query[r].call.result = "open"
  /\ Responds(r, "degraded", query[r].cites, {}, 0) /\ Logs(r)
  /\ UNCHANGED Env_
\* The stream drains: done, with the usage of its last event, or none when the connection
\* closed before that event.
StreamDrains(r, billed) ==
  /\ At(r, "stream")
  /\ Responds(r, "answered", query[r].cites, {}, billed) /\ Logs(r)
  /\ UNCHANGED Env_
\* Recv fails: an error event, then done, counted and logged, without tokens unless the event
\* that brings the usage had come before.
StreamInterrupted(r, billed) ==
  /\ At(r, "stream")
  /\ Responds(r, "interrupted", query[r].cites, {}, billed) /\ Logs(r)
  /\ UNCHANGED Env_
\* Variant for mutation: accounting runs when the handler returns, whoever is listening.
ClientLeavesCounted(r) ==
  /\ At(r, "stream") /\ Responds(r, "left", query[r].cites, {}, 0) /\ Logs(r)
  /\ UNCHANGED Env_
\* The client is gone at the next delta: nothing is counted, billed or logged.
ClientLeaves(r) ==
  /\ At(r, "stream") /\ Ends(r, "left")
  /\ UNCHANGED <<Env_, Log_>>

-----------------------------------------------------------------------------
(* The query log.                                                          *)

\* Logger.Log's goroutine: its own handle, its own 5 s.
InsertLog(r) ==
  /\ up /\ entry[r] = "pending" /\ status = "active"
  /\ entry' = [entry EXCEPT ![r] = "stored"]
  /\ UNCHANGED <<Env_, query, rating>>
\* The tenant is read-only or gone, the write times out or panics.
InsertLost(r) ==
  /\ up /\ entry[r] = "pending"
  /\ entry' = [entry EXCEPT ![r] = "lost"]
  /\ UNCHANGED <<Env_, query, rating>>
\* UpsertFeedback: the row must be there; the last rating wins.
Feedback(r, x) ==
  /\ up /\ entry[r] = "stored" /\ status = "active" /\ rating[r] # x
  /\ rating' = [rating EXCEPT ![r] = x]
  /\ UNCHANGED <<Env_, query, entry>>
\* The process exits: Server.Shutdown waits ten seconds for the handlers, whatever they are at
\* then, and nothing calls Logger.Wait for the goroutines.
Shutdown ==
  /\ up /\ up' = FALSE
  /\ entry' = [r \in Requests |-> IF entry[r] = "pending" THEN "lost" ELSE entry[r]]
  /\ UNCHANGED <<reranker, status, changes, query, rating>>

-----------------------------------------------------------------------------
\* The chat provider or the reranker answers an attempt, or the connection fails.
CallAnswered(r) ==
  \/ AttemptFails(r) \/ DoerFails(r)
  \/ \E x \in {"ok", "failed"} : AttemptEnds(r, x) \/ DoerEnds(r, x)
Attempt(r) == AttemptRefused(r) \/ ProviderRefused(r) \/ CallAnswered(r)
Begin(r) ==
  \/ \E k \in TopKs : RetrieveBegins(r, k) \/ \E mode \in Modes, stage \in Stages : QueryBegins(r, mode, stage, k)
  \/ BeginFails(r)
Retrieving(r) ==
  \/ \E stage \in Stages : RewriteReturns(r, stage)
  \/ HydeReturns(r) \/ (\E built \in {"none", "cohere", "llm"} : SearchOpens(r, built)) \/ SearchFails(r)
  \/ (\E h \in Hits : Hybrid(r, h)) \/ RerankReturns(r) \/ RerankFallsBack(r) \/ SearchReturns(r)
Responding(r) ==
  \/ Refuse(r) \/ Prepare(r) \/ (\E marks \in SUBSET {1, 2, 3} : AnswerReturns(r, marks))
  \/ AnswerDegrades(r) \/ GenerateFails(r) \/ StreamOpens(r) \/ StreamDegrades(r)
StreamEnds(r) == \E billed \in {0, 1} : StreamDrains(r, billed) \/ StreamInterrupted(r, billed)
Answering(r) == Responding(r) \/ StreamEnds(r) \/ ClientLeaves(r)
Step(r) == Attempt(r) \/ Retrieving(r) \/ Answering(r)

Next ==
  \/ PatchSettings \/ Shutdown
  \/ \E to \in {"active", "suspended", "gone"} : SetStatus(to)
  \/ \E r \in Requests : Begin(r) \/ Step(r) \/ InsertLog(r) \/ InsertLost(r)
                         \/ \E x \in {1, 2} : Feedback(r, x)

Spec == Init /\ [][Next]_vars

\* What a handler does without a chat provider or a reranker: its own steps, the database's
\* answers and the embedding, whose client has a timeout.
Proceeds(r) == AttemptRefused(r) \/ Retrieving(r) \/ Responding(r)
\* What it waits for with no timeout of its own: llm.Config and rerank.Config build an
\* http.Client without one, and the handlers pass the request's context on, which has no
\* deadline.
ProviderAnswers(r) == CallAnswered(r) \/ StreamEnds(r)

\* Handlers run and the log's goroutines end within their timeout.  No provider owes an answer.
FairSpec ==
  /\ Spec
  /\ \A r \in Requests : WF_vars(Proceeds(r)) /\ WF_vars(InsertLog(r) \/ InsertLost(r))

-----------------------------------------------------------------------------
(* Properties.                                                             *)

\* A request that begins ends, unless the process exits or a provider leaves one of its calls
\* or its stream unanswered for ever: providers may fail every attempt, and the tenant may be
\* suspended or deleted meanwhile (llm.go retryValue, retry.go doer.do: bounded attempts;
\* every fallback goes on).  Nothing in the code ends a call that hangs.
RequestsEnd ==
  \A r \in Requests :
    WF_vars(ProviderAnswers(r)) => (query[r].at # "new" ~> query[r].at = "end" \/ ~up)

\* Every response that shows an ID to rate, but the degraded JSON one, reaches the log's
\* insert: it is stored or its write has failed (answer.go logQuery: called on every Answer,
\* refusal included; querylog.go Log).
AnswersReachTheLog ==
  \A r \in Requests :
    query[r].out \in {"answered", "refused", "interrupted"} ~> entry[r] \in {"stored", "lost"}
=============================================================================
