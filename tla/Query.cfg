\* One request (requests share nothing but the tenant's row and settings); the floor lies
\* between a single-list and a double-list RRF score, final_k beyond the ceiling.
SPECIFICATION FairSpec
CONSTANTS
  Requests = {r1}
  Hits <- SomeHits
  Relevance = {0, 5, 900}
  TopKs = {0, 1}
  MaxTopK = 3
  FinalK = 4
  TopN = 2
  MinScore = 20
  Budget = 2
  MaxRetries = 2
  Threshold = 2
  MaxPatches = 2
INVARIANTS CitationsResolve CountedOnce
PROPERTIES RequestsEnd AnswersReachTheLog
CHECK_DEADLOCK FALSE
