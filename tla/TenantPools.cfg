\* Two tenants, one of them edited, two processes, two requests, room for one pool.
SPECIFICATION FairSpec
CONSTANTS
  Tenants = {t1, t2}
  Edited = {t1}
  Procs = {api, worker}
  Server = api
  Requests = {r1, r2}
  MaxPools = 1
  MaxChanges = 1
INVARIANTS NoPoolLeaks SecretsOpen
PROPERTY WritesStop
