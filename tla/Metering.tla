------------------------------- MODULE Metering -------------------------------
(***************************************************************************)
(* What every tenant-scoped request passes and leaves behind in one API    *)
(* process: the token buckets of internal/cp/ratelimit and the usage       *)
(* counter of internal/cp/usage, with the process's shutdown.              *)
(*                                                                         *)
(* One tenant, its API keys, and requests that carry a session instead.    *)
(* Requests run in parallel.  Allow looks its bucket up under the map's    *)
(* mutex and charges it under the bucket's own, so a bucket may be evicted *)
(* between the two: bucket[n][g] is the g-th bucket made for the name n.   *)
(***************************************************************************)
EXTENDS Integers, FiniteSets, FiniteSetsExt

CONSTANTS
  Keys,         \* API keys of the tenant
  Threads,      \* requests in flight at once
  Qps,          \* limits.qps values (whole tokens of one tick)
  DefaultQps,   \* defaultQPS
  KeyBurst, TenantBurst,  \* Middleware.Burst, TenantBurst
  IdleTTL,      \* idleTTL in ticks
  DayLength,    \* ticks of a UTC day
  MaxTime, MaxBuckets, MaxRequests, MaxStops, MaxChanges, MaxFaults  \* bounds

Tenant == "tenant"
Session == "session"
Names == Keys \cup {Tenant}
Rates == Qps \cup {DefaultQps}
BurstFactor(n) == IF n = Tenant THEN TenantBurst ELSE KeyBurst

ASSUME MeteringAssumption ==
  /\ Keys \cap {Tenant, Session} = {}
  /\ Rates \subseteq Nat \ {0} /\ KeyBurst \in Nat \ {0} /\ TenantBurst \in Nat \ {0}
  /\ DayLength \in Nat \ {0} /\ MaxTime \in Nat /\ MaxBuckets \in Nat /\ MaxStops \in Nat
  /\ MaxRequests \in Nat /\ MaxChanges \in Nat /\ MaxFaults \in Nat
  \* "Kept comfortably longer than any refill window."
  /\ IdleTTL \in Nat /\ IdleTTL >= KeyBurst /\ IdleTTL >= TenantBurst

VARIABLES
  now,
  setting,   \* what reading settings.limits.qps gives
  bucket,    \* [tokens, last, primed] of every bucket made
  made,      \* buckets made for a name
  held,      \* names in Limiter.buckets
  req,       \* requests in flight
  served,    \* requests started
  buffer,    \* Counter.buckets: counts of a day
  drained,   \* Flush's local map
  flushing,
  rows,      \* usage_daily
  process,   \* "up", "stopping" (signal received), "drained" (Run returned), "exited"
  spent,     \* against the bounds: stops, setting changes, failed upserts
  hist       \* of this process, admissions of each name before each tick, those from evicted
             \* buckets and the highest rate; counts added, counted twice and lost with the process

limiter == <<bucket, made, held>>
usage == <<buffer, drained, flushing, rows>>
vars == <<now, setting, limiter, req, served, usage, process, spent, hist>>

Days == 0..(MaxTime \div DayLength)
\* A rate, none, or one that resolves to 0: a fraction, a store error.
Settings == [kind: {"rate"}, qps: Qps] \cup [kind: {"missing", "unusable"}, qps: {0}]
Fresh == [tokens |-> 0, last |-> 0, primed |-> FALSE]
Idle == [at |-> "idle", key |-> Session, gen |-> 0, rate |-> 0]
NoCounts == [d \in Days |-> 0]
Moments == 0..(MaxTime + 1)
NoAdmissions == [n \in Names |-> [t \in Moments |-> 0]]
Counts == [Days -> Nat]
Request == [at: {"idle", "tenant", "key", "serve"}, key: Keys \cup {Session}, gen: 0..MaxBuckets, rate: Nat]

TypeOK ==
  /\ now \in 0..MaxTime /\ setting \in Settings
  /\ made \in [Names -> 0..MaxBuckets] /\ held \subseteq {n \in Names : made[n] > 0}
  /\ bucket \in [Names -> [1..MaxBuckets -> [tokens: Nat, last: 0..MaxTime, primed: BOOLEAN]]]
  /\ req \in [Threads -> Request] /\ served \in 0..MaxRequests
  /\ buffer \in Counts /\ drained \in Counts /\ rows \in Counts /\ flushing \in BOOLEAN
  /\ process \in {"up", "stopping", "drained", "exited"}
  /\ spent \in [stops: 0..MaxStops, changes: 0..MaxChanges, faults: 0..MaxFaults]
  /\ hist \in [adm: [Names -> [Moments -> Nat]], orphan: [Names -> Nat], top: Nat,
               added: Counts, twice: Counts, lost: Counts]

Init ==
  /\ now = 0 /\ setting \in [kind: {"rate"}, qps: Qps]
  /\ bucket = [n \in Names |-> [g \in 1..MaxBuckets |-> Fresh]]
  /\ made = [n \in Names |-> 0] /\ held = {}
  /\ req = [i \in Threads |-> Idle] /\ served = 0
  /\ buffer = NoCounts /\ drained = NoCounts /\ flushing = FALSE /\ rows = NoCounts
  /\ process = "up" /\ spent = [stops |-> 0, changes |-> 0, faults |-> 0]
  /\ hist = [adm |-> NoAdmissions, orphan |-> [n \in Names |-> 0], top |-> 0,
             added |-> NoCounts, twice |-> NoCounts, lost |-> NoCounts]

-----------------------------------------------------------------------------
(* The limiter.                                                            *)

\* qpsFromDoc truncates a fraction to 0; LimitFromSettings falls back only when there is none.
Limit == IF setting.kind = "missing" THEN DefaultQps ELSE setting.qps

\* Limiter.Allow finds or makes the bucket of a name: the newest one made.
Allow(n) ==
  /\ n \in held \/ made[n] < MaxBuckets
  /\ made' = [made EXCEPT ![n] = IF n \in held THEN @ ELSE @ + 1]
  /\ held' = held \cup {n}

\* Handler resolves the ceiling, and an error or 0 refuses; else it asks for the tenant's bucket.
RequestArrives(i, key) ==
  /\ process = "up" /\ req[i] = Idle /\ served < MaxRequests
  /\ served' = served + 1
  /\ IF Limit <= 0
     THEN UNCHANGED <<req, made, held, hist>>
     ELSE /\ Allow(Tenant)
          /\ hist' = [hist EXCEPT !.top = Max({@, Limit})]
          /\ req' = [req EXCEPT ![i] = [at |-> "tenant", key |-> key, gen |-> made'[Tenant], rate |-> Limit]]
  /\ UNCHANGED <<now, setting, bucket, usage, process, spent>>

\* The bucket request i is at.
NameOf(i) == IF req[i].at = "tenant" THEN Tenant ELSE req[i].key

\* Variant for mutation: the time of the call is not kept.
RefillForgets(b, rate, burst) ==
  IF ~b.primed THEN [tokens |-> burst, last |-> now, primed |-> TRUE]
  ELSE IF now > b.last THEN [b EXCEPT !.tokens = Min({burst, @ + (now - b.last) * rate})]
  ELSE b
\* The tokens since the last call, at today's rate; a first call fills the bucket.
Refill(b, rate, burst) ==
  IF ~b.primed THEN [tokens |-> burst, last |-> now, primed |-> TRUE]
  ELSE IF now > b.last THEN [b EXCEPT !.tokens = Min({burst, @ + (now - b.last) * rate}), !.last = now]
  ELSE b

\* bucket.allow: one token, or the request ends with 429.  The key's bucket is asked for after
\* the tenant's token is spent.
Charge(i) ==
  /\ req[i].at \in {"tenant", "key"}
  /\ LET n == NameOf(i)
         g == req[i].gen
         b == Refill(bucket[n][g], req[i].rate, req[i].rate * BurstFactor(n))
         ok == b.tokens >= 1
         orphan == n \notin held \/ g # made[n]
     IN  /\ bucket' = [bucket EXCEPT ![n][g] = IF ok THEN [b EXCEPT !.tokens = @ - 1] ELSE b]
         /\ hist' = IF ~ok THEN hist ELSE
                    [hist EXCEPT !.adm[n] = [t \in Moments |-> IF t > now THEN @[t] + 1 ELSE @[t]],
                                 !.orphan[n] = IF orphan THEN @ + 1 ELSE @]
         /\ IF ok /\ n = Tenant /\ req[i].key # Session
            THEN /\ Allow(req[i].key)
                 /\ req' = [req EXCEPT ![i].at = "key", ![i].gen = made'[req[i].key]]
            ELSE /\ req' = [req EXCEPT ![i] = IF ok THEN [Idle EXCEPT !.at = "serve"] ELSE Idle]
                 /\ UNCHANGED <<made, held>>
  /\ UNCHANGED <<now, setting, served, usage, process, spent>>

\* A bucket without activity for longer than the TTL.
Evictable(n) == bucket[n][made[n]].primed /\ bucket[n][made[n]].last < now - IdleTTL

\* The sweep of Limiter.Run.
EvictIdle ==
  /\ process = "up"
  /\ \E n \in held : Evictable(n)
  /\ held' = {n \in held : ~Evictable(n)}
  /\ UNCHANGED <<now, setting, bucket, made, req, served, usage, process, spent, hist>>

-----------------------------------------------------------------------------
(* The usage counter.                                                      *)

DayOf(t) == t \div DayLength

\* A query's handler is done: Counter.Add.
Serve(i) ==
  /\ req[i].at = "serve"
  /\ buffer' = [buffer EXCEPT ![DayOf(now)] = @ + 1]
  /\ hist' = [hist EXCEPT !.added[DayOf(now)] = @ + 1]
  /\ req' = [req EXCEPT ![i] = Idle]
  /\ UNCHANGED <<now, setting, limiter, served, drained, flushing, rows, process, spent>>

\* Flush swaps the map: at a tick of Run, or once more after the signal.
FlushSwaps ==
  /\ process \in {"up", "stopping"} /\ ~flushing
  /\ process = "up" => buffer # NoCounts  \* an empty flush does nothing
  /\ drained' = buffer /\ buffer' = NoCounts /\ flushing' = TRUE
  /\ UNCHANGED <<now, setting, limiter, req, served, rows, process, spent, hist>>

\* One accumulating upsert per day; its error may hide that it was applied.
Upsert(d, ok, applied) ==
  /\ flushing /\ drained[d] > 0 /\ process # "exited" /\ (ok => applied)
  /\ rows' = [rows EXCEPT ![d] = IF applied THEN @ + drained[d] ELSE @]

FlushUpserts(d) ==
  /\ Upsert(d, TRUE, TRUE)
  /\ drained' = [drained EXCEPT ![d] = 0]
  /\ UNCHANGED <<now, setting, limiter, req, served, buffer, flushing, process, spent, hist>>

\* Variant for mutation: only the failed bucket is put back.
RestoredFailed(d) == [buffer EXCEPT ![d] = @ + drained[d]]
\* restore: the failed bucket and all that remain are merged into the live map.
Restored(d) == [e \in Days |-> buffer[e] + drained[e]]

\* The first error ends the flush.
FlushFails(d, applied) ==
  /\ Upsert(d, FALSE, applied) /\ spent.faults < MaxFaults
  /\ spent' = [spent EXCEPT !.faults = @ + 1]
  /\ buffer' = Restored(d)
  /\ drained' = NoCounts /\ flushing' = FALSE
  /\ hist' = [hist EXCEPT !.twice[d] = IF applied THEN @ + drained[d] ELSE @]
  /\ process' = IF process = "stopping" THEN "drained" ELSE process
  /\ UNCHANGED <<now, setting, limiter, req, served>>

\* Every bucket is written; after the signal Run returns.
FlushEnds ==
  /\ flushing /\ drained = NoCounts
  /\ flushing' = FALSE
  /\ process' = IF process = "stopping" THEN "drained" ELSE process
  /\ UNCHANGED <<now, setting, limiter, req, served, buffer, drained, rows, spent, hist>>

-----------------------------------------------------------------------------
(* The process and its surroundings.                                       *)

\* SIGTERM.  A flush under way is cancelled or finishes: FlushUpserts or FlushFails.
Stop ==
  /\ process = "up" /\ spent.stops < MaxStops /\ ~flushing
  /\ process' = "stopping" /\ spent' = [spent EXCEPT !.stops = @ + 1]
  /\ UNCHANGED <<now, setting, limiter, req, served, usage, hist>>

\* runAPIServer returns when the requests are done or ten seconds have passed; it does not
\* wait for the counter's loop.  What memory still holds is gone.
Exit ==
  /\ process \in {"stopping", "drained"}
  /\ process' = "exited"
  /\ hist' = [hist EXCEPT !.lost = [d \in Days |-> @[d] + buffer[d] + drained[d]],
                          !.adm = NoAdmissions, !.orphan = [n \in Names |-> 0], !.top = 0]
  /\ buffer' = NoCounts /\ drained' = NoCounts /\ flushing' = FALSE
  /\ req' = [i \in Threads |-> Idle]
  /\ bucket' = [n \in Names |-> [g \in 1..MaxBuckets |-> Fresh]]
  /\ made' = [n \in Names |-> 0] /\ held' = {}
  /\ UNCHANGED <<now, setting, served, rows, spent>>

Start ==
  /\ process = "exited" /\ process' = "up"
  /\ UNCHANGED <<now, setting, limiter, req, served, usage, spent, hist>>

\* Seconds pass, and the tenant's settings change.
Tick ==
  /\ now < MaxTime /\ now' = now + 1
  /\ UNCHANGED <<setting, limiter, req, served, usage, process, spent, hist>>
Configure(q) ==
  /\ setting # q /\ setting' = q
  /\ spent.changes < MaxChanges /\ spent' = [spent EXCEPT !.changes = @ + 1]
  /\ UNCHANGED <<now, limiter, req, served, usage, process, hist>>

Next ==
  \/ \E i \in Threads : Charge(i) \/ Serve(i) \/ \E k \in Keys \cup {Session} : RequestArrives(i, k)
  \/ EvictIdle \/ FlushSwaps \/ FlushEnds
  \/ \E d \in Days : FlushUpserts(d) \/ \E applied \in BOOLEAN : FlushFails(d, applied)
  \/ Stop \/ Exit \/ Start \/ Tick
  \/ \E q \in Settings : Configure(q)

Spec == Init /\ [][Next]_vars

-----------------------------------------------------------------------------
(* Properties.                                                             *)

\* In any interval one process admits at most a burst and what the rate gives in it, at the
\* highest rate it was given, although idle buckets are thrown away and come back full; a
\* request that held an evicted bucket adds itself (bucket.go allow; limiter.go evictIdle:
\* "eviction only reclaims memory (it never tightens a limit)").
WithinRate ==
  \A n \in Names : \A a \in 0..now : \A b \in a..now :
    hist.adm[n][b + 1] - hist.adm[n][a]
      <= hist.top * (BurstFactor(n) + b - a) + hist.orphan[n]

\* Until the process ends every count is in usage_daily, in a flush under way or in the live
\* map, exactly once unless an applied upsert reported an error; only the end of a process
\* loses any (counter.go Add, Flush, restore).
UsageConserved ==
  \A d \in Days : rows[d] + drained[d] + buffer[d] + hist.lost[d] = hist.added[d] + hist.twice[d]

-----------------------------------------------------------------------------
(* Inductive strengthening.                                                *)

\* A bucket never holds more than a burst at the highest rate, and is never ahead of the clock;
\* those not made yet are fresh.  A request is at a bucket that was made, with a rate that counts
\* towards the highest.  Nothing is admitted after now.
LimiterSound ==
  /\ \A n \in Names, g \in 1..MaxBuckets :
       /\ bucket[n][g].tokens <= hist.top * BurstFactor(n) /\ bucket[n][g].last <= now
       /\ g > made[n] => bucket[n][g] = Fresh
  /\ \A i \in Threads : req[i].at \in {"tenant", "key"} =>
       req[i].gen \in 1..made[NameOf(i)] /\ req[i].rate \in 1..hist.top
         /\ (req[i].at = "key" => req[i].key \in Keys)
  /\ \A n \in Names, t \in Moments : t > now => hist.adm[n][t] = hist.adm[n][now + 1]

\* What the bucket a name is given next can admit at once, at the highest rate: a burst, or what
\* the live bucket has come to since its last call.
Potential(n) ==
  LET b == bucket[n][made[n]]
      full == hist.top * BurstFactor(n)
      refilled == b.tokens + (now - b.last) * hist.top
  IN  IF n \in held /\ b.primed /\ refilled < full THEN refilled ELSE full

\* Admissions since any moment and what could follow at once stay within the rate.
WithinPotential ==
  \A n \in Names, a \in Moments : a <= now =>
    hist.adm[n][now + 1] - hist.adm[n][a] + Potential(n)
      <= hist.top * (BurstFactor(n) + now - a) + hist.orphan[n]

\* Between two flushes nothing is in between.
FlushSound == ~flushing => drained = NoCounts

IInv == TypeOK /\ LimiterSound /\ WithinPotential /\ WithinRate /\ FlushSound /\ UsageConserved
=============================================================================
