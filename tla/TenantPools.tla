------------------------------ MODULE TenantPools ------------------------------
(***************************************************************************)
(* How a process reaches a tenant's database: the resolver with its        *)
(* record cache and its pool cache (internal/tenant), the registry changes *)
(* it has to follow (provision.Lifecycle.Move, suspension, deletion), and  *)
(* the rotation of the key the recorded passwords are sealed under         *)
(* (internal/crypto/keyring.go, ragctl keys rotate-dek).                   *)
(*                                                                         *)
(* One process of the fleet, Server, is followed in detail; of the others  *)
(* only the keys they hold matter.  No command starts Resolver.Listen,     *)
(* calls Resolver.Close or sweeps idle pools, so neither does the model:   *)
(* a cached record ends with its TTL, a pool with the LRU cap.             *)
(***************************************************************************)
EXTENDS Naturals, FiniteSets, Sequences

CONSTANTS
  Tenants,
  Edited,      \* the tenants whose registry rows change; bounds the admin's traffic
  Procs,       \* processes of the fleet
  Server,      \* the process whose resolver is modelled
  Requests,    \* requests in flight in Server
  MaxPools,    \* hard cap of the pool cache
  MaxChanges   \* bound on registry changes

ASSUME PoolsAssumption ==
  /\ IsFiniteSet(Tenants) /\ Edited \subseteq Tenants /\ Server \in Procs
  /\ IsFiniteSet(Requests)
  /\ MaxPools \in Nat \ {0} /\ MaxChanges \in Nat

VARIABLES
  row,      \* registry: status, schema_version is the expected one, generation of host
            \* and of the password, sealing key
  ring,     \* keys each process holds: "old", "both" or "new"
  rot,      \* ragctl keys rotate-dek: its state and the rows it has read
  cache,    \* cachingRegistry of Server
  lru,      \* poolCache of Server, most recently used first
  open,     \* pools of Server dialled and not closed
  req,      \* requests of Server
  changes

vars == <<row, ring, rot, cache, lru, open, req, changes>>

None == "none"
Gens == 0..MaxChanges
Rows == [status: {"active", "suspended", "deleting"}, cur: BOOLEAN, host: Gens, pw: Gens, key: {1, 2}]
NoRec == [status |-> None, cur |-> FALSE, host |-> 0, pw |-> 0, key |-> 1]
Idle == [at |-> None, t |-> None, rec |-> NoRec, host |-> 0, ro |-> FALSE]

Places == {None, "lookup", "load", "rec", "insert", "use"}
Pool == [t: Tenants, host: Gens]
Request == [at: Places, t: Tenants \cup {None}, rec: Rows \cup {NoRec}, host: Gens, ro: BOOLEAN]

TypeOK ==
  /\ row \in [Tenants -> Rows]
  /\ ring \in [Procs -> {"old", "both", "new"}]
  /\ rot \in [at: {"before", "running", "done"}, read: SUBSET [t: Tenants, pw: Gens]]
  /\ cache \in [Tenants -> Rows \cup {NoRec}]
  /\ lru \in Seq(Pool) /\ Len(lru) <= MaxPools
  /\ open \in Nat /\ changes \in Gens
  /\ req \in [Requests -> Request]
  /\ \A r \in Requests : req[r].at # None => req[r].t \in Tenants

Init ==
  /\ row = [t \in Tenants |-> [status |-> "active", cur |-> t \notin Edited, host |-> 0,
                           pw |-> 0, key |-> 1]]
  /\ ring = [p \in Procs |-> "old"]
  /\ rot = [at |-> "before", read |-> {}]
  /\ cache = [t \in Tenants |-> NoRec] /\ lru = <<>> /\ open = 0
  /\ req = [r \in Requests |-> Idle]
  /\ changes = 0

Server_ == <<cache, lru, open, req>>
Registry_ == <<row, ring, rot, changes>>

-----------------------------------------------------------------------------
(* Key rings.                                                              *)

\* NewKeyring: the primary and the previous keys open; the primary seals.
Opens(p) == CASE ring[p] = "old" -> {1} [] ring[p] = "both" -> {1, 2} [] OTHER -> {2}
Primary(p) == IF ring[p] = "old" THEN 1 ELSE 2

-----------------------------------------------------------------------------
(* Registry changes, made by any process.                                  *)

Change == changes < MaxChanges /\ changes' = changes + 1

\* Suspend, Resume, ScheduleDelete, CancelDelete.
SetStatus(t, to) ==
  /\ row[t].status # to /\ Change
  /\ row' = [row EXCEPT ![t].status = to]
  /\ UNCHANGED <<ring, rot, Server_>>

\* Move to a new host with a new password, sealed by the process that runs it.
Move(p, t) ==
  /\ Change
  /\ row' = [row EXCEPT ![t].host = changes', ![t].pw = changes', ![t].key = Primary(p)]
  /\ UNCHANGED <<ring, rot, Server_>>

\* ragctl migrate tenants.
Migrated(t) ==
  /\ ~row[t].cur
  /\ row' = [row EXCEPT ![t].cur = TRUE]
  /\ UNCHANGED <<ring, rot, changes, Server_>>

-----------------------------------------------------------------------------
(* Key rotation, in the order NewDEKCmd's comment prescribes.              *)

\* A process restarts with another set of keys: its caches and requests are gone.
Restart(p, keys) ==
  /\ ring' = [ring EXCEPT ![p] = keys]
  /\ IF p = Server
     THEN /\ cache' = [t \in Tenants |-> NoRec] /\ lru' = <<>> /\ open' = 0
          /\ req' = [r \in Requests |-> Idle]
     ELSE UNCHANGED Server_

\* LoadStartupKeyring with the new primary and the old key in DEK_PREVIOUS.
DeployNew(p) ==
  /\ ring[p] = "old"
  /\ Restart(p, "both")
  /\ UNCHANGED <<row, rot, changes>>

\* reencryptColumn, first half: all rows are read up front.
RotateRead ==
  /\ rot.at = "before" /\ \A p \in Procs : ring[p] = "both"
  /\ rot' = [at |-> "running",
             read |-> {[t |-> t, pw |-> row[t].pw] : t \in {u \in Tenants : row[u].key # 2}}]
  /\ UNCHANGED <<row, ring, changes, Server_>>

\* Second half: each password read is sealed again and written by id.
RotateWrite(x) ==
  /\ rot.at = "running" /\ x \in rot.read
  /\ row' = [row EXCEPT ![x.t].pw = x.pw, ![x.t].key = 2]
  /\ rot' = [rot EXCEPT !.read = @ \ {x}]
  /\ UNCHANGED <<ring, changes, Server_>>

\* Variant for mutation: an interrupted rotation counts as complete.
RotateStopsAnywhere ==
  /\ rot.at = "running"
  /\ rot' = [at |-> "done", read |-> {}]
  /\ UNCHANGED <<row, ring, changes, Server_>>

\* Interrupted, the command is run again; it is complete when it has written all.
RotateStops ==
  /\ rot.at = "running"
  /\ rot' = [at |-> IF rot.read = {} THEN "done" ELSE "before", read |-> {}]
  /\ UNCHANGED <<row, ring, changes, Server_>>

\* The old key leaves DEK_PREVIOUS.
DropOld(p) ==
  /\ rot.at = "done" /\ ring[p] = "both"
  /\ Restart(p, "new")
  /\ UNCHANGED <<row, rot, changes>>

-----------------------------------------------------------------------------
(* Resolver.Open.                                                          *)

At(r, place) == req[r].at = place
Ends(r) == req' = [req EXCEPT ![r] = Idle]

Start(r, t) ==
  /\ At(r, None)
  /\ req' = [req EXCEPT ![r] = [Idle EXCEPT !.at = "lookup", !.t = t]]
  /\ UNCHANGED <<Registry_, cache, lru, open>>

\* Lookup: the cached record while it is fresh, else a load outside the mutex.
Lookup(r) ==
  /\ At(r, "lookup")
  /\ req' = IF cache[req[r].t] # NoRec
            THEN [req EXCEPT ![r].at = "rec", ![r].rec = cache[req[r].t]]
            ELSE [req EXCEPT ![r].at = "load", ![r].rec = row[req[r].t]]
  /\ UNCHANGED <<Registry_, cache, lru, open>>

\* What was loaded is stored, whatever was stored or changed meanwhile.
LookupStores(r) ==
  /\ At(r, "load")
  /\ cache' = [cache EXCEPT ![req[r].t] = req[r].rec]
  /\ req' = [req EXCEPT ![r].at = "rec"]
  /\ UNCHANGED <<Registry_, lru, open>>

\* Variant for mutation: a record that requests keep asking for is kept.
ExpiresUnused(t) ==
  /\ cache[t] # NoRec /\ \A r \in Requests : req[r].t # t
  /\ cache' = [cache EXCEPT ![t] = NoRec]
  /\ UNCHANGED <<Registry_, lru, open, req>>

\* The entry's TTL passes.
Expires(t) ==
  /\ cache[t] # NoRec
  /\ cache' = [cache EXCEPT ![t] = NoRec]
  /\ UNCHANGED <<Registry_, lru, open, req>>

\* Open: statuses that are not served, and a schema the binary does not expect.
Servable(rec) == rec.status # "deleting" /\ rec.cur
Unavailable(r) ==
  /\ At(r, "rec") /\ ~Servable(req[r].rec)
  /\ Ends(r)
  /\ UNCHANGED <<Registry_, cache, lru, open>>

ReadOnly(r) == req[r].rec.status = "suspended"
Served(r) == At(r, "rec") /\ Servable(req[r].rec)

\* poolCache: entries are found by tenant alone; LRU order.
Cached(t) == {i \in 1..Len(lru) : lru[i].t = t}
MoveToFront(i) ==
  [k \in 1..Len(lru) |-> lru[IF k = 1 THEN i ELSE IF k <= i THEN k - 1 ELSE k]]
PushFront(entry) == [k \in 1..(Len(lru) + 1) |-> IF k = 1 THEN entry ELSE lru[k - 1]]
Capped(s) == SubSeq(s, 1, IF Len(s) > MaxPools THEN MaxPools ELSE Len(s))

\* The handle of a request on a pool of the host.
Handle(r, host) ==
  req' = [req EXCEPT ![r] = [@ EXCEPT !.at = "use", !.rec = NoRec, !.host = host,
                                      !.ro = ReadOnly(r)]]

\* poolCache.get, found.
PoolHit(r) ==
  /\ Served(r)
  /\ \E i \in Cached(req[r].t) : lru' = MoveToFront(i) /\ Handle(r, lru[i].host)
  /\ UNCHANGED <<Registry_, cache, open>>

\* poolCache.get, not found: the build runs outside the mutex and opens the password.
PoolBuild(r) ==
  /\ Served(r) /\ Cached(req[r].t) = {}
  /\ IF req[r].rec.key \in Opens(Server)
     THEN open' = open + 1 /\ req' = [req EXCEPT ![r].at = "insert"]
     ELSE open' = open /\ Ends(r)
  /\ UNCHANGED <<Registry_, cache, lru>>

\* poolCache.get under the mutex again: a pool another request put there is kept and ours
\* closed; else ours goes in front and, past the cap, the least recently used is closed.
Insert(r, lost) ==
  /\ At(r, "insert")
  /\ \/ \E i \in Cached(req[r].t) :
          lru' = MoveToFront(i) /\ open' = open - lost /\ Handle(r, lru[i].host)
     \/ LET all == PushFront([t |-> req[r].t, host |-> req[r].rec.host])
        IN  /\ Cached(req[r].t) = {}
            /\ lru' = Capped(all)
            /\ open' = open - (Len(all) - Len(Capped(all)))
            /\ Handle(r, req[r].rec.host)
  /\ UNCHANGED <<Registry_, cache>>
\* Variant for mutation: the pool that lost the race is left open.
InsertLeaks(r) == Insert(r, 0)
PoolInsert(r) == Insert(r, 1)

\* The request is done with its handle.
Finish(r) ==
  /\ At(r, "use")
  /\ Ends(r)
  /\ UNCHANGED <<Registry_, cache, lru, open>>

Step(r) ==
  \/ Lookup(r) \/ LookupStores(r) \/ Unavailable(r) \/ PoolHit(r) \/ PoolBuild(r)
  \/ PoolInsert(r) \/ Finish(r)

Next ==
  \/ \E t \in Edited, to \in {"active", "suspended", "deleting"} : SetStatus(t, to)
  \/ \E p \in Procs, t \in Edited : Move(p, t)
  \/ \E t \in Edited : Migrated(t)
  \/ \E p \in Procs : DeployNew(p) \/ DropOld(p)
  \/ RotateRead \/ (\E x \in rot.read : RotateWrite(x)) \/ RotateStops
  \/ \E r \in Requests : Step(r) \/ \E t \in Tenants : Start(r, t)
  \/ \E t \in Tenants : Expires(t)

Spec == Init /\ [][Next]_vars

\* Requests run to their end and the clock moves on; nobody has to send requests.
FairSpec ==
  /\ Spec
  /\ \A r \in Requests : WF_vars(Step(r))
  /\ \A t \in Tenants : WF_vars(Expires(t))

-----------------------------------------------------------------------------
(* Properties.                                                             *)

\* The requests that have dialled a pool and not put it into the cache yet.
Inserting == {r \in Requests : req[r].at = "insert"}

\* Every pool that was dialled and not closed is in the cache or about to be put there:
\* losing the race to insert, the LRU cap and restarts leave no connections behind
\* (pool_cache.go get, evictOverCapLocked, closeAll).
NoPoolLeaks == open = Len(lru) + Cardinality(Inserting)

\* Once the whole fleet has both keys every process can open every recorded password, while
\* rows are sealed again beside moves, when the rotation is interrupted and run again, and
\* after the old key is dropped (keys.go NewDEKCmd, RotateDEKCmd; keyring.go Decrypt).
SecretsOpen ==
  (\A p \in Procs : ring[p] # "old") =>
    \A p \in Procs, t \in Tenants : row[t].key \in Opens(p)

\* Inductive strengthening, in two parts.
\* The cache holds at most one pool of a tenant: what moves to the front was there once.
OnePoolPerTenant == \A i, j \in 1..Len(lru) : lru[i].t = lru[j].t => i = j

\* What each stage of the rotation guarantees: nobody drops the old key before it is complete,
\* it runs only in a fleet that has the new key, a row under the old key is still to be
\* written by it, and none is left when it is complete.
RotationSound ==
  /\ \A p \in Procs : ring[p] = "new" => rot.at = "done"
  /\ rot.at # "before" => \A p \in Procs : ring[p] # "old"
  /\ rot.at = "running" => \A t \in Tenants : row[t].key = 2 \/ \E x \in rot.read : x.t = t
  /\ rot.at = "done" => \A t \in Tenants : row[t].key = 2

IInv == TypeOK /\ OnePoolPerTenant /\ NoPoolLeaks /\ RotationSound

\* A tenant that stays suspended or deleting is eventually not written to any more, though
\* nothing but the TTL ends a cached record and a load may store what it read before the
\* change (registry.go Lookup, resolver.go Open).
WritesStop ==
  \A t \in Tenants :
    <>[](row[t].status # "active")
      => <>[](\A r \in Requests : ~(At(r, "use") /\ req[r].t = t /\ ~req[r].ro))
=============================================================================
