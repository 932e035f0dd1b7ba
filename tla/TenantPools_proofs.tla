--------------------------- MODULE TenantPools_proofs ---------------------------
(* Proofs about TenantPools, for any tenants, processes and requests, any cap *)
(* of the pool cache and any number of changes.                               *)
EXTENDS TenantPools, FiniteSetTheorems, TLAPS

-----------------------------------------------------------------------------
(* The pool cache.                                                           *)

\* A hit reorders the cache: as many pools, and still one of each tenant.
LEMMA MoveToFrontKeeps ==
  ASSUME TypeOK, OnePoolPerTenant, NEW i \in 1..Len(lru), lru' = MoveToFront(i)
  PROVE  lru' \in Seq(Pool) /\ Len(lru') = Len(lru) /\ OnePoolPerTenant'
<1>1. lru \in Seq(Pool) /\ Len(lru) \in Nat
  BY DEF TypeOK
<1> DEFINE from(k) == IF k = 1 THEN i ELSE IF k <= i THEN k - 1 ELSE k
<1>2. lru' = [k \in 1..Len(lru) |-> lru[from(k)]]
  BY DEF MoveToFront
<1>3. \A k \in 1..Len(lru) : from(k) \in 1..Len(lru)
  BY <1>1
<1>4. lru' \in Seq(Pool) /\ Len(lru') = Len(lru)
  BY <1>1, <1>2, <1>3
<1>5. \A j, k \in 1..Len(lru) : from(j) = from(k) => j = k
  BY <1>1
<1>6. OnePoolPerTenant'
  <2> SUFFICES ASSUME NEW j \in 1..Len(lru), NEW k \in 1..Len(lru), lru'[j].t = lru'[k].t
               PROVE  j = k
    BY <1>4 DEF OnePoolPerTenant
  <2> HIDE DEF from
  <2>1. lru'[j] = lru[from(j)] /\ lru'[k] = lru[from(k)]
    BY <1>2
  <2>2. from(j) = from(k)
    BY <1>3, <2>1 DEF OnePoolPerTenant
  <2> QED  BY <1>5, <2>2
<1> QED  BY <1>4, <1>6

\* A new pool in front of a cache that has none of its tenant, cut at the cap.
LEMMA PushFrontKeeps ==
  ASSUME TypeOK, OnePoolPerTenant, NEW entry \in Pool, Cached(entry.t) = {},
         NEW all, all = PushFront(entry), lru' = Capped(all)
  PROVE  /\ lru' \in Seq(Pool) /\ Len(lru') <= MaxPools /\ OnePoolPerTenant'
         /\ Len(all) = Len(lru) + 1
         /\ Len(Capped(all)) = Len(lru') /\ Len(lru') <= Len(all)
<1>1. lru \in Seq(Pool) /\ Len(lru) \in Nat /\ MaxPools \in Nat
  BY PoolsAssumption DEF TypeOK
<1>2. all = [k \in 1..(Len(lru) + 1) |-> IF k = 1 THEN entry ELSE lru[k - 1]]
  BY DEF PushFront
<1>3. all \in Seq(Pool)
  BY <1>1, <1>2
<1>4. Len(all) = Len(lru) + 1
  BY <1>1, <1>2
<1>5. lru' = SubSeq(all, 1, IF Len(all) > MaxPools THEN MaxPools ELSE Len(all))
  BY DEF Capped
<1>6. lru' \in Seq(Pool)
  BY <1>1, <1>3, <1>5
<1>7. Len(lru') = IF Len(all) > MaxPools THEN MaxPools ELSE Len(all)
  BY <1>1, <1>3, <1>5
<1>8. \A k \in 1..Len(lru') : lru'[k] = IF k = 1 THEN entry ELSE lru[k - 1]
  BY <1>1, <1>2, <1>4, <1>5, <1>7
<1>9. \A k \in 1..Len(lru) : lru[k].t # entry.t
  BY DEF Cached
<1>10. OnePoolPerTenant'
  <2> SUFFICES ASSUME NEW j \in 1..Len(lru'), NEW k \in 1..Len(lru'), lru'[j].t = lru'[k].t
               PROVE  j = k
    BY DEF OnePoolPerTenant
  <2>1. j \in 1..(Len(lru) + 1) /\ k \in 1..(Len(lru) + 1)
    BY <1>1, <1>4, <1>7
  <2>2. /\ lru'[j] = IF j = 1 THEN entry ELSE lru[j - 1]
        /\ lru'[k] = IF k = 1 THEN entry ELSE lru[k - 1]
    BY <1>8
  <2>3. \A m \in 1..(Len(lru) + 1) : m # 1 => m - 1 \in 1..Len(lru)
    BY <1>1
  <2>4. \A m \in 1..(Len(lru) + 1) : m # 1 => lru[m - 1].t # entry.t
    BY <1>9, <2>3
  <2>5. j = 1 <=> k = 1
    BY <2>1, <2>2, <2>4
  <2>6. j # 1 => lru[j - 1].t = lru[k - 1].t
    BY <2>2, <2>5
  <2>7. j # 1 => j - 1 = k - 1
    BY <2>1, <2>3, <2>5, <2>6 DEF OnePoolPerTenant
  <2> QED  BY <1>1, <2>1, <2>5, <2>7
<1> QED  BY <1>1, <1>4, <1>6, <1>7, <1>10

-----------------------------------------------------------------------------
(* Requests, and those that have dialled a pool.                             *)

LEMMA InsertingFinite == IsFiniteSet(Inserting) /\ Cardinality(Inserting) \in Nat
  BY PoolsAssumption, FS_Subset, FS_CardinalityType DEF Inserting

\* The requests once r has moved to a place.
Moves(r, place) ==
  /\ req' \in [Requests -> Request]
  /\ \A x \in Requests : x # r => req'[x] = req[x]
  /\ req'[r].at = place /\ (place # None => req'[r].t \in Tenants)

\* The pools that a request holds at a place: the one it has dialled and not yet inserted.
Dialled(place) == IF place = "insert" THEN 1 ELSE 0

\* A request that moves is counted where it arrives and not where it was.
LEMMA OneRequest ==
  ASSUME TypeOK, NEW r \in Requests, NEW place, Moves(r, place)
  PROVE  Cardinality(Inserting') = Cardinality(Inserting) + Dialled(place) - Dialled(req[r].at)
<1>1. Inserting' = {x \in Requests : req'[x].at = "insert"}
  BY DEF Inserting
<1>2. CASE place = "insert" /\ req[r].at # "insert"
  <2>1. r \notin Inserting /\ Inserting' = Inserting \cup {r}
    BY <1>1, <1>2 DEF Inserting, Moves
  <2>2. Cardinality(Inserting') = Cardinality(Inserting) + 1
    BY <2>1, InsertingFinite, FS_AddElement
  <2> QED  BY <1>2, <2>2, InsertingFinite DEF Dialled
<1>3. CASE place # "insert" /\ req[r].at = "insert"
  <2>1. r \in Inserting /\ Inserting' = Inserting \ {r}
    BY <1>1, <1>3 DEF Inserting, Moves
  <2>2. Cardinality(Inserting') = Cardinality(Inserting) - 1
    BY <2>1, InsertingFinite, FS_RemoveElement
  <2> QED  BY <1>3, <2>2, InsertingFinite DEF Dialled
<1>4. CASE place = "insert" <=> req[r].at = "insert"
  <2>1. Inserting' = Inserting
    BY <1>1, <1>4 DEF Inserting, Moves
  <2> QED  BY <1>4, <2>1, InsertingFinite DEF Dialled
<1> QED  BY <1>2, <1>3, <1>4

\* A step of one request preserves the invariant when the pools it opens and closes are those
\* that enter or leave the cache or its own hands.
LEMMA RequestStep ==
  ASSUME IInv, NEW r \in Requests, NEW place, Moves(r, place), UNCHANGED Registry_,
         cache' \in [Tenants -> Rows \cup {NoRec}],
         lru' \in Seq(Pool), Len(lru') <= MaxPools, OnePoolPerTenant',
         open' = open + (Len(lru') - Len(lru)) + Dialled(place) - Dialled(req[r].at)
  PROVE  IInv'
<1>1. TypeOK /\ open = Len(lru) + Cardinality(Inserting) /\ Len(lru) \in Nat
  BY DEF IInv, NoPoolLeaks, TypeOK
<1>2. Cardinality(Inserting') = Cardinality(Inserting) + Dialled(place) - Dialled(req[r].at)
  BY <1>1, OneRequest
<1>3. Len(lru') \in Nat /\ Cardinality(Inserting') \in Nat
  BY PoolsAssumption, FS_Subset, FS_CardinalityType DEF Inserting
<1>4. Dialled(place) \in Nat /\ Dialled(req[r].at) \in Nat
  BY DEF Dialled
<1>5. open' = Len(lru') + Cardinality(Inserting')
  BY <1>1, <1>2, <1>3, <1>4, InsertingFinite
<1>6. open' \in Nat
  BY <1>3, <1>5
<1>7. \A x \in Requests : req'[x].at # None => req'[x].t \in Tenants
  BY <1>1 DEF Moves, TypeOK
<1>8. TypeOK'
  BY <1>1, <1>6, <1>7 DEF TypeOK, Registry_, Moves
<1>9. RotationSound'
  BY DEF IInv, RotationSound, Registry_
<1> QED  BY <1>5, <1>8, <1>9 DEF IInv, NoPoolLeaks

\* The special case of a step that leaves the pools alone.
LEMMA NoPoolStep ==
  ASSUME IInv, NEW r \in Requests, NEW place, Moves(r, place), UNCHANGED <<Registry_, lru, open>>,
         cache' \in [Tenants -> Rows \cup {NoRec}], Dialled(place) = Dialled(req[r].at)
  PROVE  IInv'
<1>1. lru \in Seq(Pool) /\ Len(lru) <= MaxPools /\ Len(lru) \in Nat /\ open \in Nat
  BY DEF IInv, TypeOK
<1>2. OnePoolPerTenant'
  BY DEF IInv, OnePoolPerTenant
<1>3. Dialled(place) \in Nat
  BY DEF Dialled
<1>4. open' = open + (Len(lru') - Len(lru)) + Dialled(place) - Dialled(req[r].at)
  BY <1>1, <1>3
<1> QED  BY <1>1, <1>2, <1>4, RequestStep

LEMMA CachedPools ==
  ASSUME IInv, NEW t, NEW i \in Cached(t)
  PROVE  i \in 1..Len(lru) /\ lru[i].host \in Gens
<1>1. i \in 1..Len(lru)
  BY DEF Cached
<1>2. lru[i] \in Pool
  BY <1>1 DEF IInv, TypeOK
<1> QED  BY <1>1, <1>2 DEF Pool

\* Requests, whatever they do: Resolver.Open step by step.
LEMMA RequestSteps ==
  ASSUME IInv, NEW r \in Requests, Step(r) \/ \E t \in Tenants : Start(r, t)
  PROVE  IInv'
<1>1. /\ TypeOK /\ OnePoolPerTenant /\ req \in [Requests -> Request] /\ req[r] \in Request
      /\ req[r].at # None => req[r].t \in Tenants
      /\ cache \in [Tenants -> Rows \cup {NoRec}] /\ row \in [Tenants -> Rows]
      /\ lru \in Seq(Pool) /\ Len(lru) \in Nat /\ Len(lru) <= MaxPools /\ MaxPools \in Nat
      /\ open \in Nat
  BY PoolsAssumption DEF IInv, TypeOK
<1>2. 0 \in Gens /\ Idle \in Request
  BY PoolsAssumption DEF Gens, Idle, Request, Places
<1>3. Ends(r) => Moves(r, None)
  BY <1>1, <1>2 DEF Ends, Moves, Idle
<1>4. \A host \in Gens : Handle(r, host) /\ req[r].at # None => Moves(r, "use")
  <2> SUFFICES ASSUME NEW host \in Gens, Handle(r, host), req[r].at # None
               PROVE  Moves(r, "use")
    OBVIOUS
  <2>1. ReadOnly(r) \in BOOLEAN
    BY DEF ReadOnly
  <2>2. req'[r] = [req[r] EXCEPT !.at = "use", !.rec = NoRec, !.host = host, !.ro = ReadOnly(r)]
    BY <1>1 DEF Handle
  <2>3. req'[r] \in Request /\ req'[r].at = "use" /\ req'[r].t = req[r].t
    BY <1>1, <2>1, <2>2 DEF Request, Places
  <2> QED  BY <1>1, <2>3 DEF Handle, Moves
<1>5. ASSUME NEW t \in Tenants, Start(r, t) PROVE IInv'
  <2>1. Moves(r, "lookup")
    BY <1>1, <1>2, <1>5 DEF Start, Moves, Idle, Request, Places
  <2> QED  BY <1>1, <1>5, <2>1, NoPoolStep DEF Start, At, Dialled, None
<1>6. CASE Lookup(r)
  <2>1. req[r].at = "lookup" /\ req[r].t \in Tenants
    BY <1>1, <1>6 DEF Lookup, At, None
  <2>2. CASE cache[req[r].t] # NoRec
    <3>1. Moves(r, "rec")
      BY <1>1, <1>6, <2>1, <2>2 DEF Lookup, Moves, Request, Places
    <3> QED  BY <1>1, <1>6, <2>1, <3>1, NoPoolStep DEF Lookup, Dialled
  <2>3. CASE cache[req[r].t] = NoRec
    <3>1. Moves(r, "load")
      BY <1>1, <1>6, <2>1, <2>3 DEF Lookup, Moves, Request, Places
    <3> QED  BY <1>1, <1>6, <2>1, <3>1, NoPoolStep DEF Lookup, Dialled
  <2> QED  BY <2>2, <2>3
<1>7. CASE LookupStores(r)
  <2>1. req[r].at = "load" /\ req[r].t \in Tenants /\ req[r].rec \in Rows \cup {NoRec}
    BY <1>1, <1>7 DEF LookupStores, At, None, Request
  <2>2. cache' \in [Tenants -> Rows \cup {NoRec}]
    BY <1>1, <1>7, <2>1 DEF LookupStores
  <2>3. Moves(r, "rec")
    BY <1>1, <1>7, <2>1 DEF LookupStores, Moves, Request, Places
  <2> QED  BY <1>7, <2>1, <2>2, <2>3, NoPoolStep DEF LookupStores, Dialled
<1>8. CASE Unavailable(r)
  BY <1>1, <1>3, <1>8, NoPoolStep DEF Unavailable, At, Dialled, None
<1>9. CASE Finish(r)
  BY <1>1, <1>3, <1>9, NoPoolStep DEF Finish, At, Dialled, None
<1>10. CASE PoolHit(r)
  <2>1. PICK i \in Cached(req[r].t) : lru' = MoveToFront(i) /\ Handle(r, lru[i].host)
    BY <1>10 DEF PoolHit
  <2>2. i \in 1..Len(lru) /\ lru[i].host \in Gens
    BY <2>1, CachedPools
  <2>3. lru' \in Seq(Pool) /\ Len(lru') = Len(lru) /\ OnePoolPerTenant'
    BY <1>1, <2>1, <2>2, MoveToFrontKeeps
  <2>4. req[r].at = "rec" /\ UNCHANGED <<Registry_, cache, open>>
    BY <1>10 DEF PoolHit, Served, At
  <2>5. Moves(r, "use")
    BY <1>4, <2>1, <2>2, <2>4 DEF None
  <2>6. open' = open + (Len(lru') - Len(lru)) + Dialled("use") - Dialled(req[r].at)
    BY <1>1, <2>3, <2>4 DEF Dialled
  <2> QED  BY <1>1, <2>3, <2>4, <2>5, <2>6, RequestStep
<1>11. CASE PoolBuild(r)
  <2>1. req[r].at = "rec" /\ UNCHANGED <<Registry_, cache, lru>> /\ req[r].t \in Tenants
    BY <1>1, <1>11 DEF PoolBuild, Served, At, None
  <2>2. OnePoolPerTenant'
    BY <1>1, <2>1 DEF OnePoolPerTenant
  <2>3. CASE req[r].rec.key \in Opens(Server)
    <3>1. Moves(r, "insert")
      BY <1>1, <1>11, <2>1, <2>3 DEF PoolBuild, Moves, Request, Places
    <3>2. open' = open + (Len(lru') - Len(lru)) + Dialled("insert") - Dialled(req[r].at)
      BY <1>1, <1>11, <2>1, <2>3 DEF PoolBuild, Dialled
    <3> QED  BY <1>1, <2>1, <2>2, <3>1, <3>2, RequestStep
  <2>4. CASE req[r].rec.key \notin Opens(Server)
    BY <1>1, <1>3, <1>11, <2>1, <2>4, NoPoolStep DEF PoolBuild, Dialled, None
  <2> QED  BY <2>3, <2>4
<1>12. CASE PoolInsert(r)
  <2>1. req[r].at = "insert" /\ UNCHANGED <<Registry_, cache>> /\ req[r].t \in Tenants
        /\ req[r].rec.host \in Gens
    BY <1>1, <1>2, <1>12 DEF PoolInsert, Insert, At, None, Request, Rows, NoRec
  <2>2. ASSUME NEW i \in Cached(req[r].t),
               lru' = MoveToFront(i), open' = open - 1, Handle(r, lru[i].host)
        PROVE  IInv'
    <3>1. i \in 1..Len(lru) /\ lru[i].host \in Gens
      BY CachedPools
    <3>2. lru' \in Seq(Pool) /\ Len(lru') = Len(lru) /\ OnePoolPerTenant'
      BY <1>1, <2>2, <3>1, MoveToFrontKeeps
    <3>3. Moves(r, "use")
      BY <1>4, <2>1, <2>2, <3>1 DEF None
    <3>4. open' = open + (Len(lru') - Len(lru)) + Dialled("use") - Dialled(req[r].at)
      BY <1>1, <2>1, <2>2, <3>2 DEF Dialled
    <3> QED  BY <1>1, <2>1, <3>2, <3>3, <3>4, RequestStep
  <2>3. ASSUME NEW all, all = PushFront([t |-> req[r].t, host |-> req[r].rec.host]),
               Cached(req[r].t) = {}, lru' = Capped(all),
               open' = open - (Len(all) - Len(Capped(all))), Handle(r, req[r].rec.host)
        PROVE  IInv'
    <3>1. [t |-> req[r].t, host |-> req[r].rec.host] \in Pool
      BY <2>1 DEF Pool
    <3>2. /\ lru' \in Seq(Pool) /\ Len(lru') <= MaxPools /\ OnePoolPerTenant'
          /\ Len(all) = Len(lru) + 1 /\ Len(Capped(all)) = Len(lru')
      BY <1>1, <2>3, <3>1, PushFrontKeeps
    <3>3. Moves(r, "use")
      BY <1>4, <2>1, <2>3 DEF None
    <3>4. open' = open + (Len(lru') - Len(lru)) + Dialled("use") - Dialled(req[r].at)
      <4>1. Len(lru') \in Nat
        BY <3>2
      <4>2. open' = open - ((Len(lru) + 1) - Len(lru'))
        BY <2>3, <3>2
      <4> QED  BY <1>1, <2>1, <4>1, <4>2 DEF Dialled
    <3> QED  BY <1>1, <2>1, <3>2, <3>3, <3>4, RequestStep
  <2> QED  BY <1>12, <2>2, <2>3 DEF PoolInsert, Insert
<1> QED  BY <1>5, <1>6, <1>7, <1>8, <1>9, <1>10, <1>11, <1>12 DEF Step

-----------------------------------------------------------------------------
(* Registry changes and the rotation.                                        *)

\* Steps that leave Server alone cannot lose a pool.
LEMMA ServerAlone ==
  ASSUME IInv, UNCHANGED Server_
  PROVE  OnePoolPerTenant' /\ NoPoolLeaks'
<1>1. Inserting' = Inserting
  BY DEF Inserting, Server_
<1> QED  BY <1>1 DEF IInv, OnePoolPerTenant, NoPoolLeaks, Server_

\* The registry changes keep what the rotation has established: a row sealed again while it
\* runs is sealed by a process that has the new key.
LEMMA RegistrySteps ==
  ASSUME IInv, NEW t \in Edited,
         \/ \E to \in {"active", "suspended", "deleting"} : SetStatus(t, to)
         \/ \E p \in Procs : Move(p, t)
         \/ Migrated(t)
  PROVE  IInv'
<1>1. /\ TypeOK /\ RotationSound /\ t \in Tenants /\ row \in [Tenants -> Rows] /\ row[t] \in Rows
      /\ changes \in Nat /\ MaxChanges \in Nat /\ ring \in [Procs -> {"old", "both", "new"}]
  BY PoolsAssumption DEF IInv, TypeOK, Gens
<1>2. ASSUME UNCHANGED <<ring, rot, Server_>>, row' \in [Tenants -> Rows], changes' \in Gens,
             \A u \in Tenants : row'[u].key = row[u].key
                                  \/ row'[u].key = 2
                                  \/ \A p \in Procs : ring[p] = "old"
      PROVE  IInv'
  <2>1. TypeOK'
    BY <1>1, <1>2 DEF TypeOK, Server_
  <2>2. RotationSound'
    <3>1. rot.at # "before" => \A u \in Tenants : row'[u].key = row[u].key \/ row'[u].key = 2
      BY <1>1, <1>2, PoolsAssumption DEF RotationSound
    <3> QED  BY <1>1, <1>2, <3>1 DEF RotationSound
  <2> QED  BY <1>2, <2>1, <2>2, ServerAlone DEF IInv
<1>3. ASSUME NEW to \in {"active", "suspended", "deleting"}, SetStatus(t, to) PROVE IInv'
  <2>1. row' \in [Tenants -> Rows] /\ \A u \in Tenants : row'[u].key = row[u].key
    BY <1>1, <1>3 DEF SetStatus, Rows
  <2>2. changes' \in Gens
    BY <1>1, <1>3 DEF SetStatus, Change, Gens
  <2> QED  BY <1>2, <1>3, <2>1, <2>2 DEF SetStatus
<1>4. ASSUME NEW p \in Procs, Move(p, t) PROVE IInv'
  <2>1. changes' \in Gens
    <3>1. Change
      BY <1>4 DEF Move
    <3> QED  BY <1>1, <3>1 DEF Change, Gens
  <2>2. row' = [row EXCEPT ![t] = [row[t] EXCEPT !.host = changes', !.pw = changes', !.key = Primary(p)]]
    BY <1>4 DEF Move
  <2>3. Primary(p) \in {1, 2} /\ (ring[p] # "old" => Primary(p) = 2)
    BY DEF Primary
  <2>4. row' \in [Tenants -> Rows]
    BY <1>1, <2>1, <2>2, <2>3 DEF Rows
  <2>5. row'[t].key = Primary(p) /\ \A u \in Tenants : u # t => row'[u] = row[u]
    BY <1>1, <2>2 DEF Rows
  <2>6. rot.at # "before" => \A u \in Tenants : row'[u].key = row[u].key \/ row'[u].key = 2
    BY <1>1, <2>3, <2>5 DEF RotationSound
  <2>7. UNCHANGED <<ring, rot, Server_>>
    BY <1>4 DEF Move
  <2>8. TypeOK'
    BY <1>1, <2>1, <2>4, <2>7 DEF TypeOK, Server_
  <2>9. RotationSound'
    BY <1>1, <2>6, <2>7 DEF RotationSound
  <2> QED  BY <2>7, <2>8, <2>9, ServerAlone DEF IInv
<1>5. CASE Migrated(t)
  <2>1. row' \in [Tenants -> Rows] /\ \A u \in Tenants : row'[u].key = row[u].key
    BY <1>1, <1>5 DEF Migrated, Rows
  <2> QED  BY <1>1, <1>2, <1>5, <2>1 DEF Migrated, TypeOK
<1> QED  BY <1>3, <1>4, <1>5

\* A restart of Server leaves no pool and no request behind.
LEMMA RestartKeeps ==
  ASSUME IInv, NEW p \in Procs, NEW keys \in {"old", "both", "new"}, Restart(p, keys),
         UNCHANGED <<row, rot, changes>>
  PROVE  /\ TypeOK' /\ OnePoolPerTenant' /\ NoPoolLeaks'
         /\ ring'[p] = keys /\ \A q \in Procs : q # p => ring'[q] = ring[q]
<1>1. TypeOK /\ ring \in [Procs -> {"old", "both", "new"}]
  BY DEF IInv, TypeOK
<1>2. /\ ring' \in [Procs -> {"old", "both", "new"}]
      /\ ring'[p] = keys /\ \A q \in Procs : q # p => ring'[q] = ring[q]
  BY <1>1 DEF Restart
<1>3. CASE p = Server
  <2>1. /\ cache' = [t \in Tenants |-> NoRec] /\ lru' = <<>> /\ open' = 0
        /\ req' = [r \in Requests |-> Idle]
    BY <1>3 DEF Restart
  <2>2. Idle \in Request /\ Idle.at = None
    BY PoolsAssumption DEF Idle, Request, Places, Gens
  <2>3. TypeOK'
    BY <1>1, <1>2, <2>1, <2>2, PoolsAssumption DEF TypeOK
  <2>4. Inserting' = {}
    BY <2>1, <2>2 DEF Inserting, None
  <2>5. NoPoolLeaks'
    BY <2>1, <2>4, FS_EmptySet DEF NoPoolLeaks
  <2>6. OnePoolPerTenant'
    BY <2>1 DEF OnePoolPerTenant
  <2> QED  BY <1>2, <2>3, <2>5, <2>6
<1>4. CASE p # Server
  <2>1. UNCHANGED Server_
    BY <1>4 DEF Restart
  <2>2. TypeOK'
    BY <1>1, <1>2, <2>1 DEF TypeOK, Server_
  <2> QED  BY <1>2, <2>1, <2>2, ServerAlone
<1> QED  BY <1>3, <1>4

\* The rotation, whoever interrupts it, and the restarts around it.
LEMMA RotationSteps ==
  ASSUME IInv,
         \/ \E p \in Procs : DeployNew(p) \/ DropOld(p)
         \/ RotateRead \/ (\E x \in rot.read : RotateWrite(x)) \/ RotateStops
  PROVE  IInv'
<1>1. /\ TypeOK /\ RotationSound /\ row \in [Tenants -> Rows]
      /\ ring \in [Procs -> {"old", "both", "new"}]
      /\ rot \in [at: {"before", "running", "done"}, read: SUBSET [t: Tenants, pw: Gens]]
  BY DEF IInv, TypeOK
<1>2. ASSUME NEW p \in Procs, DeployNew(p) PROVE IInv'
  <2>1. /\ TypeOK' /\ OnePoolPerTenant' /\ NoPoolLeaks'
        /\ ring'[p] = "both" /\ \A q \in Procs : q # p => ring'[q] = ring[q]
    BY <1>2, RestartKeeps DEF DeployNew
  <2>2. RotationSound'
    BY <1>1, <1>2, <2>1 DEF RotationSound, DeployNew
  <2> QED  BY <2>1, <2>2 DEF IInv
<1>3. ASSUME NEW p \in Procs, DropOld(p) PROVE IInv'
  <2>1. /\ TypeOK' /\ OnePoolPerTenant' /\ NoPoolLeaks'
        /\ ring'[p] = "new" /\ \A q \in Procs : q # p => ring'[q] = ring[q]
    BY <1>3, RestartKeeps DEF DropOld
  <2>2. RotationSound'
    BY <1>1, <1>3, <2>1 DEF RotationSound, DropOld
  <2> QED  BY <2>1, <2>2 DEF IInv
<1>4. CASE RotateRead
  <2> DEFINE read == {[t |-> t, pw |-> row[t].pw] : t \in {u \in Tenants : row[u].key # 2}}
  <2>1. /\ rot' = [at |-> "running", read |-> read] /\ \A p \in Procs : ring[p] = "both"
        /\ UNCHANGED <<row, ring, changes, Server_>>
    BY <1>4 DEF RotateRead
  <2>2. read \in SUBSET [t: Tenants, pw: Gens]
    BY <1>1 DEF Rows
  <2>3. \A t \in Tenants : row[t].key = 2 \/ \E x \in read : x.t = t
    <3> SUFFICES ASSUME NEW t \in Tenants, row[t].key # 2 PROVE \E x \in read : x.t = t
      OBVIOUS
    <3>1. [t |-> t, pw |-> row[t].pw] \in read
      OBVIOUS
    <3> QED  BY <3>1
  <2> HIDE DEF read
  <2>4. TypeOK'
    BY <1>1, <2>1, <2>2 DEF TypeOK, Server_
  <2>5. RotationSound'
    BY <1>1, <2>1, <2>3 DEF RotationSound
  <2> QED  BY <2>1, <2>4, <2>5, ServerAlone DEF IInv
<1>5. ASSUME NEW x \in rot.read, RotateWrite(x) PROVE IInv'
  <2>1. x.t \in Tenants /\ x.pw \in Gens
    BY <1>1, <1>5
  <2>2. /\ row' = [row EXCEPT ![x.t] = [row[x.t] EXCEPT !.pw = x.pw, !.key = 2]]
        /\ rot.at = "running" /\ rot' = [rot EXCEPT !.read = @ \ {x}]
        /\ UNCHANGED <<ring, changes, Server_>>
    BY <1>5 DEF RotateWrite
  <2>3. row' \in [Tenants -> Rows]
    BY <1>1, <2>1, <2>2 DEF Rows
  <2>4. row'[x.t].key = 2 /\ \A u \in Tenants : u # x.t => row'[u] = row[u]
    BY <1>1, <2>1, <2>2 DEF Rows
  <2>5. rot'.at = rot.at /\ rot'.read = rot.read \ {x}
    BY <1>1, <2>2
  <2>6. rot' \in [at: {"before", "running", "done"}, read: SUBSET [t: Tenants, pw: Gens]]
    BY <1>1, <2>2
  <2>7. TypeOK'
    BY <1>1, <2>2, <2>3, <2>6 DEF TypeOK, Server_
  <2>8. RotationSound'
    BY <1>1, <2>2, <2>4, <2>5 DEF RotationSound
  <2> QED  BY <2>2, <2>7, <2>8, ServerAlone DEF IInv
<1>6. CASE RotateStops
  <2>1. TypeOK'
    BY <1>1, <1>6 DEF TypeOK, RotateStops, Server_
  <2>2. RotationSound'
    BY <1>1, <1>6 DEF RotationSound, RotateStops
  <2> QED  BY <1>6, <2>1, <2>2, ServerAlone DEF RotateStops, IInv
<1> QED  BY <1>2, <1>3, <1>4, <1>5, <1>6

-----------------------------------------------------------------------------
(* The theorems.                                                             *)

\* The inductive invariant holds in every reachable state.
THEOREM Invariance == Spec => []IInv
<1>1. Init => IInv
  <2> SUFFICES ASSUME Init PROVE IInv
    OBVIOUS
  <2>1. 0 \in Gens
    BY PoolsAssumption DEF Gens
  <2>2. /\ row \in [Tenants -> Rows] /\ cache \in [Tenants -> Rows \cup {NoRec}]
        /\ ring \in [Procs -> {"old", "both", "new"}]
        /\ rot = [at |-> "before", read |-> {}]
    BY <2>1 DEF Init, Rows
  <2>3. Idle \in Request /\ Idle.at = None
    BY <2>1 DEF Idle, Request, Places
  <2>4. lru \in Seq(Pool) /\ Len(lru) = 0 /\ open = 0 /\ changes = 0
    BY DEF Init
  <2>5. TypeOK
    BY <2>1, <2>2, <2>3, <2>4, PoolsAssumption DEF TypeOK, Init
  <2>6. Inserting = {}
    BY <2>3 DEF Inserting, Init, None
  <2>7. NoPoolLeaks
    BY <2>4, <2>6, FS_EmptySet DEF NoPoolLeaks
  <2>8. OnePoolPerTenant /\ RotationSound
    BY <2>2, <2>4 DEF OnePoolPerTenant, RotationSound, Init
  <2> QED  BY <2>5, <2>7, <2>8 DEF IInv
<1>2. IInv /\ [Next]_vars => IInv'
  <2> SUFFICES ASSUME IInv, [Next]_vars PROVE IInv'
    OBVIOUS
  <2>1. ASSUME NEW r \in Requests, Step(r) \/ \E t \in Tenants : Start(r, t) PROVE IInv'
    BY <2>1, RequestSteps
  <2>2. ASSUME NEW t \in Edited,
               \/ \E to \in {"active", "suspended", "deleting"} : SetStatus(t, to)
               \/ \E p \in Procs : Move(p, t)
               \/ Migrated(t)
        PROVE IInv'
    BY <2>2, RegistrySteps
  <2>3. CASE \/ \E p \in Procs : DeployNew(p) \/ DropOld(p)
             \/ RotateRead \/ (\E x \in rot.read : RotateWrite(x)) \/ RotateStops
    BY <2>3, RotationSteps
  <2>4. ASSUME NEW t \in Tenants, Expires(t) PROVE IInv'
    <3>1. cache' \in [Tenants -> Rows \cup {NoRec}]
      BY <2>4 DEF Expires, IInv, TypeOK
    <3>2. TypeOK' /\ RotationSound'
      BY <2>4, <3>1 DEF Expires, IInv, TypeOK, RotationSound, Registry_
    <3>3. Inserting' = Inserting
      BY <2>4 DEF Inserting, Expires
    <3> QED  BY <2>4, <3>2, <3>3 DEF IInv, Expires, OnePoolPerTenant, NoPoolLeaks
  <2>5. CASE UNCHANGED vars
    <3>1. Inserting' = Inserting
      BY <2>5 DEF Inserting, vars
    <3> QED  BY <2>5, <3>1 DEF IInv, TypeOK, OnePoolPerTenant, NoPoolLeaks, RotationSound, vars
  <2> QED  BY <2>1, <2>2, <2>3, <2>4, <2>5 DEF Next
<1> QED  BY <1>1, <1>2, PTL DEF Spec

\* Every state of the resolver and of the registry is well formed: the cache of pools stays
\* within its cap, and a request that is under way is one of a known tenant.
THEOREM TypeCorrect == Spec => []TypeOK
<1>1. IInv => TypeOK
  BY DEF IInv
<1> QED  BY <1>1, Invariance, PTL

\* Whatever requests race to build the pool of a tenant, whatever is evicted and however often
\* the process restarts, a dialled pool is in the cache, in the hands of the request that
\* dialled it, or closed.
THEOREM NoPoolLeaksAlways == Spec => []NoPoolLeaks
<1>1. IInv => NoPoolLeaks
  BY DEF IInv
<1> QED  BY <1>1, Invariance, PTL

\* In a fleet of any size that has been given the new key, every process opens every recorded
\* password at every point of the rotation and after it.
THEOREM SecretsOpenAlways == Spec => []SecretsOpen
<1>1. IInv => SecretsOpen
  <2> SUFFICES ASSUME IInv, \A p \in Procs : ring[p] # "old", NEW p \in Procs, NEW t \in Tenants
               PROVE  row[t].key \in Opens(p)
    BY DEF SecretsOpen
  <2>1. row[t].key \in {1, 2} /\ ring[p] \in {"both", "new"}
    BY DEF IInv, TypeOK, Rows
  <2>2. CASE ring[p] = "both"
    BY <2>1, <2>2 DEF Opens
  <2>3. CASE ring[p] = "new"
    BY <2>1, <2>3 DEF Opens, IInv, RotationSound
  <2> QED  BY <2>1, <2>2, <2>3
<1> QED  BY <1>1, Invariance, PTL
=============================================================================
