---------------------------- MODULE DocumentStore ----------------------------
(***************************************************************************)
(* The documents of ONE source in a tenant database, and everything that   *)
(* writes them: the ingestion sink driven by the attempts of a sync job,   *)
(* the admin's soft delete, the delete_source job and the retention        *)
(* garbage collector.  An action is one SQL statement or one transaction   *)
(* of internal/documents, or one external call of internal/ingest/sink,    *)
(* so every interleaving that Postgres (READ COMMITTED) allows between     *)
(* them is a behaviour.                                                    *)
(*                                                                         *)
(* Data is abstracted to what the properties tell apart: a content hash    *)
(* stands for the normalised text, TextOf for the embed-texts of its       *)
(* chunks, and a vector is the pair of the text it was computed of and the *)
(* model it was computed by.                                               *)
(***************************************************************************)
EXTENDS Integers, FiniteSets

CONSTANTS
  Docs,        \* external ids of the source
  Hashes,      \* content hashes of normalised documents
  Texts,       \* embed-texts of chunks
  TextOf,      \* TextOf[h]: the embed-texts of the chunks of h
  Models,      \* embedding models the tenant may configure
  Workers,     \* worker slots that can execute an attempt of the sync job
  NoHash,      \* documents.current_version is null
  NoVersion,   \* no document_versions row
  Retention,   \* GCPolicy.VersionRetention and DeletedDocRetention, in whole ticks of the clock
  BatchSize,   \* GCPolicy.BatchSize
  MaxTime,     \* bound on the clock
  MaxJobs      \* bound on the sync jobs created

Time  == 0..MaxTime
Null  == -1
Vec   == [of: Texts, by: Models]
Chunk == [text: Texts, model: Models, vec: Vec]

\* The chunk rows of content h fully embedded by model m (sink.putInput).
Whole(h, m) == {[text |-> t, model |-> m, vec |-> [of |-> t, by |-> m]] : t \in TextOf[h]}

VersionRow == [created: Time, chunks: SUBSET Chunk]
DocRow == [status: {"absent", "active", "deleted"}, cur: Hashes \cup {NoHash},
           seen: Time, deletedAt: Time \cup {Null}]
Absent == [status |-> "absent", cur |-> NoHash, seen |-> 0, deletedAt |-> Null]

ASSUME ConstantsAssumption ==
  /\ TextOf \in [Hashes -> SUBSET Texts]
  /\ Models # {}
  /\ NoHash \notin Hashes
  /\ NoVersion \notin VersionRow
  /\ Retention \in Nat
  /\ BatchSize \in Nat \ {0}
  /\ MaxTime \in Nat
  /\ MaxJobs \in Nat

VARIABLES
  now,   \* the tenant database's clock
  doc,   \* documents rows by external id
  ver,   \* document_versions rows with their chunks, by (document, content_hash)
  job,   \* the source's current sync_source job: River row and, as history, what it ingested
  exec,  \* per worker: the attempt it executes (sink.Sink with its Config)
  put,   \* per worker and document: the Sink.Put call in flight
  gc     \* the CollectGarbage call

vars == <<now, doc, ver, job, exec, put, gc>>

Idle    == [pc |-> "idle", job |-> 0, full |-> FALSE, since |-> 0,
            model |-> CHOOSE m \in Models : TRUE, sawDoc |-> FALSE]
NoPut   == [pc |-> "none", hash |-> NoHash, chunks |-> {}]
NoSweep == [pc |-> "idle", cutoff |-> 0, versions |-> {}, docs |-> {}]

PutPC == {"none", "lookup", "embed", "read", "touch", "commit"}
GcPC  == {"idle", "versions", "delVersions", "docs", "delDocs"}

JobRow  == [id: 0..MaxJobs, active: BOOLEAN, full: BOOLEAN, since: Time, ingested: SUBSET Docs]
Attempt == [pc: {"idle", "running"}, job: 0..MaxJobs, full: BOOLEAN, since: Time,
            model: Models, sawDoc: BOOLEAN]
PutCall == {NoPut} \cup [pc: PutPC \ {"none"}, hash: Hashes, chunks: SUBSET Chunk]
GcCall  == [pc: GcPC, cutoff: Int, versions: SUBSET (Docs \X Hashes), docs: SUBSET Docs]

TypeOK ==
  /\ now \in Time
  /\ doc \in [Docs -> DocRow]
  /\ ver \in [Docs -> [Hashes -> VersionRow \cup {NoVersion}]]
  /\ job \in JobRow
  /\ exec \in [Workers -> Attempt]
  /\ put \in [Workers -> [Docs -> PutCall]]
  /\ gc \in GcCall

Init ==
  /\ now = 0
  /\ doc = [d \in Docs |-> Absent]
  /\ ver = [d \in Docs |-> [h \in Hashes |-> NoVersion]]
  /\ job = [id |-> 0, active |-> FALSE, full |-> FALSE, since |-> 0, ingested |-> {}]
  /\ exec = [w \in Workers |-> Idle]
  /\ put = [w \in Workers |-> [d \in Docs |-> NoPut]]
  /\ gc = NoSweep

Tick == /\ now < MaxTime
        /\ now' = now + 1
        /\ UNCHANGED <<doc, ver, job, exec, put, gc>>

-----------------------------------------------------------------------------
(* The sync job and its attempts.                                          *)

\* One sync_source job per source is active at a time (River uniqueness).
EnqueueSync(full) ==
  /\ ~job.active
  /\ job.id < MaxJobs
  /\ job' = [id |-> job.id + 1, active |-> TRUE, full |-> full, since |-> now,
             ingested |-> {}]
  /\ UNCHANGED <<now, doc, ver, exec, put, gc>>

\* Variant for mutation: the boundary is the start of the attempt.
SeenSinceAttemptStart == now

\* The delete boundary of a full sync: the job's CreatedAt, stable across retries.
SeenSince == job.since

\* syncWorker.Work up to conn.Sync.  A second worker may start while a first one
\* still executes.  The attempt timeout is below RescueStuckJobsAfter, so only a
\* worker that is paused or cut off outlives the rescue of its job; the model does
\* not rely on it never happening.
StartAttempt(w, m) ==
  /\ job.active
  /\ exec[w].pc = "idle"
  /\ exec' = [exec EXCEPT ![w] = [pc |-> "running", job |-> job.id, full |-> job.full,
                                  since |-> SeenSince, model |-> m, sawDoc |-> FALSE]]
  /\ UNCHANGED <<now, doc, ver, job, put, gc>>

\* A crash, a timeout or a returned error ends the attempt; what it committed stays.
FailAttempt(w) ==
  /\ exec[w].pc = "running"
  /\ exec' = [exec EXCEPT ![w] = Idle]
  /\ put' = [put EXCEPT ![w] = [d \in Docs |-> NoPut]]
  /\ UNCHANGED <<now, doc, ver, job, gc>>

\* River discards the job after its last attempt, or an operator cancels it.
DiscardJob ==
  /\ job.active
  /\ job' = [job EXCEPT !.active = FALSE]
  /\ UNCHANGED <<now, doc, ver, exec, put, gc>>

-----------------------------------------------------------------------------
(* Sink.Put, one action per statement or external call.                    *)

\* A document is being put by attempt w; the connector may have several in flight.
InFlight(w, d, pc) == exec[w].pc = "running" /\ put[w][d].pc = pc

\* The call goes on to its next stage, or returns.
Advance(w, d, pc, chunks) ==
  put' = [put EXCEPT ![w][d] = [pc |-> pc, hash |-> put[w][d].hash, chunks |-> chunks]]
Leave(w, d) == put' = [put EXCEPT ![w][d] = NoPut]

\* History only: the series of w's job has ingested d.
Ingested(w, d) ==
  job' = IF exec[w].job = job.id THEN [job EXCEPT !.ingested = job.ingested \cup {d}] ELSE job

\* Sink.Put: DocsSeen++ and a parse error, recorded and skipped, or a failed touch.
ParseFails(w, d) ==
  /\ InFlight(w, d, "none")
  /\ exec' = [exec EXCEPT ![w].sawDoc = TRUE]
  /\ UNCHANGED <<now, doc, ver, job, put, gc>>

\* TenantStore.TouchIfUnchanged matched: touch, and restore a soft-deleted row.
Touched(row) == [row EXCEPT !.seen = now, !.status = "active", !.deletedAt = Null]

\* Sink.Put: DocsSeen++, parse, hash, TouchIfUnchanged.
TouchIfUnchanged(w, d, h) ==
  /\ InFlight(w, d, "none")
  /\ exec' = [exec EXCEPT ![w].sawDoc = TRUE]
  /\ \/ /\ doc[d].cur = h
        /\ doc' = [doc EXCEPT ![d] = Touched(doc[d])]
        /\ Ingested(w, d)
        /\ UNCHANGED put
     \/ /\ doc[d].cur # h
        /\ put' = [put EXCEPT ![w][d] = [pc |-> "lookup", hash |-> h, chunks |-> {}]]
        /\ UNCHANGED <<doc, job>>
  /\ UNCHANGED <<now, ver, gc>>

\* Chunk rows stored for any version of any document of the tenant.
StoredChunks ==
  UNION {ver[p[1]][p[2]].chunks : p \in {q \in Docs \X Hashes : ver[q[1]][q[2]] # NoVersion}}

\* Variant for mutation: the lookup ignores content_hash.
CacheHitsAnyContent(h, m) == {c \in StoredChunks : c.model = m}

\* embedcache.Lookup: stored vectors for (content_hash, embedding_model).
CacheHits(h, m) == {c \in StoredChunks : c.model = m /\ c.text \in TextOf[h]}

Lookup(w, d) ==
  /\ InFlight(w, d, "lookup")
  /\ Advance(w, d, "embed", CacheHits(put[w][d].hash, exec[w].model))
  /\ UNCHANGED <<now, doc, ver, job, exec, gc>>

\* Embedder.Embed of the misses, stamped with the configured model.
Misses(h, m, hits) ==
  {[text |-> t, model |-> m, vec |-> [of |-> t, by |-> m]] :
      t \in TextOf[h] \ {c.text : c \in hits}}

Embed(w, d) ==
  /\ InFlight(w, d, "embed")
  /\ LET hits == put[w][d].chunks
     IN  Advance(w, d, "read", hits \cup Misses(put[w][d].hash, exec[w].model, hits))
  /\ UNCHANGED <<now, doc, ver, job, exec, gc>>

\* TenantStore.Put reads the current version's hash outside the transaction.
PutRead(w, d) ==
  /\ InFlight(w, d, "read")
  /\ Advance(w, d, IF doc[d].cur = put[w][d].hash THEN "touch" ELSE "commit", put[w][d].chunks)
  /\ UNCHANGED <<now, doc, ver, job, exec, gc>>

\* TenantStore.Put, unchanged: last_seen_at only, and no row if it is gone.  (By row
\* id in the code: a row made again since the read would not be touched.)
PutTouch(w, d) ==
  /\ InFlight(w, d, "touch")
  /\ doc' = IF doc[d].status = "absent" THEN doc ELSE [doc EXCEPT ![d].seen = now]
  /\ Leave(w, d)
  /\ UNCHANGED <<now, ver, job, exec, gc>>

\* Variant for mutation: a reused version has its chunks written again.
VersionsRewritten(d, h, chunks) == [ver EXCEPT ![d][h] = [created |-> now, chunks |-> chunks]]

\* The version rows after a commit: an existing (document, hash) version is reused
\* with the chunks it has, a new one is inserted with its chunks.
VersionsAfterPut(d, h, chunks) ==
  IF ver[d][h] # NoVersion
  THEN ver
  ELSE [ver EXCEPT ![d][h] = [created |-> now, chunks |-> chunks]]

\* TenantStore.Put, new or changed: one transaction.  deleted_at is not cleared.
PutCommit(w, d) ==
  /\ InFlight(w, d, "commit")
  /\ ver' = VersionsAfterPut(d, put[w][d].hash, put[w][d].chunks)
  /\ doc' = [doc EXCEPT ![d] = [status |-> "active", cur |-> put[w][d].hash, seen |-> now,
                                deletedAt |-> doc[d].deletedAt]]
  /\ Ingested(w, d)
  /\ Leave(w, d)
  /\ UNCHANGED <<now, exec, gc>>

\* Put ends with a recorded failure, a snooze or a store error (the transaction
\* rolls back) and the connector goes on; FailAttempt is the connector that stops.
PutFails(w, d) ==
  /\ \E pc \in PutPC \ {"none"} : InFlight(w, d, pc)
  /\ Leave(w, d)
  /\ UNCHANGED <<now, doc, ver, job, exec, gc>>

-----------------------------------------------------------------------------
(* Sink.Complete.                                                          *)

\* TenantStore.SoftDeleteUnseen.
Unseen(since) == {d \in Docs : doc[d].status = "active" /\ doc[d].seen < since}

SoftDeleteRow(row) == [row EXCEPT !.status = "deleted", !.deletedAt = now]

SoftDeleteUnseen(since) ==
  doc' = [d \in Docs |-> IF d \in Unseen(since) THEN SoftDeleteRow(doc[d]) ELSE doc[d]]

\* Every Put has returned; the attempt succeeds and River completes its job.
Complete(w) ==
  /\ exec[w].pc = "running"
  /\ \A d \in Docs : put[w][d].pc = "none"
  /\ IF exec[w].full /\ exec[w].sawDoc THEN SoftDeleteUnseen(exec[w].since) ELSE UNCHANGED doc
  /\ job' = IF exec[w].job = job.id THEN [job EXCEPT !.active = FALSE] ELSE job
  /\ exec' = [exec EXCEPT ![w] = Idle]
  /\ UNCHANGED <<now, ver, put, gc>>

-----------------------------------------------------------------------------
(* The other writers.                                                      *)

\* TenantStore.SoftDelete (the admin API); history forgets the document.
SoftDelete(d) ==
  /\ doc[d].status = "active"
  /\ doc' = [doc EXCEPT ![d] = SoftDeleteRow(doc[d])]
  /\ job' = [job EXCEPT !.ingested = @ \ {d}]
  /\ UNCHANGED <<now, ver, exec, put, gc>>

\* TenantStore.DeleteSource: one transaction.  Row ids the collector holds vanish.
DeleteSource ==
  /\ doc' = [d \in Docs |-> Absent]
  /\ ver' = [d \in Docs |-> [h \in Hashes |-> NoVersion]]
  /\ job' = [job EXCEPT !.ingested = {}]
  /\ gc' = [gc EXCEPT !.versions = {}, !.docs = {}]
  /\ UNCHANGED <<now, exec, put>>

-----------------------------------------------------------------------------
(* CollectGarbage.  A batch is one statement, but its victims are chosen   *)
(* from the statement's snapshot and the rows are locked and deleted       *)
(* later, without testing the victim condition again: two steps.           *)

GCStart ==
  /\ gc.pc = "idle"
  /\ gc' = [NoSweep EXCEPT !.pc = "versions", !.cutoff = now - Retention]
  /\ UNCHANGED <<now, doc, ver, job, exec, put>>

\* "limit": a set is a batch of eligible rows if it is as large as the limit allows.
IsBatch(S, eligible) ==
  /\ S \subseteq eligible
  /\ Cardinality(S) = IF Cardinality(eligible) < BatchSize THEN Cardinality(eligible) ELSE BatchSize

OldVersions(cutoff) ==
  {p \in Docs \X Hashes : /\ ver[p[1]][p[2]] # NoVersion
                          /\ ver[p[1]][p[2]].created < cutoff
                          /\ doc[p[1]].cur # p[2]}

GCPickVersions ==
  /\ gc.pc = "versions"
  /\ \E S \in SUBSET OldVersions(gc.cutoff) :
       /\ IsBatch(S, OldVersions(gc.cutoff))
       /\ \A p \in S, q \in OldVersions(gc.cutoff) \ S :
            ver[p[1]][p[2]].created <= ver[q[1]][q[2]].created
       /\ gc' = [gc EXCEPT !.pc = "delVersions", !.versions = S]
  /\ UNCHANGED <<now, doc, ver, job, exec, put>>

\* Variant for mutation: the schema has no such foreign key.
ForeignKeyIgnored == TRUE

\* The foreign key documents.current_version, checked when the delete commits.
ForeignKeyHolds == \A p \in gc.versions : doc[p[1]].cur # p[2]

\* Deletes the batch (chunks cascade); a version re-pointed at since the snapshot
\* makes the statement fail and the collector return its error.
GCDeleteVersions ==
  /\ gc.pc = "delVersions"
  /\ \/ /\ ForeignKeyHolds
        /\ ver' = [d \in Docs |-> [h \in Hashes |->
                     IF <<d, h>> \in gc.versions THEN NoVersion ELSE ver[d][h]]]
        /\ gc' = [gc EXCEPT !.pc = IF Cardinality(gc.versions) < BatchSize THEN "docs" ELSE "versions",
                            !.versions = {}]
     \/ /\ ~ForeignKeyHolds
        /\ gc' = NoSweep
        /\ UNCHANGED ver
  /\ UNCHANGED <<now, doc, job, exec, put>>

ExpiredDocs(cutoff) ==
  {d \in Docs : doc[d].status = "deleted" /\ doc[d].deletedAt # Null /\ doc[d].deletedAt < cutoff}

GCPickDocs ==
  /\ gc.pc = "docs"
  /\ \E S \in SUBSET ExpiredDocs(gc.cutoff) :
       /\ IsBatch(S, ExpiredDocs(gc.cutoff))
       /\ \A d \in S, e \in ExpiredDocs(gc.cutoff) \ S : doc[d].deletedAt <= doc[e].deletedAt
       /\ gc' = [gc EXCEPT !.pc = "delDocs", !.docs = S]
  /\ UNCHANGED <<now, doc, ver, job, exec, put>>

\* The document rows go, their versions and chunks cascade.
GCDeleteDocs ==
  /\ gc.pc = "delDocs"
  /\ doc' = [d \in Docs |-> IF d \in gc.docs THEN Absent ELSE doc[d]]
  /\ ver' = [d \in Docs |-> IF d \in gc.docs THEN [h \in Hashes |-> NoVersion] ELSE ver[d]]
  /\ gc' = IF Cardinality(gc.docs) < BatchSize THEN NoSweep ELSE [gc EXCEPT !.pc = "docs", !.docs = {}]
  /\ UNCHANGED <<now, job, exec, put>>

\* A statement fails or the worker dies: batches already deleted stay deleted.
GCFail ==
  /\ gc.pc # "idle"
  /\ gc' = NoSweep
  /\ UNCHANGED <<now, doc, ver, job, exec, put>>

-----------------------------------------------------------------------------
SinkStep(w, d) ==
  \/ ParseFails(w, d)
  \/ \E h \in Hashes : TouchIfUnchanged(w, d, h)
  \/ Lookup(w, d) \/ Embed(w, d) \/ PutRead(w, d) \/ PutTouch(w, d) \/ PutCommit(w, d)
  \/ PutFails(w, d)

JobStep ==
  \/ \E full \in BOOLEAN : EnqueueSync(full)
  \/ \E w \in Workers, m \in Models : StartAttempt(w, m)
  \/ \E w \in Workers : FailAttempt(w) \/ Complete(w)
  \/ DiscardJob

GCStep == GCStart \/ GCPickVersions \/ GCDeleteVersions \/ GCPickDocs \/ GCDeleteDocs \/ GCFail

Next ==
  \/ Tick
  \/ JobStep
  \/ \E w \in Workers, d \in Docs : SinkStep(w, d)
  \/ \E d \in Docs : SoftDelete(d)
  \/ DeleteSource
  \/ GCStep

Spec == Init /\ [][Next]_vars

-----------------------------------------------------------------------------
(* Properties.                                                             *)

\* What a query sees of d through the live_chunks view: nothing, or the chunks of
\* the current version of an active document.
Hidden == [hash |-> NoHash, chunks |-> {}]
Live == [d \in Docs |->
           IF doc[d].status = "active" /\ doc[d].cur \in Hashes /\ ver[d][doc[d].cur] # NoVersion
           THEN [hash |-> doc[d].cur, chunks |-> ver[d][doc[d].cur].chunks]
           ELSE Hidden]

\* An active document has a current version, and that version has every chunk of
\* its content, each embedded of its own text by one model: Put's transaction
\* never leaves a half-built version live, whatever retries, rescues, vector reuse
\* and garbage collection happen around it (put.go, gc.go, embedcache.go).
LiveIsWhole ==
  \A d \in Docs : doc[d].status = "active" =>
     /\ doc[d].cur \in Hashes
     /\ ver[d][doc[d].cur] # NoVersion
     /\ \E m \in Models : ver[d][doc[d].cur].chunks = Whole(doc[d].cur, m)

\* Inductive strengthening of the two invariants, in four parts.
\* Every stored version is whole, live or not.
VersionsWhole ==
  \A d \in Docs, h \in Hashes : ver[d][h] # NoVersion =>
     \E m \in Models : ver[d][h].chunks = Whole(h, m)

\* A row has a current version, and it is stored.
CurrentStored ==
  \A d \in Docs :
     /\ doc[d].status = "absent" <=> doc[d].cur = NoHash
     /\ doc[d].cur # NoHash => ver[d][doc[d].cur] # NoVersion

\* What a Put in flight carries: reused vectors are right, and past Embed none is missing.
PutsSound ==
  \A w \in Workers, d \in Docs :
     /\ exec[w].pc = "idle" => put[w][d].pc = "none"
     /\ put[w][d].pc = "embed" => put[w][d].chunks \subseteq Whole(put[w][d].hash, exec[w].model)
     /\ put[w][d].pc \in {"read", "touch", "commit"} =>
          put[w][d].chunks = Whole(put[w][d].hash, exec[w].model)

\* No attempt has a delete boundary later than the current job's creation, and what
\* the job ingested was seen since then.
SeriesOrdered ==
  /\ job.since <= now
  /\ \A w \in Workers : exec[w].since <= job.since
  /\ \A d \in job.ingested : /\ doc[d].status # "deleted"
                             /\ doc[d].status = "active" => doc[d].seen >= job.since

IInv == TypeOK /\ VersionsWhole /\ CurrentStored /\ PutsSound /\ SeriesOrdered

\* A document that some attempt of the current job touched or committed is not
\* soft-deleted by the delete pass of that job (or of a stale attempt of an
\* earlier one), even when the attempt that completes did not see it itself
\* (sink.go Complete, sync.go SoftDeleteUnseen).
IngestedNotSwept == \A d \in job.ingested : doc[d].status # "deleted"

\* A stored version never changes: it is inserted with its chunks and later only
\* removed (put.go, Invariant 2).
VersionsImmutable ==
  [][\A d \in Docs, h \in Hashes :
        ver[d][h] # NoVersion /\ ver'[d][h] # NoVersion => ver'[d][h] = ver[d][h]]_vars

\* The specification a query relies on: see LiveIndex.
Index == INSTANCE LiveIndex WITH live <- Live
IndexSpec == Index!Spec
=============================================================================
