----------------------------- MODULE UploadIngest -----------------------------
(***************************************************************************)
(* An uploaded file on its way into the index, and the reindex that runs   *)
(* beside it: POST /v1/documents (idempotency lookup, object, job), the    *)
(* ingest_document job with its one-document sink and the embedder's       *)
(* batches behind a circuit breaker, the admin's delete, and the steps of  *)
(* the table-swap reindex.                                                 *)
(*                                                                         *)
(* A content stands for the bytes and their hash; its chunks are one row   *)
(* of the table, or none when the content is blank.  The stages of a       *)
(* store Put that race with another Put are in DocumentStore, the mirror   *)
(* of a job's River row is in JobMirror; both are one step here.  The      *)
(* driver that would call the reindexer's steps is a stub in the worker,   *)
(* so any order the package allows is a behaviour.                         *)
(***************************************************************************)
EXTENDS Integers, FiniteSets

CONSTANTS
  NFiles,       \* filenames 1..NFiles of the upload source, in document id order
  Contents,     \* contents of files
  Blank,        \* the content that has no chunks
  MaxUploads,   \* bound on the uploads
  Keyed,        \* the uploads that carry an Idempotency-Key
  MaxAttempts,  \* River's attempts of an ingest_document job
  Batches,      \* provider batches of one document
  Concurrency,  \* batches in flight
  Threshold,    \* consecutive failures that open the breaker
  BatchDocs,    \* live versions a reindex step reads
  MaxFaults     \* bound on what goes wrong, see Fault

Files   == 1..NFiles
Uploads == 1..MaxUploads

ASSUME UploadAssumption ==
  /\ NFiles \in Nat \ {0} /\ MaxUploads \in Nat \ {0} /\ MaxAttempts \in Nat \ {0}
  /\ Batches \in Nat \ {0} /\ Concurrency \in Nat \ {0} /\ Threshold \in Nat \ {0}
  /\ BatchDocs \in Nat \ {0} /\ MaxFaults \in Nat
  /\ Blank \in Contents /\ Keyed \subseteq Uploads

VARIABLES
  up,     \* the upload requests, in the order they arrive
  job,    \* the ingest_document job each upload created
  doc,    \* documents rows by filename; as history, the last upload whose job completed
  ver,    \* per filename: contents that have a document_versions row
  chunks, \* versions with rows in the table called chunks
  rx,     \* the reindex
  faults  \* how often something went wrong

vars == <<up, job, doc, ver, chunks, rx, faults>>

Fresh == [todo |-> Batches, busy |-> 0, fails |-> 0, breaker |-> "closed", err |-> "none"]
NoUpload == [pc |-> "none", file |-> 1, content |-> Blank, job |-> 0]
NoJob == [state |-> "none", attempt |-> 0, stage |-> "fetch", failed |-> FALSE, emb |-> Fresh]
NoDoc == [status |-> "absent", cur |-> Blank, ended |-> 0]
Versions == Files \X Contents

Upload == [pc: {"none", "looked", "stored", "accepted", "failed"}, file: Files, content: Contents,
           job: 0..MaxUploads]
Embedder == [todo: 0..Batches, busy: 0..Concurrency, fails: 0..(Threshold - 1),
             breaker: {"closed", "open", "half"}, err: {"none", "provider", "circuit"}]
Job == [state: {"none", "queued", "running", "done", "discarded", "reaped"}, attempt: 0..MaxAttempts,
        stage: {"fetch", "embed", "commit", "return"}, failed: BOOLEAN, emb: Embedder]
Document == [status: {"absent", "active", "deleted"}, cur: Contents, ended: 0..MaxUploads]
Reindex == [pc: {"off", "building", "verified", "swapped", "dropped"}, cursor: 0..NFiles,
            batch: SUBSET Versions, live: SUBSET Versions, behind: SUBSET Versions]

TypeOK ==
  /\ up \in [Uploads -> Upload] /\ job \in [Uploads -> Job] /\ doc \in [Files -> Document]
  /\ ver \in [Files -> SUBSET Contents] /\ chunks \subseteq Versions
  /\ rx \in Reindex /\ faults \in 0..MaxFaults

Init ==
  /\ up = [i \in Uploads |-> NoUpload]
  /\ job = [i \in Uploads |-> NoJob]
  /\ doc = [f \in Files |-> NoDoc]
  /\ ver = [f \in Files |-> {}]
  /\ chunks = {}
  /\ rx = [pc |-> "off", cursor |-> 0, batch |-> {}, live |-> {}, behind |-> {}]
  /\ faults = 0

\* Object storage or the enqueue fails; an attempt crashes or meets an infrastructure
\* error; the parser refuses the document; the provider fails a batch.
Fault == faults < MaxFaults /\ faults' = faults + 1

-----------------------------------------------------------------------------
(* POST /v1/documents: Handlers.Ingest, Service.Ingest.                    *)

Active(i) == job[i].state \in {"queued", "running"}

\* ControlJobs.FindActiveIngest: the active jobs with the request's key.  A client
\* that repeats a key sends the same file.
ActiveWithKey(f, c) == {i \in Uploads : Active(i) /\ i \in Keyed /\ up[i].file = f /\ up[i].content = c}

\* Accepted by the handler (size, type), looked up by its key: replayed, or goes on.
Ingest(i, f, c) ==
  /\ up[i].pc = "none"
  /\ \A j \in 1..(i - 1) : up[j].pc # "none"
  /\ LET found == IF i \in Keyed THEN ActiveWithKey(f, c) ELSE {}
     IN  \/ /\ found = {}
            /\ up' = [up EXCEPT ![i] = [pc |-> "looked", file |-> f, content |-> c, job |-> 0]]
         \/ \E j \in found :
              up' = [up EXCEPT ![i] = [pc |-> "accepted", file |-> f, content |-> c, job |-> j]]
  /\ UNCHANGED <<job, doc, ver, chunks, rx, faults>>

\* UploadSource.Resolve, then Storage.Put under a key of its own.
Store(i) ==
  /\ up[i].pc = "looked"
  /\ up' = [up EXCEPT ![i].pc = "stored"]
  /\ UNCHANGED <<job, doc, ver, chunks, rx, faults>>

\* Storage or the enqueue fails, or the process dies: no job, and an object put stays.
AcceptFails(i) ==
  /\ Fault /\ up[i].pc \in {"looked", "stored"}
  /\ up' = [up EXCEPT ![i].pc = "failed"]
  /\ UNCHANGED <<job, doc, ver, chunks, rx>>

\* IngestDocumentArgs.InsertOpts: unique by (source, filename) in River's default
\* states, a completed job included until River removes it.
Duplicates(f) == {j \in Uploads : up[j].file = f /\ job[j].state \in {"queued", "running", "done"}}

\* ControlJobs.EnqueueIngest, one transaction: the job and its row, or the row of the
\* job River took it for a duplicate of.
Enqueue(i) ==
  /\ up[i].pc = "stored"
  /\ LET dups == Duplicates(up[i].file)
     IN  \/ /\ dups = {}
            /\ up' = [up EXCEPT ![i].pc = "accepted", ![i].job = i]
            /\ job' = [job EXCEPT ![i].state = "queued"]
         \/ \E j \in dups :
              /\ up' = [up EXCEPT ![i].pc = "accepted", ![i].job = j]
              /\ UNCHANGED job
  /\ UNCHANGED <<doc, ver, chunks, rx, faults>>

-----------------------------------------------------------------------------
(* The ingest_document job: ingestWorker.Work, Ingestor.Dispatch and Run.  *)

FileOf(i) == up[i].file
ContentOf(i) == up[i].content
AtStage(i, stage) == job[i].state = "running" /\ job[i].stage = stage

\* Variant for mutation: the last attempt is never handed out.
StartAttemptBelow(i) ==
  /\ job[i].state = "queued" /\ job[i].attempt + 1 < MaxAttempts
  /\ job' = [job EXCEPT ![i] = [NoJob EXCEPT !.state = "running", !.attempt = job[i].attempt + 1]]
  /\ UNCHANGED <<up, doc, ver, chunks, rx, faults>>

\* An attempt begins: the tenant is opened, the settings read, and an embedder with a
\* breaker of its own is built.
StartAttempt(i) ==
  /\ job[i].state = "queued"
  /\ job' = [job EXCEPT ![i] = [NoJob EXCEPT !.state = "running", !.attempt = job[i].attempt + 1]]
  /\ UNCHANGED <<up, doc, ver, chunks, rx, faults>>

\* The attempt returns an error (tenant, object, settings, provider not allowed, store),
\* or times out, or its worker dies and River rescues the job.
AttemptFails(i) ==
  /\ Fault /\ job[i].state = "running"
  /\ job' = [job EXCEPT ![i] = IF job[i].attempt < MaxAttempts
                               THEN [NoJob EXCEPT !.state = "queued", !.attempt = job[i].attempt]
                               ELSE [NoJob EXCEPT !.state = "discarded"]]
  /\ UNCHANGED <<up, doc, ver, chunks, rx>>

\* Sink.recordFailure: the document is counted as failed and the job goes on to succeed.
RecordFailure(i) == job' = [job EXCEPT ![i].stage = "return", ![i].failed = TRUE]

\* The Go parser or the sidecar (its retries spent) refuses the document.
ParseFails(i) ==
  /\ Fault /\ AtStage(i, "fetch")
  /\ RecordFailure(i)
  /\ UNCHANGED <<up, doc, ver, chunks, rx>>

\* embedcache.Lookup: the same text has been embedded for some document.
Cached(c) == \E f \in Files : <<f, c>> \in chunks

\* Variant for mutation: unchanged means the content of any version.
UnchangedEver(f, c) == c \in ver[f]

\* TouchIfUnchanged: the content of the current version, deleted or not.
Unchanged(f, c) == doc[f].status # "absent" /\ doc[f].cur = c

\* Fetched and parsed: unchanged is touched and restored, else what is not in the cache
\* is embedded.
Fetch(i) ==
  /\ AtStage(i, "fetch")
  /\ LET f == FileOf(i)  c == ContentOf(i)
     IN  \/ /\ Unchanged(f, c)
            /\ doc' = [doc EXCEPT ![f].status = "active"]
            /\ job' = [job EXCEPT ![i].stage = "return"]
         \/ /\ ~Unchanged(f, c)
            /\ job' = [job EXCEPT ![i].stage = IF c = Blank \/ Cached(c) THEN "commit" ELSE "embed"]
            /\ UNCHANGED doc
  /\ UNCHANGED <<up, ver, chunks, rx, faults>>

\* batcher.Embed: a batch gets a slot and passes breaker.allow.  After the cooldown an
\* open breaker lets a trial through; batches begun meanwhile pass too.
BatchStarts(i) ==
  /\ AtStage(i, "embed") /\ job[i].emb.todo > 0 /\ job[i].emb.busy < Concurrency
  /\ job' = [job EXCEPT ![i].emb.todo = @ - 1, ![i].emb.busy = @ + 1,
                        ![i].emb.breaker = IF @ = "open" THEN "half" ELSE @]
  /\ UNCHANGED <<up, doc, ver, chunks, rx, faults>>

\* The first error is the one errgroup.Wait returns.
FirstErr(e, err) == IF e = "none" THEN err ELSE e

\* breaker.allow refuses: ErrCircuitOpen.
BatchRefused(i) ==
  /\ AtStage(i, "embed") /\ job[i].emb.todo > 0 /\ job[i].emb.busy < Concurrency
  /\ job[i].emb.breaker = "open"
  /\ job' = [job EXCEPT ![i].emb.todo = @ - 1, ![i].emb.err = FirstErr(@, "circuit")]
  /\ UNCHANGED <<up, doc, ver, chunks, rx, faults>>

\* breaker.record(nil): closes the breaker whatever its state.
BatchSucceeds(i) ==
  /\ AtStage(i, "embed") /\ job[i].emb.busy > 0
  /\ job' = [job EXCEPT ![i].emb.busy = @ - 1, ![i].emb.fails = 0, ![i].emb.breaker = "closed"]
  /\ UNCHANGED <<up, doc, ver, chunks, rx, faults>>

\* Retries spent, a terminal status, a short answer, or the group's context cancelled by
\* an earlier failure: breaker.record(err).
Trips(e) == e.breaker = "half" \/ e.fails + 1 >= Threshold
BatchFails(i) ==
  /\ Fault /\ AtStage(i, "embed") /\ job[i].emb.busy > 0
  /\ LET e == job[i].emb
     IN  job' = [job EXCEPT ![i].emb = [e EXCEPT
                   !.busy = e.busy - 1, !.err = FirstErr(e.err, "provider"),
                   !.fails = IF Trips(e) THEN 0 ELSE e.fails + 1,
                   !.breaker = IF Trips(e) THEN "open" ELSE e.breaker]]
  /\ UNCHANGED <<up, doc, ver, chunks, rx>>

\* g.Wait: an open circuit snoozes the job (the attempt is not counted), any other
\* error is recorded and the job succeeds.
EmbedReturns(i) ==
  /\ AtStage(i, "embed") /\ job[i].emb.todo = 0 /\ job[i].emb.busy = 0
  /\ CASE job[i].emb.err = "none"     -> job' = [job EXCEPT ![i].stage = "commit"]
       [] job[i].emb.err = "circuit"  -> job' = [job EXCEPT ![i] = [NoJob EXCEPT !.state = "queued", !.attempt = job[i].attempt - 1]]
       [] job[i].emb.err = "provider" -> RecordFailure(i)
  /\ UNCHANGED <<up, doc, ver, chunks, rx, faults>>

\* TenantStore.Put, one transaction: a new version with its chunks, or the version this
\* content has, with the chunks it has; current_version is flipped to it.
Commit(i) ==
  /\ AtStage(i, "commit")
  /\ LET f == FileOf(i)  c == ContentOf(i)
     IN  /\ doc' = [doc EXCEPT ![f].status = "active", ![f].cur = c]
         /\ ver' = [ver EXCEPT ![f] = @ \cup {c}]
         /\ chunks' = IF c = Blank \/ c \in ver[f] THEN chunks ELSE chunks \cup {<<f, c>>}
  /\ job' = [job EXCEPT ![i].stage = "return"]
  /\ UNCHANGED <<up, rx, faults>>

\* Work returns nil and River completes the job.
Return(i) ==
  /\ AtStage(i, "return")
  /\ job' = [job EXCEPT ![i] = [NoJob EXCEPT !.state = "done", !.failed = job[i].failed]]
  /\ doc' = [doc EXCEPT ![FileOf(i)].ended = i]
  /\ UNCHANGED <<up, ver, chunks, rx, faults>>

\* River removes a completed job a day later.
Reap(i) ==
  /\ job[i].state = "done"
  /\ job' = [job EXCEPT ![i].state = "reaped"]
  /\ UNCHANGED <<up, doc, ver, chunks, rx, faults>>

\* DELETE /v1/documents/{id}: Service.Delete, TenantStore.SoftDelete.
Delete(f) ==
  /\ doc[f].status = "active"
  /\ doc' = [doc EXCEPT ![f].status = "deleted"]
  /\ UNCHANGED <<up, job, ver, chunks, rx, faults>>

-----------------------------------------------------------------------------
(* The reindex.  chunks_new is created with chunks' columns, content_hash  *)
(* NOT NULL among them, and InsertChunksNew does not write content_hash:   *)
(* a version that has rows is refused, and chunks_new stays empty.         *)

LiveVersions == {<<f, doc[f].cur>> : f \in {g \in Files : doc[g].status = "active"}}

\* Reindexer.Prepare, CreateChunksNew: left in place when it exists; a second reindex
\* collides with the index names the first one left behind.
Prepare ==
  /\ rx.pc = "off"
  /\ rx' = [rx EXCEPT !.pc = "building"]
  /\ UNCHANGED <<up, job, doc, ver, chunks, faults>>

\* The first n documents after the cursor, in id order.
FirstAfter(cursor, n) ==
  LET after == {v \in LiveVersions : v[1] > cursor}
  IN  {v \in after : Cardinality({u \in after : u[1] < v[1]}) < n}

\* Reindexer.Step reads a batch with LiveVersionsAfter.
StepReads ==
  /\ rx.pc = "building" /\ rx.batch = {} /\ FirstAfter(rx.cursor, BatchDocs) # {}
  /\ rx' = [rx EXCEPT !.batch = FirstAfter(rx.cursor, BatchDocs)]
  /\ UNCHANGED <<up, job, doc, ver, chunks, faults>>

\* Reindexer.rowsFor: reused from chunks, or chunked again from the stored content.
HasRows(v) == v \in chunks

\* InsertChunksNew of a version that has rows.
InsertRefused(v) == HasRows(v)

\* Its next version: rowsFor, Embed, InsertChunksNew.  Rows are refused and the step
\* returns the cursor it had reached; a version without rows is passed over.
StepIndexes ==
  /\ rx.pc = "building"
  /\ \E v \in rx.batch :
       /\ \A u \in rx.batch : v[1] <= u[1]
       /\ \/ InsertRefused(v) /\ rx' = [rx EXCEPT !.batch = {}]
          \/ ~InsertRefused(v) /\ rx' = [rx EXCEPT !.batch = @ \ {v}, !.cursor = v[1]]
  /\ UNCHANGED <<up, job, doc, ver, chunks, faults>>

\* The process dies; the caller resumes from the cursor it kept, or from the start.
StepCrashes ==
  /\ rx.pc = "building" /\ rx.cursor + Cardinality(rx.batch) > 0
  /\ \E kept \in {0, rx.cursor} : rx' = [rx EXCEPT !.batch = {}, !.cursor = kept]
  /\ UNCHANGED <<up, job, doc, ver, chunks, faults>>

\* Variant for mutation: coverage is not asked for.
CoveredAlways(table) == TRUE

\* ReindexCoverage.Covered: every live version has a row in the table.
Covered(table) == LiveVersions \subseteq table

\* Reindexer.Swap: VerifyCoverage of chunks_new, then SwapChunks in a transaction of
\* its own.
Verify ==
  /\ rx.pc = "building" /\ rx.batch = {} /\ Covered({})
  /\ rx' = [rx EXCEPT !.pc = "verified", !.live = LiveVersions]
  /\ UNCHANGED <<up, job, doc, ver, chunks, faults>>

SwapChunks ==
  /\ rx.pc = "verified"
  /\ chunks' = {}
  /\ rx' = [rx EXCEPT !.pc = "swapped", !.behind = {v \in Versions : v[2] \in ver[v[1]]} \ rx.live]
  /\ UNCHANGED <<up, job, doc, ver, faults>>

\* Reindexer.DropOld: the coverage of the table now called chunks, then the drop.
DropOld ==
  /\ rx.pc = "swapped" /\ Covered(chunks)
  /\ rx' = [rx EXCEPT !.pc = "dropped"]
  /\ UNCHANGED <<up, job, doc, ver, chunks, faults>>

-----------------------------------------------------------------------------
Work(i) ==
  \/ StartAttempt(i) \/ Fetch(i) \/ BatchStarts(i) \/ BatchSucceeds(i)
  \/ EmbedReturns(i) \/ Commit(i) \/ Return(i)

Next ==
  \/ \E i \in Uploads, f \in Files, c \in Contents : Ingest(i, f, c)
  \/ \E i \in Uploads : Store(i) \/ AcceptFails(i) \/ Enqueue(i) \/ Work(i) \/ AttemptFails(i)
       \/ ParseFails(i) \/ BatchRefused(i) \/ BatchFails(i) \/ Reap(i)
  \/ \E f \in Files : Delete(f)
  \/ Prepare \/ StepReads \/ StepIndexes \/ StepCrashes \/ Verify \/ SwapChunks \/ DropOld

Spec == Init /\ [][Next]_vars

\* River hands out queued jobs, and every wait of an attempt has a timeout.
FairSpec == Spec /\ \A i \in Uploads : WF_vars(Work(i))

-----------------------------------------------------------------------------
(* Properties.                                                             *)

\* An upload answered with 202 is worked to an end, through crashes, retries, provider
\* outages and duplicates: once no more uploads come, every job that was given to one has
\* completed or was discarded.
AcceptedEnds ==
  <>[](\A i \in Uploads : up[i].pc = "accepted" => job[up[i].job].state \in {"done", "discarded", "reaped"})

\* When no job of a file is under way or was given up, the current content is that of
\* the last upload whose job completed and recorded no failure, also when a content comes
\* back that the file had before and its version is reused (TouchIfUnchanged,
\* TenantStore.Put).
LandedIsCurrent ==
  \A f \in Files : LET i == doc[f].ended
     IN  i # 0 /\ ~job[i].failed
           /\ (\A j \in Uploads : up[j].file = f => job[j].state \in {"none", "done", "reaped"})
         => doc[f].status # "absent" /\ doc[f].cur = up[i].content

\* Every live version is found by a search: it has its rows in the table live_chunks
\* reads, before and after the swap.  Not so for a version that was not live when the
\* coverage was verified and comes back later: a deleted document restored by a touch,
\* an old version reused, or a Put between the verification and the swap.
LiveIsSearchable ==
  \A v \in LiveVersions : v[2] = Blank \/ v \in rx.behind \/ v \in chunks

\* "A re-upload with new content produces a new immutable version" (SPEC-04): an upload
\* whose job completed without a recorded failure has a version.
ReuploadMakesVersion ==
  \A i \in Uploads : up[i].pc = "accepted" /\ job[up[i].job].state = "done" /\ ~job[up[i].job].failed
     => up[i].content \in ver[up[i].file]

-----------------------------------------------------------------------------
(* Inductive strengthening.                                                *)

\* A job belongs to an accepted upload, and an attempt is within River's limit.
JobsSound ==
  \A i \in Uploads :
    /\ job[i].state # "none" => up[i].pc = "accepted"
    /\ job[i].state \in {"none", "queued"} => job[i].attempt < MaxAttempts
    /\ job[i].state = "running" => job[i].attempt > 0

\* River's uniqueness: one job of a file is under way, or kept as completed.
OneJobPerFile ==
  \A i, j \in Uploads :
    /\ up[i].file = up[j].file
    /\ job[i].state \in {"queued", "running", "done"} /\ job[j].state \in {"queued", "running", "done"}
    => i = j

\* An attempt about to return without a failure has made its content the current one; the
\* upload that ended last is one of the file, and its job completed.
LandSound ==
  /\ \A i \in Uploads : AtStage(i, "return") /\ ~job[i].failed
       => doc[FileOf(i)].status # "absent" /\ doc[FileOf(i)].cur = ContentOf(i)
  /\ \A f \in Files : doc[f].ended # 0
       => up[doc[f].ended].file = f /\ job[doc[f].ended].state \in {"done", "reaped"}

\* The current content has a version, a version has its rows but for those the swap left
\* behind, and coverage of the empty table is verified only when nothing is live.
SearchSound ==
  /\ \A f \in Files : doc[f].status # "absent" => doc[f].cur \in ver[f]
  /\ \A f \in Files : \A c \in ver[f] : c = Blank \/ <<f, c>> \in chunks \cup rx.behind
  /\ rx.pc = "verified" => rx.live = {}

IInv == TypeOK /\ JobsSound /\ OneJobPerFile /\ LandSound /\ SearchSound /\ LandedIsCurrent
=============================================================================
