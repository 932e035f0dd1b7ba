---------------------------- MODULE SourceLifecycle ----------------------------
(***************************************************************************)
(* Sources from creation to deletion (internal/cp/sources), the cron       *)
(* scheduler that enqueues their syncs and the tenant's garbage collection *)
(* (internal/worker/scheduler.go), and the River jobs both put into the    *)
(* queue with their uniqueness rules (internal/worker/args.go).            *)
(*                                                                         *)
(* Of a sync job the model keeps what decides whether the next one can be  *)
(* enqueued: whether River has it active, and whether its jobs row is      *)
(* open (the partial unique index jobs_one_active_sync_per_source).  How   *)
(* the two come apart is JobMirror's subject; here a fault does it.        *)
(* River's cleaner keeps a finished sync for a day and the reconciler also *)
(* runs at start, so it is taken to come first.                            *)
(***************************************************************************)
EXTENDS SourceRows

vars == <<src, sync, del, collect, api, content, faults, lapsed>>

Crons == {"none", "good", "bad"}
NoSource == [status |-> "none", cron |-> "none", due |-> FALSE, runs |-> 0]
NoSync   == [river |-> "none", row |-> "none", full |-> FALSE]

TypeOK ==
  /\ src \in [Sources -> [status: {"none", "active", "paused", "deleting"}, cron: Crons,
                          due: BOOLEAN, runs: 0..(FullEvery - 1)]]
  /\ sync \in [Sources -> [river: {"none", "active", "done"}, row: {"none", "open"},
                           full: BOOLEAN]]
  /\ del \in [Sources -> {"none", "active", "done"}]
  /\ collect \in [due: BOOLEAN, river: {"none", "active", "done"}]
  /\ api \subseteq Sources /\ content \subseteq Sources /\ lapsed \subseteq Sources
  /\ faults \in 0..MaxFaults

Init ==
  /\ src = [s \in Sources |-> NoSource]
  /\ sync = [s \in Sources |-> NoSync]
  /\ del = [s \in Sources |-> "none"]
  /\ api = {} /\ faults = 0 /\ content = {} /\ lapsed = {}
  /\ collect = [due |-> TRUE, river |-> "none"]

Fault == faults < MaxFaults /\ faults' = faults + 1

-----------------------------------------------------------------------------
(* The sources API.                                                        *)

\* Service.Create and Service.Update refuse bad names, kinds and configurations; neither
\* parses the schedule.
ValidCreate == Crons
Settable == {"active", "paused"}

\* PoolDB.Create: a new source is active, and due at once when it has a schedule.
Create(s, cron) ==
  /\ src[s].status = "none"
  /\ src' = [src EXCEPT ![s] = [status |-> "active", cron |-> cron, due |-> TRUE, runs |-> 0]]
  /\ UNCHANGED <<sync, del, collect, api, content, faults, lapsed>>

\* PoolDB.Update: the patch sets active or paused, or no status, and the schedule, whatever
\* the status was; it stops neither a delete request nor a delete job.
Update(s, status, cron) ==
  /\ src[s].status # "none"
  /\ src' = [src EXCEPT ![s].status = status, ![s].cron = cron]
  /\ lapsed' = IF status = "deleting" THEN lapsed ELSE lapsed \ {s}
  /\ UNCHANGED <<sync, del, collect, api, content, faults>>

\* What is due to the deleting source s failed, or came too early.
Lapse(s) == IF src[s].status = "deleting" THEN lapsed \cup {s} ELSE lapsed

\* Service.Delete, first statement: a source that is deleting already is left alone.  One
\* request for a source is in flight at a time.
MarkDeleting(s) ==
  /\ src[s].status \notin {"none", "deleting"} /\ s \notin api
  /\ src' = [src EXCEPT ![s].status = "deleting"]
  /\ api' = api \cup {s}
  /\ lapsed' = lapsed \ {s}
  /\ UNCHANGED <<sync, del, collect, content, faults>>

\* Service.Delete, second step: River collapses the job onto one that is active or
\* still kept as completed.
DeleteJob(s) == IF del[s] = "none" THEN "active" ELSE del[s]

EnqueueDelete(s) ==
  /\ s \in api
  /\ del' = [del EXCEPT ![s] = DeleteJob(s)]
  /\ api' = api \ {s}
  /\ lapsed' = IF del[s] = "done" THEN Lapse(s) ELSE lapsed
  /\ UNCHANGED <<src, sync, collect, content, faults>>

\* The enqueue fails after the source was marked.
DeleteAborts(s) ==
  /\ s \in api /\ Fault
  /\ api' = api \ {s}
  /\ lapsed' = Lapse(s)
  /\ UNCHANGED <<src, sync, del, collect, content>>

-----------------------------------------------------------------------------
(* Enqueueing a sync: River's uniqueness, then the unique index on the row. *)

Duplicate(s) == sync[s].river = "active"
RowCollides(s) == ~Duplicate(s) /\ sync[s].row = "open"
\* Variant for mutation: the jobs row alone, as a PoolDB without a queue writes it.
EnqueuedRowOnly(full) == [river |-> "none", row |-> "open", full |-> full]
Enqueued(full) == [river |-> "active", row |-> "open", full |-> full]

\* Service.Sync: both conflicts are a 409 (or the replay of the active job), and the
\* source's status is not asked for.
SyncRequest(s, full) ==
  /\ src[s].status # "none" /\ ~Duplicate(s) /\ ~RowCollides(s)
  /\ sync' = [sync EXCEPT ![s] = Enqueued(full)]
  /\ UNCHANGED <<src, del, collect, api, content, faults, lapsed>>

\* fullSync: run 0 and every FullEvery-th run after it.
FullRun(s) == src[s].runs = 0

Due == {s \in Sources : src[s].status = "active" /\ src[s].cron # "none" /\ src[s].due}

\* Scheduler.syncSweep: due sources are enqueued, or collapse onto the active sync; either
\* way the run is counted.  A cron that does not parse is parked.
Swept(s) ==
  IF s \notin Due THEN src[s]
  ELSE [src[s] EXCEPT !.due = FALSE, !.runs = IF src[s].cron = "bad" THEN @ ELSE (@ + 1) % FullEvery]

SyncAfterSweep(s) ==
  IF s \in Due /\ src[s].cron = "good" /\ ~Duplicate(s) THEN Enqueued(FullRun(s)) ELSE sync[s]

\* Scheduler.gcSweep: GC_tenant's uniqueness counts a completed job that is still kept.
GcAfterSweep ==
  IF collect.due /\ collect.river = "none" THEN [due |-> FALSE, river |-> "active"] ELSE collect

\* Scheduler.sweep: one transaction, so one row that collides undoes all of it.
Sweep ==
  /\ \A s \in Due : src[s].cron = "good" => ~RowCollides(s)
  /\ Due # {} \/ GcAfterSweep # collect
  /\ src' = [s \in Sources |-> Swept(s)]
  /\ sync' = [s \in Sources |-> SyncAfterSweep(s)]
  /\ collect' = GcAfterSweep
  /\ UNCHANGED <<del, api, content, faults, lapsed>>

-----------------------------------------------------------------------------
(* The worker.                                                             *)

\* A sync ends or is cancelled, and with it its jobs row.
SyncEnds(s) ==
  /\ sync[s].river = "active"
  /\ sync' = [sync EXCEPT ![s] = NoSync]
  /\ UNCHANGED <<src, del, collect, api, content, faults, lapsed>>

\* A document of the source is stored: by its sync, by a stale attempt of one, or by an upload
\* that names the source.  None of them asks whether the source is deleting.  What sources
\* hold that are never deleted is left out.
ContentWritten(s) ==
  /\ src[s].status # "none" /\ s \in Edited
  /\ content' = content \cup {s}
  /\ lapsed' = Lapse(s)
  /\ UNCHANGED <<src, sync, del, collect, api, faults>>

\* River has finished or cancelled the job, the jobs row was not written.
SyncEndsUnmirrored(s) ==
  /\ sync[s].river = "active" /\ Fault
  /\ sync' = [sync EXCEPT ![s].river = "done"]
  /\ UNCHANGED <<src, del, collect, api, content, lapsed>>

\* Variant for mutation: the rows of full syncs are not healed.
DriftedIncremental == {s \in Sources : sync[s].river = "done" /\ sync[s].row = "open" /\ ~sync[s].full}

Drifted == {s \in Sources : sync[s].river = "done" /\ sync[s].row = "open"}

Reconcile ==
  /\ Drifted # {}
  /\ sync' = [s \in Sources |-> IF s \in Drifted THEN NoSync ELSE sync[s]]
  /\ UNCHANGED <<src, del, collect, api, content, faults, lapsed>>

\* Variant for mutation: the job leaves a source alone that is being synced.
DeleteRunsIdle(s) ==
  /\ del[s] = "active"
  /\ del' = [del EXCEPT ![s] = "done"]
  /\ content' = IF Duplicate(s) THEN content ELSE content \ {s}
  /\ lapsed' = lapsed \ {s}
  /\ UNCHANGED <<src, sync, collect, api, faults>>

\* deleteSourceWorker: one transaction removes the source's content, whatever its status.
DeleteRuns(s) ==
  /\ del[s] = "active"
  /\ del' = [del EXCEPT ![s] = "done"]
  /\ content' = content \ {s}
  /\ lapsed' = lapsed \ {s}
  /\ UNCHANGED <<src, sync, collect, api, faults>>

\* Every attempt failed.
DeleteDiscarded(s) ==
  /\ del[s] = "active" /\ Fault
  /\ del' = [del EXCEPT ![s] = "none"]
  /\ lapsed' = Lapse(s)
  /\ UNCHANGED <<src, sync, collect, api, content>>

\* jobs.Service.Cancel takes a job of any kind: River drops a queued delete and stops one at
\* work, and does not count it as a duplicate any more; the source stays deleting.
DeleteCancelled(s) ==
  /\ del[s] = "active"
  /\ del' = [del EXCEPT ![s] = "none"]
  /\ lapsed' = Lapse(s)
  /\ UNCHANGED <<src, sync, collect, api, content, faults>>
GcCancelled ==
  /\ collect.river = "active"
  /\ collect' = [collect EXCEPT !.river = "none"]
  /\ UNCHANGED <<src, sync, del, api, content, faults, lapsed>>

\* gcWorker has one attempt: it completes, or it is discarded, which uniqueness forgets.
GcFails ==
  /\ collect.river = "active" /\ Fault
  /\ collect' = [collect EXCEPT !.river = "none"]
  /\ UNCHANGED <<src, sync, del, api, content, lapsed>>

GcRuns ==
  /\ collect.river = "active"
  /\ collect' = [collect EXCEPT !.river = "done"]
  /\ UNCHANGED <<src, sync, del, api, content, faults, lapsed>>

\* River's cleaner removes completed jobs after its retention.
CleanDelete(s) ==
  /\ del[s] = "done"
  /\ del' = [del EXCEPT ![s] = "none"]
  /\ UNCHANGED <<src, sync, collect, api, content, faults, lapsed>>

CleanGc ==
  /\ collect.river = "done"
  /\ collect' = [collect EXCEPT !.river = "none"]
  /\ UNCHANGED <<src, sync, del, api, content, faults, lapsed>>

\* next_run_at passes.
ComesDue(s) ==
  /\ src[s].status # "none" /\ ~src[s].due
  /\ src' = [src EXCEPT ![s].due = TRUE]
  /\ UNCHANGED <<sync, del, collect, api, content, faults, lapsed>>

\* A day passed since the last gc_tenant row.
GcComesDue ==
  /\ ~collect.due
  /\ collect' = [collect EXCEPT !.due = TRUE]
  /\ UNCHANGED <<src, sync, del, api, content, faults, lapsed>>

Request(s) ==
  \/ Create(s, "good")
  \/ /\ s \in Edited
     /\ \/ \E cron \in ValidCreate \ {"good"} : Create(s, cron)
        \/ \E status \in Settable \cup {src[s].status}, cron \in Crons : Update(s, status, cron)
        \/ MarkDeleting(s) \/ DeleteAborts(s)
        \/ \E full \in BOOLEAN : SyncRequest(s, full)

Worker(s) == ContentWritten(s) \/ SyncEnds(s) \/ DeleteRuns(s)

Next ==
  \/ \E s \in Sources : \/ Request(s) \/ EnqueueDelete(s) \/ Worker(s) \/ ComesDue(s)
                        \/ SyncEndsUnmirrored(s) \/ DeleteDiscarded(s) \/ DeleteCancelled(s)
                        \/ CleanDelete(s)
  \/ Sweep \/ Reconcile \/ GcRuns \/ GcFails \/ GcCancelled \/ CleanGc \/ GcComesDue

Spec == Init /\ [][Next]_vars

\* The sweep and the reconciler are periodic, River works the collection and cleans up;
\* that syncs and deletes end is not needed, and requests, the passing of time and faults
\* are not promised.
Fairness == SF_vars(Sweep) /\ WF_vars(Reconcile) /\ WF_vars(GcRuns) /\ WF_vars(CleanGc)
FairSpec == Spec /\ Fairness

-----------------------------------------------------------------------------
(* Properties.                                                             *)

\* A due source does not stay due: it is swept, or paused, deleted or unscheduled.  One
\* source whose jobs row drifted fails the sweep of every source until the reconciler
\* has healed the row (scheduler.go sweep, reconcile.go).
DueIsSwept == \A s \in Sources : s \in Due ~> s \notin Due

\* The tenant's garbage collection is enqueued again each day, although River counts the
\* completed job as a duplicate until its cleaner has run (scheduler.go gcSweep, args.go).
GcIsEnqueued == collect.due ~> ~collect.due
=============================================================================
