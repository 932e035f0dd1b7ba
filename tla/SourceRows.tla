------------------------------ MODULE SourceRows ------------------------------
(***************************************************************************)
(* The sources of one tenant, the jobs that sync and delete them, and what *)
(* is promised of them whatever the admin, the scheduler, the worker and   *)
(* the reconciler do.  SourceLifecycle has the steps.                      *)
(***************************************************************************)
EXTENDS Naturals, FiniteSets

CONSTANTS
  Sources,     \* sources of one tenant
  Edited,      \* the sources the admin patches and deletes; bounds the API's traffic
  FullEvery,   \* fullSyncEveryNRuns
  MaxFaults    \* bound on crashes and failed statements

ASSUME SourcesAssumption ==
  IsFiniteSet(Sources) /\ Edited \subseteq Sources /\ FullEvery \in Nat \ {0} /\ MaxFaults \in Nat

VARIABLES
  src,      \* sources rows: status, schedule_cron, next_run_at <= now, sync_run_count
  sync,     \* the sync_source job of each source that is active or has an open jobs row
  del,      \* state of the delete_source job in River; "none" when it may be inserted
  collect,  \* the tenant's gc_tenant job: no jobs row of the last day, state in River
  api,      \* delete requests between MarkDeleting and EnqueueJob
  content,  \* sources with documents, crawl or connector state in the tenant database
  faults,
  lapsed    \* history: since it was marked deleting or last emptied, the source's delete
            \* was not enqueued, collapsed onto a job that had run, was discarded, was
            \* cancelled, or was overtaken by a document of a sync or an upload

-----------------------------------------------------------------------------
(* Promises.                                                               *)

\* An open jobs row of a sync has its River job: one at work, which ends with the row, or
\* one that is over, which the reconciler's query finds.  A row without would refuse every
\* sync of the source and roll back every sweep of every tenant for ever, because the
\* unique index jobs_one_active_sync_per_source counts it (pool.go EnqueueJob, scheduler.go
\* enqueueMirrored, reconcile.go reconcileSQL).
OpenRowHasJob == \A s \in Sources : sync[s].row = "open" => sync[s].river # "none"

\* What a deleting source still holds will be removed: by a delete job, or by the one a
\* request is about to enqueue (FR-SRC-12).  Patching it back to active, deleting it again,
\* a job kept by River and what is stored meanwhile do not come between, other than in the
\* five ways lapsed names (sources/service.go Delete, pool.go EnqueueJob, jobs/service.go
\* Cancel, delete_source.go).
RemovalIsOwed ==
  \A s \in Sources : src[s].status = "deleting" /\ s \in content =>
    s \in api \/ del[s] = "active" \/ s \in lapsed
=============================================================================
