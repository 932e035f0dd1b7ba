------------------------------- MODULE JobMirror -------------------------------
(***************************************************************************)
(* The job queue as the platform uses it: River's rows (external), the     *)
(* worker process with its limiter and mirror middleware, the control      *)
(* plane's jobs rows that mirror them, the cancel API and the periodic     *)
(* reconciler.  The jobs are ingest jobs of one tenant, and one worker     *)
(* process works them.                                                     *)
(*                                                                         *)
(* River's attempt and max_attempts are kept as their difference, left: a  *)
(* fetch takes one, a snooze gives it back (River raises max_attempts).    *)
(***************************************************************************)
EXTENDS Naturals, FiniteSets

CONSTANTS
  Jobs,         \* jobs that may be enqueued
  MaxAttempts,  \* attempt budget of a job
  Cap,          \* IngestPerTenantCap
  Faults,       \* what may happen to which job, see FaultKinds
  MaxSnoozes    \* bound on the snoozes a job's handler asks for

\* A worker crash, a lost mirror write, a use of the cancel API, an open circuit.
FaultKinds == {"crash", "write", "cancel", "snooze"}

ASSUME JobsAssumption ==
  /\ IsFiniteSet(Jobs)
  /\ Faults \subseteq Jobs \X FaultKinds
  /\ MaxAttempts \in Nat \ {0} /\ Cap \in Nat \ {0} /\ MaxSnoozes \in Nat

VARIABLES
  river,   \* river_job rows; as history, whether the job's handler ever succeeded
  mirror,  \* status of the jobs rows
  exec,    \* per job: the worker goroutine that executes it
  slots,   \* tenantLimiter.running of the tenant
  api      \* per job: the cancel request in flight

vars == <<river, mirror, exec, slots, api>>

Results == {"ok", "error", "cancel", "snooze"}
RiverStates == {"none", "available", "running", "waiting", "completed", "discarded", "cancelled"}
Statuses == {"none", "queued", "running", "succeeded", "failed", "cancelled"}
RiverRow == [state: RiverStates, left: 0..MaxAttempts, asked: BOOLEAN,
             snoozes: 0..MaxSnoozes, worked: BOOLEAN]
Execution == [pc: {"none", "limiter", "start", "work", "final", "return"},
              res: Results \cup {"none"}]

NotRun == [pc |-> "none", res |-> "none"]

TypeOK ==
  /\ river \in [Jobs -> RiverRow]
  /\ mirror \in [Jobs -> Statuses]
  /\ exec \in [Jobs -> Execution]
  /\ slots \in 0..Cap
  /\ api \in [Jobs -> {"idle", "drop", "flip", "reread", "signal"}]

Init ==
  /\ river = [j \in Jobs |-> [state |-> "none", left |-> MaxAttempts, asked |-> FALSE,
                              snoozes |-> 0, worked |-> FALSE]]
  /\ mirror = [j \in Jobs |-> "none"]
  /\ exec = [j \in Jobs |-> NotRun]
  /\ slots = 0
  /\ api = [j \in Jobs |-> "idle"]

RiverDone(j)  == river[j].state \in {"completed", "discarded", "cancelled"}
MirrorDone(j) == mirror[j] \in {"succeeded", "failed", "cancelled"}

\* The producers insert the River job and its jobs row in one transaction.
Enqueue(j) ==
  /\ river[j].state = "none"
  /\ river' = [river EXCEPT ![j].state = "available"]
  /\ mirror' = [mirror EXCEPT ![j] = "queued"]
  /\ UNCHANGED <<exec, slots, api>>

-----------------------------------------------------------------------------
(* River.                                                                  *)

\* A worker claims the job.
Fetch(j) ==
  /\ river[j].state = "available"
  /\ river' = [river EXCEPT ![j].state = "running", ![j].left = @ - 1]
  /\ exec' = [exec EXCEPT ![j].pc = "limiter"]
  /\ UNCHANGED <<mirror, slots, api>>

\* The backoff or the snooze is over.
Due(j) ==
  /\ river[j].state = "waiting"
  /\ river' = [river EXCEPT ![j].state = "available"]
  /\ UNCHANGED <<mirror, exec, slots, api>>

\* The row goes back to the queue, unless a cancel was asked for.
Requeued(row) == [row EXCEPT !.state = IF row.asked THEN "cancelled" ELSE "waiting"]
Snoozed(row)  == [Requeued(row) EXCEPT !.left = row.left + 1]
Errored(row)  == IF row.left = 0 THEN [row EXCEPT !.state = "discarded"] ELSE Requeued(row)

\* How River records the result of an attempt.
Recorded(row, res) ==
  CASE res = "ok"     -> [row EXCEPT !.state = "completed"]
    [] res = "cancel" -> [row EXCEPT !.state = "cancelled"]
    [] res = "snooze" -> Snoozed(row)
    [] OTHER          -> Errored(row)

\* The rescuer finds a running job that no worker executes any more.
Rescue(j) ==
  /\ river[j].state = "running" /\ exec[j].pc = "none"
  /\ river' = [river EXCEPT ![j] = IF river[j].asked THEN [river[j] EXCEPT !.state = "cancelled"]
                                                     ELSE Errored(river[j])]
  /\ UNCHANGED <<mirror, exec, slots, api>>

\* client.JobCancel: drops a job that waits, signals one that runs.
Cancelling(row) ==
  CASE row.state = "running" -> [row EXCEPT !.asked = TRUE]
    [] row.state \in {"available", "waiting"} -> [row EXCEPT !.state = "cancelled"]
    [] OTHER -> row

-----------------------------------------------------------------------------
(* The worker: limiter, then mirror, then the handler.                     *)

\* A tenant at its cap: the job is snoozed before the mirror sees it.
LimiterSnooze(j) ==
  /\ exec[j].pc = "limiter" /\ slots >= Cap
  /\ river' = [river EXCEPT ![j] = Snoozed(river[j])]
  /\ exec' = [exec EXCEPT ![j] = NotRun]
  /\ UNCHANGED <<mirror, slots, api>>

\* Variant for mutation: a tenant at its cap is admitted once more.
AcquireOverCap(j) ==
  /\ exec[j].pc = "limiter" /\ slots <= Cap
  /\ slots' = slots + 1
  /\ exec' = [exec EXCEPT ![j].pc = "start"]
  /\ UNCHANGED <<river, mirror, api>>

Acquire(j) ==
  /\ exec[j].pc = "limiter" /\ slots < Cap
  /\ slots' = slots + 1
  /\ exec' = [exec EXCEPT ![j].pc = "start"]
  /\ UNCHANGED <<river, mirror, api>>

\* "where river_job_id = $1 and status <> 'cancelled'".
Write(j, status) == mirror' = [mirror EXCEPT ![j] = IF @ = "cancelled" THEN @ ELSE status]

\* mirrorMiddleware.write: an error is logged and the job goes on.
TryWrite(j, status) == Write(j, status) \/ (<<j, "write">> \in Faults /\ UNCHANGED mirror)

MirrorRunning(j) ==
  /\ exec[j].pc = "start"
  /\ TryWrite(j, "running")
  /\ exec' = [exec EXCEPT ![j].pc = "work"]
  /\ UNCHANGED <<river, slots, api>>

\* The handler returns: its work is done, it failed (a timeout too), it is cancelled
\* (for good, or by the signal), or the embedding circuit is open.
HandlerReturns(j, res) ==
  /\ exec[j].pc = "work"
  /\ res = "snooze" => <<j, "snooze">> \in Faults /\ river[j].snoozes < MaxSnoozes
  /\ river' = [river EXCEPT ![j].worked = @ \/ res = "ok",
                            ![j].snoozes = IF res = "snooze" THEN @ + 1 ELSE @]
  /\ exec' = [exec EXCEPT ![j] = [pc |-> "final", res |-> res]]
  /\ UNCHANGED <<mirror, slots, api>>

\* The transition mirrorMiddleware.Work picks for the handler's result.
FinalStatus(res, left) ==
  CASE res = "ok"     -> "succeeded"
    [] res = "cancel" -> "cancelled"
    [] left = 0       -> "failed"
    [] OTHER          -> "queued"

MirrorFinal(j) ==
  /\ exec[j].pc = "final"
  /\ TryWrite(j, FinalStatus(exec[j].res, river[j].left))
  /\ exec' = [exec EXCEPT ![j].pc = "return"]
  /\ UNCHANGED <<river, slots, api>>

\* Variant for mutation: the slot is released on success only.
ReleaseOnSuccess(j) == slots' = IF exec[j].res = "ok" THEN slots - 1 ELSE slots

\* tenantLimiter.release: the last slot deletes the tenant's entry.
Release(j) == slots' = IF slots <= 1 THEN 0 ELSE slots - 1

\* The middleware returns the handler's error unchanged and River records it.
Return(j) ==
  /\ exec[j].pc = "return"
  /\ Release(j)
  /\ river' = [river EXCEPT ![j] = Recorded(river[j], exec[j].res)]
  /\ exec' = [exec EXCEPT ![j] = NotRun]
  /\ UNCHANGED <<mirror, api>>

\* The worker process dies with everything it executes.
Crash ==
  /\ \E j \in Jobs : exec[j].pc # "none" /\ <<j, "crash">> \in Faults
  /\ exec' = [j \in Jobs |-> NotRun]
  /\ slots' = 0
  /\ UNCHANGED <<river, mirror, api>>

-----------------------------------------------------------------------------
(* jobs.Service.Cancel, one action per statement or call.                  *)

\* The status read first decides the branch; a finished job is not cancellable.
CancelRead(j) ==
  /\ <<j, "cancel">> \in Faults /\ api[j] = "idle"
  /\ \/ mirror[j] = "queued"  /\ api' = [api EXCEPT ![j] = "drop"]
     \/ mirror[j] = "running" /\ api' = [api EXCEPT ![j] = "signal"]
  /\ UNCHANGED <<river, mirror, exec, slots>>

CancelDrop(j) ==
  /\ api[j] = "drop"
  /\ river' = [river EXCEPT ![j] = Cancelling(river[j])]
  /\ api' = [api EXCEPT ![j] = "flip"]
  /\ UNCHANGED <<mirror, exec, slots>>

\* Variant for mutation: the update has no status guard.
CancelFlipUnguarded(j) ==
  /\ api[j] = "flip"
  /\ mirror' = [mirror EXCEPT ![j] = "cancelled"]
  /\ api' = [api EXCEPT ![j] = "idle"]
  /\ UNCHANGED <<river, exec, slots>>

\* CancelQueued: guarded by status = 'queued'.
CancelFlip(j) ==
  /\ api[j] = "flip"
  /\ mirror' = [mirror EXCEPT ![j] = IF @ = "queued" THEN "cancelled" ELSE @]
  /\ api' = [api EXCEPT ![j] = IF mirror[j] = "queued" THEN "idle" ELSE "reread"]
  /\ UNCHANGED <<river, exec, slots>>

CancelReread(j) ==
  /\ api[j] = "reread"
  /\ api' = [api EXCEPT ![j] = IF mirror[j] = "running" THEN "signal" ELSE "idle"]
  /\ UNCHANGED <<river, mirror, exec, slots>>

CancelSignal(j) ==
  /\ api[j] = "signal"
  /\ river' = [river EXCEPT ![j] = Cancelling(river[j])]
  /\ api' = [api EXCEPT ![j] = "idle"]
  /\ UNCHANGED <<mirror, exec, slots>>

\* A statement fails or the API process dies.
CancelAborts(j) ==
  /\ api[j] # "idle"
  /\ api' = [api EXCEPT ![j] = "idle"]
  /\ UNCHANGED <<river, mirror, exec, slots>>

-----------------------------------------------------------------------------
\* Variant for mutation: a finished job that was not cancelled is a success.
MappedSucceeded(state) == IF state = "cancelled" THEN "cancelled" ELSE "succeeded"

\* The status a finished River job has in the mirror.
Mapped(state) == CASE state = "completed" -> "succeeded"
                   [] state = "discarded" -> "failed"
                   [] OTHER               -> "cancelled"

\* Variant for mutation: only running rows are healed.
DriftedRunning == {j \in Jobs : mirror[j] = "running" /\ RiverDone(j)}

Drifted == {j \in Jobs : mirror[j] \in {"queued", "running"} /\ RiverDone(j)}

\* One statement: reconcileSQL, run at start and by a periodic job.
Reconcile ==
  /\ Drifted # {}
  /\ mirror' = [j \in Jobs |-> IF j \in Drifted THEN Mapped(river[j].state) ELSE mirror[j]]
  /\ UNCHANGED <<river, exec, slots, api>>

Work(j) ==
  \/ Fetch(j) \/ Due(j) \/ Rescue(j)
  \/ LimiterSnooze(j) \/ Acquire(j) \/ MirrorRunning(j)
  \/ \E res \in Results : HandlerReturns(j, res)
  \/ MirrorFinal(j) \/ Return(j)

Cancel(j) ==
  \/ CancelRead(j) \/ CancelDrop(j) \/ CancelFlip(j) \/ CancelReread(j) \/ CancelSignal(j)
  \/ CancelAborts(j)

Next ==
  \/ \E j \in Jobs : Enqueue(j) \/ Work(j) \/ Cancel(j)
  \/ Crash \/ Reconcile

Spec == Init /\ [][Next]_vars

\* River polls, rescues and retries; a handler returns because its attempt has a
\* timeout; the reconciler is periodic.  Crashes and cancels are not promised.
Fairness == WF_vars(Reconcile) /\ \A j \in Jobs : WF_vars(Work(j))
FairSpec == Spec /\ Fairness

-----------------------------------------------------------------------------
(* Properties.                                                             *)

\* A jobs row that is cancelled stays cancelled, whatever the worker that was
\* picking the job up, retrying it or finishing it writes afterwards
\* (mirror_store.go: the status guard of every update).
CancelledStays == [][\A j \in Jobs : mirror[j] = "cancelled" => mirror'[j] = "cancelled"]_vars

\* The mirror reports success only of a job whose handler did return success, also
\* when the reconciler finished the row after a crash (mirror.go, reconcile.go).
SucceededWasWorked == \A j \in Jobs : mirror[j] = "succeeded" => river[j].worked

\* The goroutines past the limiter.
Holding == {j \in Jobs : exec[j].pc \in {"start", "work", "final", "return"}}

\* A tenant never has more than its cap of jobs at work, whatever way they end: by their
\* handler, by a snooze, with the process (limiter.go acquire, release).
WithinCap == Cardinality(Holding) <= Cap

\* The two records of a job, as JobRecords sees them.
StageOf(state) == IF state \in {"available", "running", "waiting"} THEN "live" ELSE state
RowOf(status)  == IF status \in {"queued", "running"} THEN "open" ELSE status

Stage == [j \in Jobs |-> StageOf(river[j].state)]
Row   == [j \in Jobs |-> RowOf(mirror[j])]

JobRec == INSTANCE JobRecords WITH stage <- Stage, row <- Row

\* The jobs row appears with its River job, is closed with River's outcome or by a cancel,
\* and neither record changes once both are finished, whichever of worker, rescuer, cancel
\* request and reconciler comes last (mirror_store.go, pool.go CancelQueued, reconcile.go).
RecordsSpec == JobRec!Spec

\* Inductive strengthening, in four parts.
\* The limiter counts the goroutines that hold a slot.
SlotsCounted == slots = Cardinality(Holding)

\* Only running jobs are executed; a job that waits has an attempt left, and a job
\* that runs has taken one.
BudgetsSound ==
  \A j \in Jobs : /\ exec[j].pc # "none" => river[j].state = "running"
                  /\ river[j].state = "running" => river[j].left < MaxAttempts
                  /\ river[j].state \in {"none", "available", "waiting"} => river[j].left > 0

\* A success that is on its way to the mirror or to River was returned by the handler.
WorkedSound ==
  \A j \in Jobs : exec[j].res = "ok" \/ river[j].state = "completed" => river[j].worked

\* The River job and its jobs row appear together.
EnqueuedTogether == \A j \in Jobs : river[j].state = "none" => mirror[j] = "none"

IInv ==
  TypeOK /\ SlotsCounted /\ BudgetsSound /\ WorkedSound /\ EnqueuedTogether /\ SucceededWasWorked

\* Every job River has finished gets a finished jobs row: lost mirror writes,
\* crashes and half-done cancels are healed (reconcile.go).
MirrorConverges == \A j \in Jobs : RiverDone(j) ~> MirrorDone(j)

\* Every job that is enqueued is finished: a tenant over its cap does not starve its
\* own jobs, and a slot is given back however a job ends (limiter.go).
JobsFinish == \A j \in Jobs : river[j].state # "none" ~> RiverDone(j)
=============================================================================
