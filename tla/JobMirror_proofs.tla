--------------------------- MODULE JobMirror_proofs ---------------------------
(* Proofs about the jobs: JobMirror, for any number of jobs, attempts and slots, and the  *)
(* walks that sync_source jobs make with the API connector (ApiConnector, the promises of *)
(* SourceIndex), for any API, pagination, page size, bound and number of attempts.        *)
EXTENDS JobMirror, SourceIndex, FiniteSetTheorems, WellFoundedInduction, TLAPS

\* The set of goroutines that hold a slot is finite.
LEMMA HoldingFinite == IsFiniteSet(Holding) /\ Cardinality(Holding) \in Nat
  BY JobsAssumption, FS_Subset, FS_CardinalityType DEF Holding

\* A goroutine that takes a slot adds one to the count.
LEMMA EnterHolding ==
  ASSUME NEW j \in Jobs, j \notin Holding, Holding' = Holding \cup {j}
  PROVE  Cardinality(Holding') = Cardinality(Holding) + 1
  BY HoldingFinite, FS_AddElement

\* A goroutine that gives its slot back takes one from the count.
LEMMA LeaveHolding ==
  ASSUME NEW j \in Holding, Holding' = Holding \ {j}
  PROVE  Cardinality(Holding') = Cardinality(Holding) - 1
  BY HoldingFinite, FS_RemoveElement

\* What a row that ran may become when its attempt ends.
Settled(new, row) ==
  /\ new \in RiverRow /\ new.worked = row.worked
  /\ new.state \in {"waiting", "completed", "discarded", "cancelled"}
  /\ new.state = "waiting" => new.left > 0

\* Whatever ends an attempt, River records a row with the budget it should have, and
\* only a success completes it.
LEMMA RowsSettle ==
  ASSUME NEW row \in RiverRow, row.left < MaxAttempts
  PROVE  /\ Settled(Snoozed(row), row) /\ Snoozed(row).state # "completed"
         /\ Settled(Errored(row), row) /\ Errored(row).state # "completed"
         /\ \A res \in Results : /\ Settled(Recorded(row, res), row)
                                 /\ Recorded(row, res).state = "completed" => res = "ok"
<1>1. /\ row.left \in Nat /\ MaxAttempts \in Nat
      /\ row.left + 1 \in 0..MaxAttempts /\ row.left + 1 > 0
  BY JobsAssumption DEF RiverRow
<1>2. \A s \in RiverStates : /\ [row EXCEPT !.state = s] \in RiverRow
                             /\ [row EXCEPT !.state = s].left = row.left
                             /\ [row EXCEPT !.state = s].worked = row.worked
                             /\ [row EXCEPT !.state = s].state = s
  BY DEF RiverRow
<1>3. "waiting" \in RiverStates /\ "cancelled" \in RiverStates
      /\ "discarded" \in RiverStates /\ "completed" \in RiverStates
  BY DEF RiverStates
<1>4. /\ Requeued(row) \in RiverRow /\ Requeued(row).left = row.left
      /\ Requeued(row).worked = row.worked /\ Requeued(row).state \in {"waiting", "cancelled"}
  <2>1. CASE row.asked
    BY <2>1, <1>2, <1>3 DEF Requeued
  <2>2. CASE ~row.asked
    BY <2>2, <1>2, <1>3 DEF Requeued
  <2> QED  BY <2>1, <2>2
<1>5. Settled(Snoozed(row), row) /\ Snoozed(row).state # "completed"
  <2> DEFINE q == Requeued(row)
  <2>1. q \in RiverRow /\ Snoozed(row) = [q EXCEPT !.left = row.left + 1]
    BY <1>4 DEF Snoozed
  <2> HIDE DEF q
  <2>2. /\ [q EXCEPT !.left = row.left + 1] \in RiverRow
        /\ [q EXCEPT !.left = row.left + 1].left = row.left + 1
        /\ [q EXCEPT !.left = row.left + 1].worked = q.worked
        /\ [q EXCEPT !.left = row.left + 1].state = q.state
    BY <1>1, <2>1 DEF RiverRow
  <2> QED  BY <2>1, <2>2, <1>1, <1>4 DEF q, Settled
<1>6. Settled(Errored(row), row) /\ Errored(row).state # "completed"
  <2>1. CASE row.left = 0
    BY <2>1, <1>2, <1>3 DEF Errored, Settled
  <2>2. CASE row.left # 0
    BY <2>2, <1>1, <1>4 DEF Errored, Settled
  <2> QED  BY <2>1, <2>2
<1>7. \A res \in Results : /\ Settled(Recorded(row, res), row)
                           /\ Recorded(row, res).state = "completed" => res = "ok"
  <2> SUFFICES ASSUME NEW res \in Results
               PROVE  /\ Settled(Recorded(row, res), row)
                      /\ Recorded(row, res).state = "completed" => res = "ok"
    OBVIOUS
  <2>1. CASE res = "ok"      BY <2>1, <1>2, <1>3 DEF Recorded, Settled
  <2>2. CASE res = "cancel"  BY <2>2, <1>2, <1>3 DEF Recorded, Settled
  <2>3. CASE res = "snooze"  BY <2>3, <1>5 DEF Recorded
  <2>4. CASE res = "error"   BY <2>4, <1>6 DEF Recorded
  <2> QED  BY <2>1, <2>2, <2>3, <2>4 DEF Results
<1> QED  BY <1>5, <1>6, <1>7

-----------------------------------------------------------------------------
(* The invariant of one job, and of a step that changes one job.           *)

Held(ex) == ex.pc \in {"start", "work", "final", "return"}

JobInv(row, status, ex) ==
  /\ row \in RiverRow /\ status \in Statuses /\ ex \in Execution
  /\ ex.pc # "none" => row.state = "running"
  /\ row.state = "running" => row.left < MaxAttempts
  /\ row.state \in {"none", "available", "waiting"} => row.left > 0
  /\ ex.res = "ok" \/ row.state = "completed" \/ status = "succeeded" => row.worked
  /\ row.state = "none" => status = "none"

Calls == {"idle", "drop", "flip", "reread", "signal"}

\* The inductive invariant says this of every job, and counts the slots.
LEMMA InvByJob ==
  IInv <=> /\ river \in [Jobs -> RiverRow] /\ mirror \in [Jobs -> Statuses]
           /\ exec \in [Jobs -> Execution] /\ api \in [Jobs -> Calls]
           /\ slots \in 0..Cap /\ SlotsCounted
           /\ \A j \in Jobs : JobInv(river[j], mirror[j], exec[j])
  BY DEF IInv, TypeOK, BudgetsSound, WorkedSound, EnqueuedTogether,
         SucceededWasWorked, JobInv, Calls

\* A step that leaves one job with a sound row, status and goroutine, and counts that
\* goroutine, preserves the invariant.
LEMMA OneJob ==
  ASSUME IInv, NEW j \in Jobs, NEW row, NEW status, NEW ex, NEW call \in Calls,
         river' = [river EXCEPT ![j] = row], mirror' = [mirror EXCEPT ![j] = status],
         exec' = [exec EXCEPT ![j] = ex], api' = [api EXCEPT ![j] = call],
         JobInv(row, status, ex),
         slots' \in 0..Cap,
         \/ (Held(ex) <=> Held(exec[j])) /\ slots' = slots
         \/ Held(ex) /\ ~Held(exec[j]) /\ slots' = slots + 1
         \/ ~Held(ex) /\ Held(exec[j]) /\ slots' = slots - 1
  PROVE  IInv'
<1>1. /\ river \in [Jobs -> RiverRow] /\ mirror \in [Jobs -> Statuses]
      /\ exec \in [Jobs -> Execution] /\ api \in [Jobs -> Calls]
      /\ slots \in 0..Cap /\ SlotsCounted
      /\ \A k \in Jobs : JobInv(river[k], mirror[k], exec[k])
  BY InvByJob
<1>2. row \in RiverRow /\ status \in Statuses /\ ex \in Execution
  BY DEF JobInv
<1>3. /\ river' \in [Jobs -> RiverRow] /\ mirror' \in [Jobs -> Statuses]
      /\ exec' \in [Jobs -> Execution] /\ api' \in [Jobs -> Calls]
  BY <1>1, <1>2
<1>4. /\ river'[j] = row /\ mirror'[j] = status /\ exec'[j] = ex
      /\ \A k \in Jobs : k # j => /\ river'[k] = river[k] /\ mirror'[k] = mirror[k]
                                  /\ exec'[k] = exec[k]
  BY <1>1
<1>5. \A k \in Jobs : JobInv(river'[k], mirror'[k], exec'[k])
  BY <1>1, <1>4
<1>6. /\ Holding = {k \in Jobs : Held(exec[k])}
      /\ Holding' = {k \in Jobs : Held(exec'[k])}
  BY DEF Holding, Held
<1>7. SlotsCounted'
  <2>1. CASE (Held(ex) <=> Held(exec[j])) /\ slots' = slots
    <3>1. Holding' = Holding  BY <2>1, <1>4, <1>6
    <3> QED  BY <2>1, <3>1, <1>1 DEF SlotsCounted
  <2>2. CASE Held(ex) /\ ~Held(exec[j]) /\ slots' = slots + 1
    <3>1. j \notin Holding /\ Holding' = Holding \cup {j}  BY <2>2, <1>4, <1>6
    <3> QED  BY <2>2, <3>1, <1>1, EnterHolding DEF SlotsCounted
  <2>3. CASE ~Held(ex) /\ Held(exec[j]) /\ slots' = slots - 1
    <3>1. j \in Holding /\ Holding' = Holding \ {j}  BY <2>3, <1>4, <1>6
    <3> QED  BY <2>3, <3>1, <1>1, LeaveHolding DEF SlotsCounted
  <2> QED  BY <2>1, <2>2, <2>3
<1>8. IInv'
  <2>1. TypeOK'
    BY <1>3 DEF TypeOK, Calls
  <2>2. BudgetsSound' /\ WorkedSound' /\ EnqueuedTogether' /\ SucceededWasWorked'
    BY <1>5 DEF BudgetsSound, WorkedSound, EnqueuedTogether,
        SucceededWasWorked, JobInv
  <2> QED  BY <1>7, <2>1, <2>2 DEF IInv
<1> QED  BY <1>8

\* What is known of one job, and how to read a component that a step leaves alone.
LEMMA ThisJob ==
  ASSUME IInv, NEW j \in Jobs
  PROVE  /\ JobInv(river[j], mirror[j], exec[j]) /\ api[j] \in Calls
         /\ river[j] \in RiverRow /\ mirror[j] \in Statuses /\ exec[j] \in Execution
         /\ river = [river EXCEPT ![j] = river[j]] /\ mirror = [mirror EXCEPT ![j] = mirror[j]]
         /\ exec = [exec EXCEPT ![j] = exec[j]] /\ api = [api EXCEPT ![j] = api[j]]
         /\ slots \in 0..Cap /\ slots = Cardinality(Holding) /\ Cap \in Nat
<1>1. /\ river \in [Jobs -> RiverRow] /\ mirror \in [Jobs -> Statuses]
      /\ exec \in [Jobs -> Execution] /\ api \in [Jobs -> Calls]
      /\ slots \in 0..Cap /\ SlotsCounted
      /\ \A k \in Jobs : JobInv(river[k], mirror[k], exec[k])
  BY InvByJob
<1> QED  BY <1>1, JobsAssumption DEF SlotsCounted

\* A job that no goroutine executes.
LEMMA NotRunType == NotRun \in Execution /\ NotRun.pc = "none" /\ NotRun.res = "none"
  BY DEF NotRun, Execution

\* Enqueue, and River's own steps.
LEMMA RiverSteps ==
  ASSUME IInv, NEW j \in Jobs, Enqueue(j) \/ Fetch(j) \/ Due(j) \/ Rescue(j)
  PROVE  IInv'
<1>j. /\ JobInv(river[j], mirror[j], exec[j]) /\ api[j] \in Calls
      /\ river[j] \in RiverRow /\ mirror[j] \in Statuses /\ exec[j] \in Execution
      /\ river = [river EXCEPT ![j] = river[j]] /\ mirror = [mirror EXCEPT ![j] = mirror[j]]
      /\ exec = [exec EXCEPT ![j] = exec[j]] /\ api = [api EXCEPT ![j] = api[j]]
      /\ slots \in 0..Cap /\ Cap \in Nat
  BY ThisJob
<1>1. CASE Enqueue(j)
  <2> DEFINE row == [river[j] EXCEPT !.state = "available"]
  <2>1. river' = [river EXCEPT ![j] = row]
    BY <1>1 DEF Enqueue
  <2>2. row \in RiverRow /\ row.state = "available" /\ row.left = river[j].left
        /\ row.worked = river[j].worked
    BY <1>j DEF RiverRow, RiverStates
  <2> HIDE DEF row
  <2>3. JobInv(row, "queued", exec[j])
    BY <1>1, <1>j, <2>2 DEF Enqueue, JobInv, Statuses
  <2> QED  BY <1>1, <1>j, <2>1, <2>3, OneJob DEF Enqueue
<1>2. CASE Fetch(j)
  <2> DEFINE row == [river[j] EXCEPT !.state = "running", !.left = @ - 1]
             ex  == [exec[j] EXCEPT !.pc = "limiter"]
  <2>1. river' = [river EXCEPT ![j] = row] /\ exec' = [exec EXCEPT ![j] = ex]
    BY <1>2 DEF Fetch
  <2>2. /\ river[j].left \in 0..MaxAttempts /\ river[j].left > 0 /\ MaxAttempts \in Nat
        /\ exec[j].pc = "none" /\ river[j].state = "available"
    BY <1>2, <1>j, JobsAssumption DEF Fetch, JobInv, RiverRow, Execution
  <2>3. river[j].left - 1 \in 0..MaxAttempts /\ river[j].left - 1 < MaxAttempts
    BY <2>2
  <2>4. /\ row \in RiverRow /\ row.state = "running" /\ row.left = river[j].left - 1
        /\ row.worked = river[j].worked
    BY <1>j, <2>3 DEF RiverRow, RiverStates
  <2>5. ex \in Execution /\ ex.pc = "limiter" /\ ex.res = exec[j].res
    BY <1>j DEF Execution
  <2> HIDE DEF row, ex
  <2>6. JobInv(row, mirror[j], ex)
    BY <1>2, <1>j, <2>2, <2>3, <2>4, <2>5 DEF JobInv
  <2>7. ~Held(ex) /\ ~Held(exec[j])
    BY <2>2, <2>5 DEF Held
  <2> QED  BY <1>2, <1>j, <2>1, <2>6, <2>7, OneJob DEF Fetch
<1>3. CASE Due(j)
  <2> DEFINE row == [river[j] EXCEPT !.state = "available"]
  <2>1. river' = [river EXCEPT ![j] = row]
    BY <1>3 DEF Due
  <2>2. row \in RiverRow /\ row.state = "available" /\ row.left = river[j].left
        /\ row.worked = river[j].worked
    BY <1>j DEF RiverRow, RiverStates
  <2> HIDE DEF row
  <2>3. JobInv(row, mirror[j], exec[j])
    BY <1>3, <1>j, <2>2 DEF Due, JobInv
  <2> QED  BY <1>3, <1>j, <2>1, <2>3, OneJob DEF Due
<1>4. CASE Rescue(j)
  <2> DEFINE row == IF river[j].asked THEN [river[j] EXCEPT !.state = "cancelled"]
                                      ELSE Errored(river[j])
  <2>1. river' = [river EXCEPT ![j] = row]
    BY <1>4 DEF Rescue
  <2>2. river[j].left < MaxAttempts
    BY <1>4, <1>j DEF Rescue, JobInv
  <2>3. Settled(row, river[j]) /\ row.state # "completed"
    <3>1. CASE river[j].asked
      <4>1. /\ row = [river[j] EXCEPT !.state = "cancelled"]
        BY <3>1
      <4>2. row \in RiverRow /\ row.state = "cancelled" /\ row.worked = river[j].worked
        BY <4>1, <1>j DEF RiverRow, RiverStates
      <4> QED  BY <4>2 DEF Settled
    <3>2. CASE ~river[j].asked
      <4>1. row = Errored(river[j])
        BY <3>2
      <4> QED  BY <4>1, <1>j, <2>2, RowsSettle
    <3> QED  BY <3>1, <3>2
  <2> HIDE DEF row
  <2>4. JobInv(row, mirror[j], exec[j])
    BY <1>4, <1>j, <2>3 DEF Rescue, JobInv, Settled
  <2> QED  BY <1>4, <1>j, <2>1, <2>4, OneJob DEF Rescue
<1> QED  BY <1>1, <1>2, <1>3, <1>4

\* A mirror write leaves a sound status: the one asked for, or the one before.
LEMMA WriteType ==
  ASSUME IInv, NEW j \in Jobs, NEW status \in Statuses, TryWrite(j, status)
  PROVE  \E new \in {mirror[j], status} : mirror' = [mirror EXCEPT ![j] = new]
<1>1. mirror = [mirror EXCEPT ![j] = mirror[j]] /\ mirror \in [Jobs -> Statuses]
  BY ThisJob DEF IInv, TypeOK
<1>2. CASE mirror[j] = "cancelled" \/ UNCHANGED mirror
  <2>1. mirror' = mirror
    BY <1>1, <1>2 DEF TryWrite, Write
  <2> QED  BY <1>1, <2>1
<1>3. CASE mirror[j] # "cancelled" /\ ~UNCHANGED mirror
  <2>1. mirror' = [mirror EXCEPT ![j] = status]
    BY <1>1, <1>3 DEF TryWrite, Write
  <2> QED  BY <2>1
<1> QED  BY <1>2, <1>3

\* The limiter.
LEMMA LimiterSteps ==
  ASSUME IInv, NEW j \in Jobs, LimiterSnooze(j) \/ Acquire(j)
  PROVE  IInv'
<1>j. /\ JobInv(river[j], mirror[j], exec[j]) /\ api[j] \in Calls
      /\ river[j] \in RiverRow /\ mirror[j] \in Statuses /\ exec[j] \in Execution
      /\ river = [river EXCEPT ![j] = river[j]] /\ mirror = [mirror EXCEPT ![j] = mirror[j]]
      /\ exec = [exec EXCEPT ![j] = exec[j]] /\ api = [api EXCEPT ![j] = api[j]]
      /\ slots \in 0..Cap /\ slots = Cardinality(Holding) /\ Cap \in Nat
  BY ThisJob
<1>1. CASE LimiterSnooze(j)
  <2>1. river[j].left < MaxAttempts
    BY <1>1, <1>j DEF LimiterSnooze, JobInv, Execution
  <2>2. Settled(Snoozed(river[j]), river[j]) /\ Snoozed(river[j]).state # "completed"
    BY <1>j, <2>1, RowsSettle
  <2>3. JobInv(Snoozed(river[j]), mirror[j], NotRun)
    BY <1>j, <2>2, NotRunType DEF JobInv, Settled
  <2>4. ~Held(NotRun) /\ ~Held(exec[j])
    BY <1>1, NotRunType DEF LimiterSnooze, Held
  <2> QED  BY <1>1, <1>j, <2>3, <2>4, OneJob DEF LimiterSnooze
<1>2. CASE Acquire(j)
  <2> DEFINE ex == [exec[j] EXCEPT !.pc = "start"]
  <2>1. exec' = [exec EXCEPT ![j] = ex]
    BY <1>2 DEF Acquire
  <2>2. ex \in Execution /\ ex.pc = "start" /\ ex.res = exec[j].res
    BY <1>j DEF Execution
  <2> HIDE DEF ex
  <2>3. JobInv(river[j], mirror[j], ex)
    BY <1>2, <1>j, <2>2 DEF JobInv, Acquire
  <2>4. Held(ex) /\ ~Held(exec[j]) /\ slots' = slots + 1 /\ slots' \in 0..Cap
    BY <1>2, <1>j, <2>2 DEF Held, Acquire
  <2>5. /\ river' = [river EXCEPT ![j] = river[j]] /\ mirror' = [mirror EXCEPT ![j] = mirror[j]]
        /\ api' = [api EXCEPT ![j] = api[j]]
    BY <1>2, <1>j DEF Acquire
  <2> QED  BY <1>j, <2>1, <2>3, <2>4, <2>5, OneJob
<1> QED  BY <1>1, <1>2

\* The mirror's two writes around the handler.
LEMMA MirrorSteps ==
  ASSUME IInv, NEW j \in Jobs, MirrorRunning(j) \/ MirrorFinal(j)
  PROVE  IInv'
<1>j. /\ JobInv(river[j], mirror[j], exec[j]) /\ api[j] \in Calls
      /\ river[j] \in RiverRow /\ mirror[j] \in Statuses /\ exec[j] \in Execution
      /\ river = [river EXCEPT ![j] = river[j]] /\ mirror = [mirror EXCEPT ![j] = mirror[j]]
      /\ exec = [exec EXCEPT ![j] = exec[j]] /\ api = [api EXCEPT ![j] = api[j]]
      /\ slots \in 0..Cap /\ slots = Cardinality(Holding) /\ Cap \in Nat
  BY ThisJob
<1>1. CASE MirrorRunning(j)
  <2> DEFINE ex == [exec[j] EXCEPT !.pc = "work"]
  <2>1. exec' = [exec EXCEPT ![j] = ex]
    BY <1>1 DEF MirrorRunning
  <2>2. ex \in Execution /\ ex.pc = "work" /\ ex.res = exec[j].res
    BY <1>j DEF Execution
  <2> HIDE DEF ex
  <2>3. PICK new \in {mirror[j], "running"} : mirror' = [mirror EXCEPT ![j] = new]
    BY <1>1, WriteType DEF MirrorRunning, Statuses
  <2>4. JobInv(river[j], new, ex)
    BY <1>1, <1>j, <2>2, <2>3 DEF JobInv, MirrorRunning, Statuses
  <2>5. Held(ex) /\ Held(exec[j])
    BY <1>1, <2>2 DEF Held, MirrorRunning
  <2> QED  BY <1>1, <1>j, <2>1, <2>3, <2>4, <2>5, OneJob DEF MirrorRunning
<1>2. CASE MirrorFinal(j)
  <2> DEFINE ex     == [exec[j] EXCEPT !.pc = "return"]
             status == FinalStatus(exec[j].res, river[j].left)
  <2>1. exec' = [exec EXCEPT ![j] = ex]
    BY <1>2 DEF MirrorFinal
  <2>2. ex \in Execution /\ ex.pc = "return" /\ ex.res = exec[j].res
    BY <1>j DEF Execution
  <2>3. status \in Statuses /\ (status = "succeeded" => exec[j].res = "ok")
    BY DEF FinalStatus, Statuses
  <2>4. TryWrite(j, status)
    BY <1>2 DEF MirrorFinal
  <2> HIDE DEF ex, status
  <2>5. PICK new \in {mirror[j], status} : mirror' = [mirror EXCEPT ![j] = new]
    BY <2>3, <2>4, WriteType
  <2>6. JobInv(river[j], new, ex)
    BY <1>2, <1>j, <2>2, <2>3, <2>5 DEF JobInv, MirrorFinal
  <2>7. Held(ex) /\ Held(exec[j])
    BY <1>2, <2>2 DEF Held, MirrorFinal
  <2> QED  BY <1>2, <1>j, <2>1, <2>5, <2>6, <2>7, OneJob DEF MirrorFinal
<1> QED  BY <1>1, <1>2

\* The handler, and the record of its result.
LEMMA HandlerSteps ==
  ASSUME IInv, NEW j \in Jobs, (\E res \in Results : HandlerReturns(j, res)) \/ Return(j)
  PROVE  IInv'
<1>j. /\ JobInv(river[j], mirror[j], exec[j]) /\ api[j] \in Calls
      /\ river[j] \in RiverRow /\ mirror[j] \in Statuses /\ exec[j] \in Execution
      /\ river = [river EXCEPT ![j] = river[j]] /\ mirror = [mirror EXCEPT ![j] = mirror[j]]
      /\ exec = [exec EXCEPT ![j] = exec[j]] /\ api = [api EXCEPT ![j] = api[j]]
      /\ slots \in 0..Cap /\ slots = Cardinality(Holding) /\ Cap \in Nat
  BY ThisJob
<1>1. ASSUME NEW res \in Results, HandlerReturns(j, res) PROVE IInv'
  <2> DEFINE row == [river[j] EXCEPT !.worked = @ \/ res = "ok",
                                     !.snoozes = IF res = "snooze" THEN @ + 1 ELSE @]
             ex  == [pc |-> "final", res |-> res]
  <2>1. river' = [river EXCEPT ![j] = row] /\ exec' = [exec EXCEPT ![j] = ex]
    BY <1>1 DEF HandlerReturns
  <2>2. /\ river[j].snoozes \in 0..MaxSnoozes /\ MaxSnoozes \in Nat
        /\ res = "snooze" => river[j].snoozes < MaxSnoozes
    BY <1>1, <1>j, JobsAssumption DEF HandlerReturns, RiverRow
  <2>3. (IF res = "snooze" THEN river[j].snoozes + 1 ELSE river[j].snoozes) \in 0..MaxSnoozes
    BY <2>2
  <2>4. (river[j].worked \/ res = "ok") \in BOOLEAN
    OBVIOUS
  <2>5. /\ row \in RiverRow /\ row.state = river[j].state /\ row.left = river[j].left
        /\ row.worked = (river[j].worked \/ res = "ok")
    BY <1>j, <2>3, <2>4 DEF RiverRow
  <2>6. ex \in Execution /\ ex.pc = "final" /\ ex.res = res
    BY DEF Execution
  <2> HIDE DEF row, ex
  <2>7. JobInv(row, mirror[j], ex)
    BY <1>1, <1>j, <2>5, <2>6 DEF JobInv, HandlerReturns
  <2>8. Held(ex) /\ Held(exec[j])
    BY <1>1, <2>6 DEF Held, HandlerReturns
  <2> QED  BY <1>1, <1>j, <2>1, <2>7, <2>8, OneJob DEF HandlerReturns
<1>2. CASE Return(j)
  <2> DEFINE row == Recorded(river[j], exec[j].res)
  <2>1. river[j].left < MaxAttempts
    BY <1>2, <1>j DEF Return, JobInv
  <2>2. Settled(row, river[j]) /\ (row.state = "completed" => exec[j].res = "ok")
    <3>1. CASE exec[j].res \in Results
      BY <3>1, <1>j, <2>1, RowsSettle
    <3>2. CASE exec[j].res = "none"
      <4>1. row = Errored(river[j])
        BY <3>2 DEF Recorded
      <4> QED  BY <4>1, <1>j, <2>1, RowsSettle
    <3> QED  BY <3>1, <3>2, <1>j DEF Execution
  <2> HIDE DEF row
  <2>3. JobInv(row, mirror[j], NotRun)
    BY <1>j, <2>2, NotRunType DEF JobInv, Settled
  <2>4. ~Held(NotRun) /\ Held(exec[j])
    BY <1>2, NotRunType DEF Held, Return
  <2>5. slots # 0
    <3>1. j \in Holding
      BY <2>4 DEF Holding, Held
    <3> QED  BY <3>1, <1>j, HoldingFinite, FS_EmptySet
  <2>6. slots' = slots - 1 /\ slots' \in 0..Cap
    BY <1>2, <1>j, <2>5 DEF Return, Release
  <2> QED  BY <1>2, <1>j, <2>3, <2>4, <2>6, OneJob DEF Return, row
<1> QED  BY <1>1, <1>2

\* The cancel API.
LEMMA CancelSteps ==
  ASSUME IInv, NEW j \in Jobs, Cancel(j)
  PROVE  IInv'
<1>j. /\ JobInv(river[j], mirror[j], exec[j]) /\ api[j] \in Calls
      /\ river[j] \in RiverRow /\ mirror[j] \in Statuses /\ exec[j] \in Execution
      /\ river = [river EXCEPT ![j] = river[j]] /\ mirror = [mirror EXCEPT ![j] = mirror[j]]
      /\ exec = [exec EXCEPT ![j] = exec[j]] /\ api = [api EXCEPT ![j] = api[j]]
      /\ slots \in 0..Cap /\ Cap \in Nat
  BY ThisJob
<1>1. ASSUME NEW call \in Calls, api' = [api EXCEPT ![j] = call],
             UNCHANGED <<river, mirror, exec, slots>>
      PROVE  IInv'
  BY <1>1, <1>j, OneJob
<1>2. CASE CancelRead(j)
  BY <1>2, <1>1 DEF CancelRead, Calls
<1>3. CASE CancelReread(j)
  BY <1>3, <1>1 DEF CancelReread, Calls
<1>4. CASE CancelAborts(j)
  BY <1>4, <1>1 DEF CancelAborts, Calls
<1>5. CASE CancelFlip(j)
  <2> DEFINE status == IF mirror[j] = "queued" THEN "cancelled" ELSE mirror[j]
             call   == IF mirror[j] = "queued" THEN "idle" ELSE "reread"
  <2>1. mirror' = [mirror EXCEPT ![j] = status] /\ api' = [api EXCEPT ![j] = call]
    BY <1>5 DEF CancelFlip
  <2>2. /\ call \in Calls /\ status \in Statuses
        /\ status = "succeeded" => mirror[j] = "succeeded"
        /\ mirror[j] = "none" => status = "none"
    BY <1>j DEF Calls, Statuses
  <2> HIDE DEF status, call
  <2>3. JobInv(river[j], status, exec[j])
    BY <1>j, <2>2 DEF JobInv
  <2>4. /\ river' = [river EXCEPT ![j] = river[j]] /\ exec' = [exec EXCEPT ![j] = exec[j]]
        /\ slots' = slots
    BY <1>5, <1>j DEF CancelFlip
  <2> QED  BY <1>j, <2>1, <2>2, <2>3, <2>4, OneJob
<1>6. CASE CancelDrop(j) \/ CancelSignal(j)
  <2> DEFINE row == Cancelling(river[j])
  <2>1. PICK call \in Calls : api' = [api EXCEPT ![j] = call]
    BY <1>6 DEF CancelDrop, CancelSignal, Calls
  <2>2. river' = [river EXCEPT ![j] = row] /\ UNCHANGED <<mirror, exec, slots>>
    BY <1>6 DEF CancelDrop, CancelSignal
  <2>3. JobInv(row, mirror[j], exec[j])
    <3>1. CASE river[j].state = "running"
      <4>1. row = [river[j] EXCEPT !.asked = TRUE]
        BY <3>1 DEF Cancelling
      <4>2. /\ row \in RiverRow /\ row.state = river[j].state /\ row.left = river[j].left
            /\ row.worked = river[j].worked
        BY <4>1, <1>j DEF RiverRow
      <4> QED  BY <4>2, <1>j DEF JobInv
    <3>2. CASE river[j].state \in {"available", "waiting"}
      <4>1. row = [river[j] EXCEPT !.state = "cancelled"]
        BY <3>2 DEF Cancelling
      <4>2. row \in RiverRow /\ row.state = "cancelled" /\ row.worked = river[j].worked
        BY <4>1, <1>j DEF RiverRow, RiverStates
      <4> QED  BY <4>2, <3>2, <1>j DEF JobInv
    <3>3. CASE river[j].state \notin {"running", "available", "waiting"}
      <4>1. row = river[j]
        BY <3>3 DEF Cancelling
      <4> QED  BY <4>1, <1>j
    <3> QED  BY <3>1, <3>2, <3>3
  <2> HIDE DEF row
  <2> QED  BY <1>j, <2>1, <2>2, <2>3, OneJob
<1> QED  BY <1>2, <1>3, <1>4, <1>5, <1>6 DEF Cancel

\* A crash empties the worker.
LEMMA CrashStep == IInv /\ Crash => IInv'
<1> SUFFICES ASSUME IInv, Crash PROVE IInv'
  OBVIOUS
<1>1. \A k \in Jobs : exec'[k] = NotRun
  BY DEF Crash
<1>2. Holding' = {}
  BY <1>1, NotRunType DEF Holding
<1>3. TypeOK' /\ SlotsCounted'
  BY <1>2, FS_EmptySet, NotRunType, JobsAssumption DEF Crash, IInv, TypeOK, SlotsCounted
<1>4. BudgetsSound' /\ WorkedSound' /\ EnqueuedTogether' /\ SucceededWasWorked'
  BY <1>1, NotRunType DEF Crash, IInv, BudgetsSound, WorkedSound, EnqueuedTogether,
        SucceededWasWorked
<1> QED  BY <1>3, <1>4 DEF IInv

\* The reconciler finishes the rows of jobs River has finished.
LEMMA ReconcileStep == IInv /\ Reconcile => IInv'
<1> SUFFICES ASSUME IInv, Reconcile PROVE IInv'
  OBVIOUS
<1>1. \A j \in Jobs : \/ mirror'[j] = mirror[j]
                      \/ j \in Drifted /\ mirror'[j] = Mapped(river[j].state)
  BY DEF Reconcile
<1>2. \A j \in Drifted : /\ Mapped(river[j].state) \in Statuses
                         /\ Mapped(river[j].state) = "succeeded" => river[j].state = "completed"
  BY DEF Mapped, Statuses
<1>3. mirror' \in [Jobs -> Statuses]
  BY <1>1, <1>2 DEF Reconcile, IInv, TypeOK
<1>4. SucceededWasWorked' /\ EnqueuedTogether'
  BY <1>1, <1>2 DEF Reconcile, Drifted, RiverDone, IInv, SucceededWasWorked, WorkedSound,
                    EnqueuedTogether
<1>5. Holding' = Holding
  BY DEF Holding, Reconcile
<1> QED  BY <1>3, <1>4, <1>5 DEF Reconcile, IInv, TypeOK, SlotsCounted, BudgetsSound, WorkedSound

-----------------------------------------------------------------------------
\* The inductive invariant holds in every reachable state, for any set of jobs, any
\* attempt budget and any cap, under any of the faults: the limiter's counter is the
\* number of goroutines that hold a slot, no job is requeued without an attempt left,
\* and a success is only ever on its way after the handler returned it.
THEOREM Invariance == Spec => []IInv
<1>1. Init => IInv
  <2> SUFFICES ASSUME Init PROVE IInv
    OBVIOUS
  <2>1. Holding = {}
    BY NotRunType DEF Init, Holding
  <2>2. [state |-> "none", left |-> MaxAttempts, asked |-> FALSE, snoozes |-> 0,
         worked |-> FALSE] \in RiverRow
    BY JobsAssumption DEF RiverRow, RiverStates
  <2>3. TypeOK
    BY <2>2, NotRunType, JobsAssumption DEF Init, TypeOK, Statuses
  <2>4. SlotsCounted
    BY <2>1, FS_EmptySet DEF Init, SlotsCounted
  <2>5. BudgetsSound /\ WorkedSound /\ EnqueuedTogether /\ SucceededWasWorked
    BY NotRunType, JobsAssumption DEF Init, BudgetsSound, WorkedSound, EnqueuedTogether,
        SucceededWasWorked
  <2> QED  BY <2>3, <2>4, <2>5 DEF IInv
<1>2. IInv /\ [Next]_vars => IInv'
  <2> SUFFICES ASSUME IInv, [Next]_vars PROVE IInv'
    OBVIOUS
  <2>1. ASSUME NEW j \in Jobs, Enqueue(j) \/ Work(j) \/ Cancel(j) PROVE IInv'
    BY <2>1, RiverSteps, LimiterSteps, MirrorSteps, HandlerSteps, CancelSteps DEF Work
  <2>2. CASE UNCHANGED vars
    BY <2>2 DEF vars, IInv, TypeOK, SlotsCounted, Holding, BudgetsSound, WorkedSound,
                EnqueuedTogether, SucceededWasWorked
  <2> QED  BY <2>1, <2>2, CrashStep, ReconcileStep DEF Next
<1> QED  BY <1>1, <1>2, PTL DEF Spec

\* The limiter never admits more than Cap jobs of the tenant and never goes below
\* zero, and no job's attempt budget is overdrawn or overfilled (limiter.go).
THEOREM TypeCorrect == Spec => []TypeOK
<1>1. IInv => TypeOK
  BY DEF IInv
<1> QED  BY <1>1, Invariance, PTL

\* A jobs row says succeeded only when the job's handler returned success, however
\* crashes, lost writes, cancels and the reconciler interleave (mirror.go, reconcile.go).
THEOREM SucceededWasWorkedAlways == Spec => []SucceededWasWorked
<1>1. IInv => SucceededWasWorked
  BY DEF IInv
<1> QED  BY <1>1, Invariance, PTL

\* No step takes a cancelled jobs row out of its status (mirror_store.go, reconcile.go).
THEOREM CancelledStaysAlways == Spec => CancelledStays
<1>1. IInv /\ [Next]_vars =>
        [\A j \in Jobs : mirror[j] = "cancelled" => mirror'[j] = "cancelled"]_vars
  <2> SUFFICES ASSUME IInv, Next, NEW j \in Jobs, mirror[j] = "cancelled"
               PROVE  mirror'[j] = "cancelled"
    BY DEF vars
  <2>1. mirror \in [Jobs -> Statuses]
    BY DEF IInv, TypeOK
  <2>2. ASSUME NEW k \in Jobs, NEW status, TryWrite(k, status) PROVE mirror'[j] = "cancelled"
    BY <2>1, <2>2 DEF TryWrite, Write
  <2>3. ASSUME NEW k \in Jobs, Enqueue(k) PROVE mirror'[j] = "cancelled"
    BY <2>1, <2>3 DEF Enqueue, IInv, EnqueuedTogether
  <2>4. ASSUME NEW k \in Jobs, Work(k) PROVE mirror'[j] = "cancelled"
    BY <2>2, <2>4 DEF Work, Fetch, Due, Rescue, LimiterSnooze, Acquire, MirrorRunning,
                      HandlerReturns, MirrorFinal, Return
  <2>5. ASSUME NEW k \in Jobs, Cancel(k) PROVE mirror'[j] = "cancelled"
    BY <2>1, <2>5 DEF Cancel, CancelRead, CancelDrop, CancelFlip, CancelReread, CancelSignal,
                      CancelAborts
  <2>6. CASE Crash \/ Reconcile
    BY <2>6 DEF Crash, Reconcile, Drifted
  <2> QED  BY <2>3, <2>4, <2>5, <2>6 DEF Next
<1> QED  BY <1>1, Invariance, PTL DEF Spec, CancelledStays

\* A tenant never has more than its cap of jobs at work, for any cap and any jobs
\* (limiter.go acquire, release).
THEOREM WithinCapAlways == Spec => []WithinCap
<1>1. IInv => WithinCap
  BY JobsAssumption DEF IInv, TypeOK, SlotsCounted, WithinCap
<1> QED  BY <1>1, Invariance, PTL

-----------------------------------------------------------------------------
(* JobMirror implements JobRecords.                                          *)

\* What a step may do to the two records of one job.
RecordStep(j) ==
  JobRec!Insert(j) \/ JobRec!Report(j) \/ JobRec!End(j) \/ JobRec!Heal(j) \/ JobRec!Same(j)

\* The mapping, job by job, and the types it gives.
LEMMA RecordTypes ==
  ASSUME IInv
  PROVE  /\ Stage \in [Jobs -> {"none", "live"} \cup JobRec!Ends]
         /\ Row \in [Jobs -> {"none", "open"} \cup JobRec!Outcomes]
<1>1. /\ \A j \in Jobs : river[j].state \in RiverStates /\ mirror[j] \in Statuses
  BY DEF IInv, TypeOK, RiverRow
<1>2. \A j \in Jobs : /\ StageOf(river[j].state) \in {"none", "live"} \cup JobRec!Ends
                      /\ RowOf(mirror[j]) \in {"none", "open"} \cup JobRec!Outcomes
  BY <1>1 DEF StageOf, RowOf, RiverStates, Statuses, JobRec!Ends, JobRec!Outcomes
<1> QED  BY <1>2 DEF Stage, Row

LEMMA RecordTypesNext ==
  ASSUME IInv'
  PROVE  /\ Stage' \in [Jobs -> {"none", "live"} \cup JobRec!Ends]
         /\ Row' \in [Jobs -> {"none", "open"} \cup JobRec!Outcomes]
<1>1. /\ \A j \in Jobs : river'[j].state \in RiverStates /\ mirror'[j] \in Statuses
  BY DEF IInv, TypeOK, RiverRow
<1>2. \A j \in Jobs : /\ StageOf(river'[j].state) \in {"none", "live"} \cup JobRec!Ends
                      /\ RowOf(mirror'[j]) \in {"none", "open"} \cup JobRec!Outcomes
  BY <1>1 DEF StageOf, RowOf, RiverStates, Statuses, JobRec!Ends, JobRec!Outcomes
<1> QED  BY <1>2 DEF Stage, Row

LEMMA RecordOf ==
  ASSUME NEW j \in Jobs
  PROVE  /\ Stage[j] = StageOf(river[j].state) /\ Stage'[j] = StageOf(river'[j].state)
         /\ Row[j] = RowOf(mirror[j]) /\ Row'[j] = RowOf(mirror'[j])
  BY DEF Stage, Row

\* A step that touches neither record of a job.
LEMMA RecordKept ==
  ASSUME NEW j \in Jobs, river'[j] = river[j], mirror'[j] = mirror[j]
  PROVE  RecordStep(j)
  BY RecordOf DEF RecordStep, JobRec!Same

\* A job River may still run stays so, and its jobs row too.
LEMMA RecordLives ==
  ASSUME NEW j \in Jobs, river[j].state \in {"available", "running", "waiting"},
         river'[j].state \in {"available", "running", "waiting"}, mirror'[j] = mirror[j]
  PROVE  RecordStep(j)
  BY RecordOf DEF RecordStep, JobRec!Same, StageOf

\* River ends a job, or requeues it, without touching the jobs row.
LEMMA RecordEnds ==
  ASSUME IInv, NEW j \in Jobs, river[j].state \in {"available", "running", "waiting"},
         river'[j].state \in {"waiting", "completed", "discarded", "cancelled"},
         mirror'[j] = mirror[j]
  PROVE  RecordStep(j)
<1>1. CASE river'[j].state = "waiting"
  BY <1>1, RecordLives
<1>2. CASE river'[j].state # "waiting"
  BY <1>2, RecordOf DEF RecordStep, JobRec!End, JobRec!Ends, StageOf
<1> QED  BY <1>1, <1>2

\* A mirror write about a job that runs.
LEMMA RecordWritten ==
  ASSUME IInv, NEW j \in Jobs, river[j].state = "running", river'[j] = river[j],
         NEW status \in {"queued", "running", "succeeded", "failed", "cancelled"},
         TryWrite(j, status)
  PROVE  RecordStep(j)
<1>1. CASE mirror'[j] = mirror[j]
  BY <1>1, RecordKept
<1>2. CASE mirror'[j] # mirror[j]
  <2>1. mirror[j] # "cancelled" /\ mirror'[j] = status
    BY <1>2 DEF TryWrite, Write, IInv, TypeOK
  <2>2. Stage[j] = "live" /\ Stage'[j] = "live"
    BY RecordOf DEF StageOf
  <2>3. Row[j] # "cancelled" /\ Row'[j] \in {"open"} \cup JobRec!Outcomes
    BY <2>1, RecordOf DEF RowOf, JobRec!Outcomes
  <2> QED  BY <2>2, <2>3 DEF RecordStep, JobRec!Report
<1> QED  BY <1>1, <1>2

\* A step of one job leaves the records of the others alone.
LEMMA OthersKept ==
  ASSUME IInv, NEW j \in Jobs, Enqueue(j) \/ Work(j) \/ Cancel(j), NEW k \in Jobs, k # j
  PROVE  river'[k] = river[k] /\ mirror'[k] = mirror[k]
<1>1. river \in [Jobs -> RiverRow] /\ mirror \in [Jobs -> Statuses]
  BY DEF IInv, TypeOK
<1>2. ASSUME NEW status, TryWrite(j, status) PROVE mirror'[k] = mirror[k]
  BY <1>1, <1>2 DEF TryWrite, Write
<1>3. CASE Enqueue(j)
  BY <1>1, <1>3 DEF Enqueue
<1>4. CASE Work(j)
  BY <1>1, <1>2, <1>4 DEF Work, Fetch, Due, Rescue, LimiterSnooze, Acquire, MirrorRunning,
                          HandlerReturns, MirrorFinal, Return
<1>5. CASE Cancel(j)
  BY <1>1, <1>5 DEF Cancel, CancelRead, CancelDrop, CancelFlip, CancelReread, CancelSignal,
                    CancelAborts
<1> QED  BY <1>3, <1>4, <1>5

\* Every step of the worker and of River is a step of the job's records.
LEMMA WorkRecorded ==
  ASSUME IInv, NEW j \in Jobs, Enqueue(j) \/ Work(j)
  PROVE  RecordStep(j)
<1>j. /\ JobInv(river[j], mirror[j], exec[j])
      /\ river[j] \in RiverRow /\ mirror[j] \in Statuses /\ exec[j] \in Execution
      /\ river \in [Jobs -> RiverRow] /\ mirror \in [Jobs -> Statuses]
  BY ThisJob DEF IInv, TypeOK
<1>1. CASE Enqueue(j)
  <2>1. river[j].state = "none" /\ mirror[j] = "none"
    BY <1>1, <1>j DEF Enqueue, JobInv
  <2>2. river'[j].state = "available" /\ mirror'[j] = "queued"
    BY <1>1, <1>j DEF Enqueue, RiverRow
  <2> QED  BY <2>1, <2>2, RecordOf DEF RecordStep, JobRec!Insert, StageOf, RowOf
<1>2. CASE Fetch(j) \/ Due(j)
  <2>1. /\ river[j].state \in {"available", "waiting"} /\ mirror'[j] = mirror[j]
        /\ river'[j].state \in {"available", "running"}
    BY <1>2, <1>j DEF Fetch, Due, RiverRow
  <2> QED  BY <2>1, RecordLives
<1>3. CASE Rescue(j)
  <2>1. river[j].state = "running" /\ river[j].left < MaxAttempts /\ mirror'[j] = mirror[j]
    BY <1>3, <1>j DEF Rescue, JobInv
  <2>2. river'[j].state \in {"waiting", "completed", "discarded", "cancelled"}
    <3>1. CASE river[j].asked
      BY <3>1, <1>3, <1>j DEF Rescue, RiverRow
    <3>2. CASE ~river[j].asked
      <4>1. river'[j] = Errored(river[j])
        BY <3>2, <1>3, <1>j DEF Rescue
      <4> QED  BY <4>1, <2>1, <1>j, RowsSettle DEF Settled
    <3> QED  BY <3>1, <3>2
  <2> QED  BY <2>1, <2>2, RecordEnds
<1>4. CASE LimiterSnooze(j) \/ Return(j)
  <2>1. river[j].state = "running" /\ river[j].left < MaxAttempts /\ mirror'[j] = mirror[j]
    BY <1>4, <1>j DEF LimiterSnooze, Return, JobInv
  <2>2. river'[j] = Snoozed(river[j]) \/ river'[j] = Recorded(river[j], exec[j].res)
    BY <1>4, <1>j DEF LimiterSnooze, Return
  <2>3. exec[j].res \in Results \/ Recorded(river[j], exec[j].res) = Errored(river[j])
    BY <1>j DEF Execution, Recorded
  <2>4. river'[j].state \in {"waiting", "completed", "discarded", "cancelled"}
    BY <2>1, <2>2, <2>3, <1>j, RowsSettle DEF Settled
  <2> QED  BY <2>1, <2>4, RecordEnds
<1>5. CASE Acquire(j)
  BY <1>5, RecordKept DEF Acquire
<1>6. CASE MirrorRunning(j)
  <2>1. river[j].state = "running" /\ river'[j] = river[j] /\ TryWrite(j, "running")
    BY <1>6, <1>j DEF MirrorRunning, JobInv
  <2> QED  BY <2>1, RecordWritten
<1>7. CASE \E res \in Results : HandlerReturns(j, res)
  <2>1. river[j].state = "running" /\ river'[j].state = "running" /\ mirror'[j] = mirror[j]
    BY <1>7, <1>j DEF HandlerReturns, JobInv, RiverRow
  <2> QED  BY <2>1, RecordLives
<1>8. CASE MirrorFinal(j)
  <2> DEFINE status == FinalStatus(exec[j].res, river[j].left)
  <2>1. river[j].state = "running" /\ river'[j] = river[j] /\ TryWrite(j, status)
    BY <1>8, <1>j DEF MirrorFinal, JobInv
  <2>2. status \in {"queued", "running", "succeeded", "failed", "cancelled"}
    BY DEF FinalStatus
  <2> HIDE DEF status
  <2> QED  BY <2>1, <2>2, RecordWritten
<1> QED  BY <1>1, <1>2, <1>3, <1>4, <1>5, <1>6, <1>7, <1>8 DEF Work

\* So is every step of a cancel request.
LEMMA CancelRecorded ==
  ASSUME IInv, NEW j \in Jobs, Cancel(j)
  PROVE  RecordStep(j)
<1>j. /\ JobInv(river[j], mirror[j], exec[j])
      /\ river[j] \in RiverRow /\ mirror[j] \in Statuses
      /\ river \in [Jobs -> RiverRow] /\ mirror \in [Jobs -> Statuses]
  BY ThisJob DEF IInv, TypeOK
<1>1. CASE CancelRead(j) \/ CancelReread(j) \/ CancelAborts(j)
  BY <1>1, RecordKept DEF CancelRead, CancelReread, CancelAborts
<1>2. CASE CancelDrop(j) \/ CancelSignal(j)
  <2>1. river'[j] = Cancelling(river[j]) /\ mirror'[j] = mirror[j]
    BY <1>2, <1>j DEF CancelDrop, CancelSignal
  <2>2. CASE river[j].state = "running"
    <3>1. river'[j].state = "running"
      BY <2>1, <2>2, <1>j DEF Cancelling, RiverRow
    <3> QED  BY <3>1, <2>1, <2>2, RecordLives
  <2>3. CASE river[j].state \in {"available", "waiting"}
    <3>1. river'[j].state = "cancelled"
      BY <2>1, <2>3, <1>j DEF Cancelling, RiverRow
    <3> QED  BY <3>1, <2>1, <2>3, RecordEnds
  <2>4. CASE river[j].state \notin {"running", "available", "waiting"}
    BY <2>1, <2>4, RecordKept DEF Cancelling
  <2> QED  BY <2>2, <2>3, <2>4
<1>3. CASE CancelFlip(j)
  <2>1. river' = river
    BY <1>3 DEF CancelFlip
  <2>2. CASE mirror[j] # "queued"
    BY <1>3, <2>1, <2>2, <1>j, RecordKept DEF CancelFlip
  <2>3. CASE mirror[j] = "queued"
    <3>1. mirror'[j] = "cancelled" /\ river[j].state # "none"
      BY <1>3, <2>3, <1>j DEF CancelFlip, JobInv
    <3>2. Row[j] = "open" /\ Row'[j] = "cancelled" /\ Stage'[j] = Stage[j]
      BY <2>1, <2>3, <3>1, RecordOf DEF RowOf
    <3>3. Stage[j] = "live" \/ Stage[j] \in JobRec!Ends
      BY <3>1, <1>j, RecordOf DEF StageOf, RiverRow, RiverStates, JobRec!Ends
    <3> QED  BY <3>2, <3>3 DEF RecordStep, JobRec!Report, JobRec!Heal, JobRec!Outcomes
  <2> QED  BY <2>2, <2>3
<1> QED  BY <1>1, <1>2, <1>3 DEF Cancel

\* The reconciler heals the records it finds drifted, all in one statement.
LEMMA ReconcileRecorded ==
  ASSUME IInv, Reconcile, NEW j \in Jobs
  PROVE  RecordStep(j)
<1>1. river' = river
  BY DEF Reconcile
<1>2. CASE j \notin Drifted
  BY <1>1, <1>2, RecordKept DEF Reconcile
<1>3. CASE j \in Drifted
  <2>1. /\ mirror[j] \in {"queued", "running"} /\ mirror'[j] = Mapped(river[j].state)
        /\ river[j].state \in {"completed", "discarded", "cancelled"}
    BY <1>3 DEF Reconcile, Drifted, RiverDone
  <2>2. /\ Stage[j] = river[j].state /\ Stage'[j] = Stage[j] /\ Stage[j] \in JobRec!Ends
        /\ Row[j] = "open"
    BY <1>1, <2>1, RecordOf DEF StageOf, RowOf, JobRec!Ends
  <2>3. Row'[j] = JobRec!OutcomeOf[Stage[j]]
    <3>1. Mapped(river[j].state) = JobRec!OutcomeOf[river[j].state]
      BY <2>1 DEF Mapped, JobRec!OutcomeOf
    <3>2. RowOf(Mapped(river[j].state)) = Mapped(river[j].state)
      BY DEF RowOf, Mapped
    <3> QED  BY <2>1, <2>2, <3>1, <3>2, RecordOf
  <2> QED  BY <2>2, <2>3 DEF RecordStep, JobRec!Heal
<1> QED  BY <1>2, <1>3

\* Queue, worker, cancel API and reconciler implement the promises about a job's two
\* records: the jobs row appears with the River job, a cancelled row stays cancelled, an
\* open row of a finished job takes River's outcome or that of a cancel, and a job that is
\* finished in both never changes again (ADR-0060).
THEOREM ImplementsJobRecords == Spec => RecordsSpec
<1>1. Init => JobRec!Init
  <2> SUFFICES ASSUME Init PROVE JobRec!Init
    OBVIOUS
  <2>1. \A j \in Jobs : StageOf(river[j].state) = "none" /\ RowOf(mirror[j]) = "none"
    BY DEF Init, StageOf, RowOf
  <2> QED  BY <2>1 DEF JobRec!Init, Stage, Row
<1>2. IInv /\ IInv' /\ [Next]_vars => [JobRec!Next]_<<Stage, Row>>
  <2> SUFFICES ASSUME IInv, IInv', [Next]_vars PROVE [JobRec!Next]_<<Stage, Row>>
    OBVIOUS
  <2>1. ASSUME \A j \in Jobs : RecordStep(j) PROVE JobRec!Next
    BY <2>1, RecordTypesNext DEF JobRec!Next, RecordStep
  <2>2. ASSUME NEW j \in Jobs, Enqueue(j) \/ Work(j) \/ Cancel(j) PROVE JobRec!Next
    <3>1. RecordStep(j)
      BY <2>2, WorkRecorded, CancelRecorded
    <3>2. \A k \in Jobs : RecordStep(k)
      BY <3>1, <2>2, OthersKept, RecordKept
    <3> QED  BY <3>2, <2>1
  <2>3. CASE Crash
    BY <2>3 DEF Crash, Stage, Row
  <2>4. CASE Reconcile
    BY <2>4, <2>1, ReconcileRecorded
  <2>5. CASE UNCHANGED vars
    BY <2>5 DEF vars, Stage, Row
  <2> QED  BY <2>2, <2>3, <2>4, <2>5 DEF Next
<1> QED  BY <1>1, <1>2, Invariance, PTL DEF Spec, RecordsSpec, JobRec!Spec

-----------------------------------------------------------------------------
(* The API connector.                                                        *)

\* The walks over SourceIndex's source.
A == INSTANCE ApiConnector

-----------------------------------------------------------------------------
(* Places in a listing.                                                      *)

\* A set of naturals has a least element.
LEMMA WellOrder ==
  ASSUME NEW T \in SUBSET Nat, T # {}
  PROVE  \E x \in T : \A y \in T : x <= y
<1> DEFINE R == {ss \in Nat \X Nat : ss[1] < ss[2]}
<1>1. IsWellFoundedOn(R, Nat)
  BY NatLessThanWellFounded DEF OpToRel
<1>2. \A x, y \in Nat : y < x => <<y, x>> \in R
  OBVIOUS
<1>3. \E x \in T : \A y \in T : ~ (<<y, x>> \in R)
  <2> HIDE DEF R
  <2> QED  BY <1>1, WFMin
<1>4. PICK x \in T : \A y \in T : ~ (<<y, x>> \in R)
  BY <1>3
<1> HIDE DEF R
<1>5. \A y \in T : x <= y
  <2> TAKE y \in T
  <2>1. x \in Nat /\ y \in Nat /\ ~ (y < x)
    BY <1>2, <1>4
  <2> QED  BY <2>1
<1> QED  BY <1>5

\* The two copies of an operator of the libraries agree.
LEMMA SameCardinality == \A S : A!Cardinality(S) = Cardinality(S)
BY DEF A!Cardinality, Cardinality

LEMMA MaxOfSet ==
  ASSUME NEW m \in Nat, NEW S \in SUBSET (0..m), S # {}
  PROVE  A!Max(S) \in S /\ \A y \in S : A!Max(S) >= y
<1> DEFINE T == {b \in Nat : \A y \in S : b >= y}
<1>1. m \in T
  OBVIOUS
<1>2. PICK b \in T : \A c \in T : b <= c
  <2> HIDE DEF T
  <2>1. T \in SUBSET Nat
    BY DEF T
  <2> QED  BY <1>1, <2>1, WellOrder
<1>3. b \in S
  <2> SUFFICES ASSUME b \notin S PROVE FALSE
    OBVIOUS
  <2>1. ASSUME NEW y \in S PROVE y \in Nat /\ b >= y + 1
    <3>1. y \in Nat /\ b \in Nat /\ b >= y /\ b # y
      BY <1>2
    <3> QED  BY <3>1
  <2>2. PICK z \in S : TRUE
    OBVIOUS
  <2>3. b - 1 \in Nat /\ ~ (b <= b - 1)
    BY <1>2, <2>1, <2>2
  <2>4. \A y \in S : b - 1 >= y
    BY <1>2, <2>1
  <2> QED  BY <1>2, <2>3, <2>4
<1>4. \E x \in S : \A y \in S : x >= y
  BY <1>2, <1>3
<1> QED  BY <1>4 DEF A!Max

LEMMA MaxOfTwo ==
  ASSUME NEW a \in Nat, NEW b \in Nat
  PROVE  A!Max({a, b}) = IF a >= b THEN a ELSE b
<1> DEFINE m == IF a >= b THEN a ELSE b
<1>1. m \in {a, b} /\ \A y \in {a, b} : m >= y
  OBVIOUS
<1>2. \A x \in {a, b} : (\A y \in {a, b} : x >= y) => x = m
  OBVIOUS
<1> HIDE DEF m
<1>3. A!Max({a, b}) = m
  BY <1>1, <1>2 DEF A!Max
<1> QED  BY <1>3 DEF m

LEMMA MinOfTwo ==
  ASSUME NEW a \in Nat, NEW b \in Nat
  PROVE  A!Min({a, b}) = IF a <= b THEN a ELSE b
<1> DEFINE m == IF a <= b THEN a ELSE b
<1>1. m \in {a, b} /\ \A y \in {a, b} : m <= y
  OBVIOUS
<1>2. \A x \in {a, b} : (\A y \in {a, b} : x <= y) => x = m
  OBVIOUS
<1> HIDE DEF m
<1>3. A!Min({a, b}) = m
  BY <1>1, <1>2 DEF A!Min
<1> QED  BY <1>3 DEF m

\* The place of an index among those of S.
Rank(S, i) == Cardinality({j \in S : j <= i})

LEMMA RankTypes ==
  ASSUME NEW m \in Nat, NEW S \in SUBSET (1..m), NEW i \in Nat
  PROVE  /\ IsFiniteSet({j \in S : j <= i}) /\ Rank(S, i) \in Nat /\ Rank(S, i) <= Cardinality(S)
         /\ Cardinality(S) \in Nat /\ Cardinality(S) <= m /\ IsFiniteSet(S)
<1>1. IsFiniteSet(1..m) /\ Cardinality(1..m) = m
  BY FS_Interval
<1>2. IsFiniteSet(S) /\ Cardinality(S) <= m /\ Cardinality(S) \in Nat
  BY <1>1, FS_Subset, FS_CardinalityType
<1>3. {j \in S : j <= i} \in SUBSET S
  OBVIOUS
<1> QED  BY <1>2, <1>3, FS_Subset, FS_CardinalityType DEF Rank

\* One index further on, the place grows by one where the index is in S.
LEMMA RankNext ==
  ASSUME NEW m \in Nat, NEW S \in SUBSET (1..m), NEW i \in Nat
  PROVE  Rank(S, i + 1) = IF i + 1 \in S THEN Rank(S, i) + 1 ELSE Rank(S, i)
<1>1. IsFiniteSet({j \in S : j <= i}) /\ i + 1 \notin {j \in S : j <= i}
  BY RankTypes
<1>2. ASSUME NEW j \in S PROVE j <= i + 1 <=> j <= i \/ j = i + 1
  <2>1. j \in Nat
    OBVIOUS
  <2> QED  BY <2>1
<1>3. CASE i + 1 \in S
  <2>1. {j \in S : j <= i + 1} = {j \in S : j <= i} \cup {i + 1}
    BY <1>2, <1>3, Zenon
  <2> QED  BY <1>1, <1>3, <2>1, FS_AddElement DEF Rank
<1>4. CASE i + 1 \notin S
  <2>1. {j \in S : j <= i + 1} = {j \in S : j <= i}
    BY <1>2, <1>4, Zenon
  <2> QED  BY <1>4, <2>1 DEF Rank
<1> QED  BY <1>3, <1>4

\* A larger set, or a later index, gives a later place; of two indexes of S strictly.
LEMMA RankMonotone ==
  ASSUME NEW m \in Nat, NEW S \in SUBSET (1..m), NEW T \in SUBSET S, NEW i \in Nat, NEW k \in Nat, i <= k
  PROVE  Rank(T, i) <= Rank(S, k) /\ (k \in S /\ i < k => Rank(S, i) < Rank(S, k))
<1>1. /\ IsFiniteSet({j \in S : j <= k}) /\ IsFiniteSet({j \in S : j <= i})
      /\ Rank(S, i) \in Nat /\ Rank(S, k) \in Nat
  BY RankTypes
<1>0. ASSUME NEW j \in S PROVE j <= i => j <= k
  <2>1. j \in Nat
    OBVIOUS
  <2> QED  BY <2>1
<1>2. {j \in T : j <= i} \in SUBSET {j \in S : j <= k}
  BY <1>0
<1>3. Rank(T, i) <= Rank(S, k)
  BY <1>1, <1>2, FS_Subset DEF Rank
<1>4. ASSUME k \in S, i < k PROVE Rank(S, i) < Rank(S, k)
  <2>0. ~ (k <= i) /\ k <= k
    BY <1>4
  <2>1. {j \in S : j <= i} \in SUBSET {j \in S : j <= k} /\ {j \in S : j <= i} # {j \in S : j <= k}
    BY <1>0, <1>4, <2>0
  <2>2. Rank(S, i) <= Rank(S, k) /\ Rank(S, i) # Rank(S, k)
    BY <1>1, <2>1, FS_Subset DEF Rank
  <2> QED  BY <1>1, <2>2
<1> QED  BY <1>3, <1>4

\* Every place up to that of an index is that of an index of S.
LEMMA RankHits ==
  ASSUME NEW m \in Nat, NEW S \in SUBSET (1..m), NEW i \in Nat, NEW p \in 1..Rank(S, i)
  PROVE  \E j \in S : j <= i /\ Rank(S, j) = p
<1>1. \A j \in Nat : Rank(S, j) \in Nat
  BY RankTypes
<1>2. \A j \in Nat : Rank(S, j + 1) = IF j + 1 \in S THEN Rank(S, j) + 1 ELSE Rank(S, j)
  BY RankNext
<1>3. Rank(S, 0) = 0
  <2>0. ASSUME NEW j \in S PROVE ~ (j <= 0)
    <3>1. j \in 1..m
      OBVIOUS
    <3> QED  BY <3>1
  <2>1. {j \in S : j <= 0} = {}
    BY <2>0
  <2> QED  BY <2>1, FS_EmptySet DEF Rank
<1> DEFINE T == {j \in Nat : Rank(S, j) >= p}
<1>4. p \in Nat /\ p >= 1 /\ p <= Rank(S, i)
  BY <1>1
<1>5. i \in T /\ T \in SUBSET Nat
  BY <1>1, <1>4
<1>6. PICK j \in T : \A y \in T : j <= y
  <2> HIDE DEF T
  <2> QED  BY <1>5, WellOrder
<1>7. j \in Nat /\ Rank(S, j) >= p /\ j # 0 /\ j <= i
  BY <1>3, <1>4, <1>5, <1>6
<1>8. j - 1 \in Nat /\ (j - 1) + 1 = j
  BY <1>7
<1>9. Rank(S, j) = IF j \in S THEN Rank(S, j - 1) + 1 ELSE Rank(S, j - 1)
  BY <1>2, <1>8
<1>10. ~ (Rank(S, j - 1) >= p)
  BY <1>6, <1>8
<1>11. Rank(S, j) \in Nat /\ Rank(S, j - 1) \in Nat
  BY <1>1, <1>7, <1>8
<1>12. j \in S
  BY <1>4, <1>7, <1>9, <1>10, <1>11
<1> QED  BY <1>4, <1>7, <1>9, <1>10, <1>11, <1>12

\* The elements of S whose places lie in an interval: no more than the interval is long.
LEMMA RankBound ==
  ASSUME NEW m \in Nat, NEW S \in SUBSET (1..m), NEW lo \in Nat, NEW hi \in Nat, lo <= hi,
         NEW P \in SUBSET S, \A j \in P : Rank(S, j) > lo /\ Rank(S, j) <= hi
  PROVE  IsFiniteSet(P) /\ Cardinality(P) \in Nat /\ Cardinality(P) <= hi - lo
<1> DEFINE f == [j \in P |-> Rank(S, j)]
           T == (lo + 1)..hi
<1>1. ASSUME NEW j \in P PROVE j \in Nat /\ j \in S /\ Rank(S, j) \in T
  <2>1. j \in S /\ j \in Nat
    OBVIOUS
  <2>2. Rank(S, j) \in Nat
    BY <2>1, RankTypes
  <2> QED  BY <2>1, <2>2
<1>2. ASSUME NEW j \in P, NEW k \in P, Rank(S, j) = Rank(S, k) PROVE j = k
  <2>1. j \in Nat /\ k \in Nat /\ j \in S /\ k \in S /\ Rank(S, j) \in Int /\ Rank(S, k) \in Int
    BY <1>1
  <2>2. ~ (j < k) /\ ~ (k < j)
    <3>1. S \in SUBSET S
      OBVIOUS
    <3>2. ASSUME j < k PROVE FALSE
      <4>1. j <= k
        BY <2>1, <3>2
      <4>2. Rank(S, j) < Rank(S, k)
        BY <2>1, <3>1, <3>2, <4>1, RankMonotone
      <4> QED  BY <1>2, <2>1, <4>2
    <3>3. ASSUME k < j PROVE FALSE
      <4>1. k <= j
        BY <2>1, <3>3
      <4>2. Rank(S, k) < Rank(S, j)
        BY <2>1, <3>1, <3>3, <4>1, RankMonotone
      <4> QED  BY <1>2, <2>1, <4>2
    <3> QED  BY <3>2, <3>3
  <2> QED  BY <2>1, <2>2
<1>3. f \in Injection(P, T)
  <2>1. f \in [P -> T]
    BY <1>1
  <2>2. \A a, b \in P : f[a] = f[b] => a = b
    <3>1. \A a \in P : f[a] = Rank(S, a)
      OBVIOUS
    <3> HIDE DEF f
    <3> QED  BY <1>2, <3>1
  <2> HIDE DEF f, T
  <2> QED  BY <2>1, <2>2 DEF Injection, IsInjective
<1>4. IsFiniteSet(T) /\ Cardinality(T) = hi - lo
  <2>1. lo + 1 \in Int /\ hi \in Int /\ lo \in Int
    OBVIOUS
  <2>2. IsFiniteSet(T) /\ Cardinality(T) = IF lo + 1 > hi THEN 0 ELSE hi - (lo + 1) + 1
    BY <2>1, FS_Interval
  <2> HIDE DEF T
  <2>3. (IF lo + 1 > hi THEN 0 ELSE hi - (lo + 1) + 1) = hi - lo
    BY <2>1
  <2> QED  BY <2>2, <2>3
<1> HIDE DEF f, T
<1>5. IsFiniteSet(P) /\ Cardinality(P) <= hi - lo
  BY <1>3, <1>4, FS_Injection
<1> QED  BY <1>5, FS_CardinalityType

\* When an element lies beyond the interval, the places in it are all taken.
LEMMA RankFull ==
  ASSUME NEW m \in Nat, NEW S \in SUBSET (1..m), NEW lo \in Nat, NEW p \in Nat,
         NEW i \in S, Rank(S, i) > lo + p,
         NEW P \in SUBSET S, \A j \in S : Rank(S, j) > lo /\ Rank(S, j) <= lo + p => j \in P
  PROVE  IsFiniteSet(P) /\ Cardinality(P) \in Nat /\ Cardinality(P) >= p
<1> DEFINE T == (lo + 1)..(lo + p)
           g == [q \in T |-> CHOOSE j \in P : Rank(S, j) = q]
<1>1. ASSUME NEW q \in T PROVE \E j \in P : Rank(S, j) = q
  <2>1. i \in Nat
    OBVIOUS
  <2>2. Rank(S, i) \in Nat
    BY <2>1, RankTypes
  <2>3. q \in 1..Rank(S, i) /\ q > lo /\ q <= lo + p
    BY <2>2
  <2>4. PICK j \in S : j <= i /\ Rank(S, j) = q
    BY <2>1, <2>3, RankHits
  <2> QED  BY <2>3, <2>4
<1>2. ASSUME NEW q \in T PROVE g[q] \in P /\ Rank(S, g[q]) = q
  <2> QED  BY <1>1
<1>3. g \in Injection(T, P)
  <2>1. g \in [T -> P]
    <3> HIDE DEF T
    <3>1. \A q \in T : g[q] \in P
      BY <1>2
    <3> QED  BY <3>1
  <2>2. \A a, b \in T : g[a] = g[b] => a = b
    <3> HIDE DEF T, g
    <3> QED  BY <1>2
  <2> HIDE DEF T, g
  <2> QED  BY <2>1, <2>2 DEF Injection, IsInjective
<1>4. IsFiniteSet(P) /\ Cardinality(P) \in Nat
  <2>1. IsFiniteSet(S) /\ P \in SUBSET S
    <3>1. m \in Nat
      OBVIOUS
    <3> QED  BY <3>1, RankTypes
  <2> QED  BY <2>1, FS_Subset, FS_CardinalityType
<1>5. IsFiniteSet(T) /\ Cardinality(T) = p
  <2>1. lo + 1 \in Int /\ lo + p \in Int
    OBVIOUS
  <2> QED  BY <2>1, FS_Interval
<1>6. p <= Cardinality(P)
  <2> HIDE DEF g, T
  <2> QED  BY <1>3, <1>4, <1>5, FS_Injection
<1> QED  BY <1>4, <1>6

\* The first place is 1.
LEMMA RankPositive ==
  ASSUME NEW m \in Nat, NEW S \in SUBSET (1..m), NEW i \in S
  PROVE  Rank(S, i) \in Nat /\ Rank(S, i) >= 1
<1>1. i \in Nat /\ i - 1 \in Nat /\ (i - 1) + 1 = i
  OBVIOUS
<1>2. Rank(S, i) = Rank(S, i - 1) + 1
  <2>1. Rank(S, (i - 1) + 1) = IF (i - 1) + 1 \in S THEN Rank(S, i - 1) + 1 ELSE Rank(S, i - 1)
    BY <1>1, RankNext
  <2> QED  BY <1>1, <2>1
<1>3. Rank(S, i - 1) \in Nat
  BY <1>1, RankTypes
<1> QED  BY <1>2, <1>3

-----------------------------------------------------------------------------
(* The walk of an endpoint.                                                  *)

\* What is assumed of the constants is assumed of the instance.
LEMMA SameAssumption == A!ApiAssumption
BY ApiAssumption DEF A!ApiAssumption, A!Records, A!Ends, A!Ids, A!ConfigOK, ApiAssumption, Records, Ends, Ids, ConfigOK

LEMMA ConstantTypes ==
  /\ NEnds \in Nat \ {0} /\ NRecords \in Nat \ {0} /\ ServerPage \in Nat \ {0}
  /\ DefaultPageSize \in Nat \ {0} /\ DefaultMaxPages \in Nat \ {0}
  /\ MaxRetries \in Nat /\ JobAttempts \in Nat \ {0} /\ MaxJobs \in Nat /\ MaxChanges \in Nat /\ MaxFaults \in Nat
  /\ A!Ids = 1..NRecords /\ A!Ends = 1..NEnds /\ A!Keys = 0..NRecords
BY SameAssumption DEF A!ApiAssumption, A!Ids, A!Ends, A!Keys

\* The configuration of the source.
LEMMA ConfigIs ==
  A!TypeOK => /\ cfg.type \in {"none", "page", "offset", "cursor", "link-header"}
              /\ cfg.size \in Nat /\ cfg.maxPages \in Nat /\ cfg.ided \in BOOLEAN
              /\ A!Limit \in Nat \ {0} /\ A!PerPage \in Nat \ {0}
              /\ cfg.type = "offset" => A!PerPage <= A!Limit /\ (A!HonoursSize => A!PerPage = A!Limit)
              /\ cfg.type = "page" /\ cfg.size > 0 /\ A!HonoursSize => A!PerPage = cfg.size
              /\ A!ByCursor \in BOOLEAN
<1> SUFFICES ASSUME A!TypeOK
             PROVE  /\ cfg.type \in {"none", "page", "offset", "cursor", "link-header"}
                    /\ cfg.size \in Nat /\ cfg.maxPages \in Nat /\ cfg.ided \in BOOLEAN
                    /\ A!Limit \in Nat \ {0} /\ A!PerPage \in Nat \ {0}
                    /\ cfg.type = "offset" => A!PerPage <= A!Limit /\ (A!HonoursSize => A!PerPage = A!Limit)
                    /\ cfg.type = "page" /\ cfg.size > 0 /\ A!HonoursSize => A!PerPage = cfg.size
                    /\ A!ByCursor \in BOOLEAN
  OBVIOUS
<1>1. cfg \in Configs /\ A!ConfigOK(cfg)
  BY SameAssumption DEF A!TypeOK, A!ApiAssumption
<1>2. cfg.size \in Nat /\ cfg.maxPages \in Nat
  BY <1>1 DEF A!ConfigOK
<1>3. A!Limit \in Nat \ {0}
  BY <1>2, ConstantTypes DEF A!Limit
<1>4. /\ A!Min({cfg.size, ServerPage}) = IF cfg.size <= ServerPage THEN cfg.size ELSE ServerPage
      /\ A!Min({A!Limit, ServerPage}) = IF A!Limit <= ServerPage THEN A!Limit ELSE ServerPage
  BY <1>2, <1>3, ConstantTypes, MinOfTwo
<1>5. A!PerPage \in Nat \ {0}
  BY <1>1, <1>2, <1>3, <1>4, ConstantTypes DEF A!PerPage, A!ConfigOK
<1>6. cfg.type = "offset" => A!PerPage <= A!Limit /\ (A!HonoursSize => A!PerPage = A!Limit)
  BY <1>3, <1>4, ConstantTypes DEF A!PerPage, A!HonoursSize
<1>7. cfg.type = "page" /\ cfg.size > 0 /\ A!HonoursSize => A!PerPage = cfg.size
  BY <1>2, <1>4, ConstantTypes DEF A!PerPage, A!HonoursSize
<1> QED  BY <1>1, <1>2, <1>3, <1>5, <1>6, <1>7 DEF A!ConfigOK, A!ByCursor

\* The listing from the walk's position on; for a walk by position the whole listing.
Span == {j \in A!Listed : A!ByCursor => j > run.next}

LEMMA SpanTypes ==
  A!TypeOK => /\ Span \in SUBSET (1..NRecords) /\ run.next \in Nat /\ A!Offset \in Nat
              /\ \A i : i \in Span => i \in Nat /\ Rank(Span, i) \in Nat /\ Rank(Span, i) >= 1
<1> SUFFICES ASSUME A!TypeOK
             PROVE  /\ Span \in SUBSET (1..NRecords) /\ run.next \in Nat /\ A!Offset \in Nat
                    /\ \A i : i \in Span => i \in Nat /\ Rank(Span, i) \in Nat /\ Rank(Span, i) >= 1
  OBVIOUS
<1>1. Span \in SUBSET (1..NRecords)
  BY ConstantTypes DEF Span, A!Listed
<1>2. run.next \in Nat /\ A!Offset \in Nat
  BY DEF A!TypeOK, A!Walk, A!Offset
<1>3. ASSUME NEW i, i \in Span PROVE i \in Nat /\ Rank(Span, i) \in Nat /\ Rank(Span, i) >= 1
  <2>1. NRecords \in Nat /\ i \in Nat
    BY <1>1, <1>3, ConstantTypes
  <2> QED  BY <1>1, <1>3, <2>1, RankPositive
<1> QED  BY <1>1, <1>2, <1>3

LEMMA AheadIs ==
  A!TypeOK => /\ \A i : A!Place(i) = Rank(Span, i)
              /\ \A i : A!Ahead(i) <=> i \in Span /\ Rank(Span, i) > A!Offset
              /\ A!Left = {i \in Span : Rank(Span, i) > A!Offset}
              /\ A!Page = {i \in Span : Rank(Span, i) > A!Offset /\ Rank(Span, i) <= A!Offset + A!PerPage}
<1> SUFFICES ASSUME A!TypeOK
             PROVE  /\ \A i : A!Place(i) = Rank(Span, i)
                    /\ \A i : A!Ahead(i) <=> i \in Span /\ Rank(Span, i) > A!Offset
                    /\ A!Left = {i \in Span : Rank(Span, i) > A!Offset}
                    /\ A!Page = {i \in Span : Rank(Span, i) > A!Offset /\ Rank(Span, i) <= A!Offset + A!PerPage}
  OBVIOUS
<1>1. ASSUME NEW i PROVE A!Place(i) = Rank(Span, i)
  <2>1. {j \in A!Listed : j <= i /\ (A!ByCursor => j > run.next)} = {j \in Span : j <= i}
    BY DEF Span
  <2> QED  BY <2>1, SameCardinality DEF A!Place, Rank
<1>2. ASSUME NEW i PROVE A!Ahead(i) <=> i \in Span /\ Rank(Span, i) > A!Offset
  BY <1>1 DEF A!Ahead, Span
<1>3. \A i : i \in Span => i \in A!Ids
  BY DEF Span, A!Listed
<1>4. A!Left = {i \in Span : Rank(Span, i) > A!Offset}
  BY <1>2, <1>3, Zenon DEF A!Left
<1>5. A!Page = {i \in Span : Rank(Span, i) > A!Offset /\ Rank(Span, i) <= A!Offset + A!PerPage}
  <2>1. A!Page = {i \in A!Left : Rank(Span, i) <= A!Offset + A!PerPage}
    BY <1>1, Zenon DEF A!Page
  <2> QED  BY <1>4, <2>1
<1> QED  BY <1>1, <1>2, <1>4, <1>5

\* What a walk by position has not begun with, and what a cursor has not reached, is ahead.
LEMMA AheadAtOnce ==
  A!TypeOK => \A i \in A!Ids :
    (A!Exists(<<run.ep, i>>) /\ up[<<run.ep, i>>] >= run.since
      /\ (run.next = 0 \/ (A!ByCursor /\ i > run.next))) => A!Ahead(i)
<1> SUFFICES ASSUME A!TypeOK, NEW i \in A!Ids, A!Exists(<<run.ep, i>>), up[<<run.ep, i>>] >= run.since,
                    run.next = 0 \/ (A!ByCursor /\ i > run.next)
             PROVE  A!Ahead(i)
  OBVIOUS
<1>1. i \in Span
  BY ConstantTypes DEF Span, A!Listed
<1>2. Rank(Span, i) >= 1 /\ Rank(Span, i) \in Nat
  BY <1>1, SpanTypes
<1>3. A!Offset = 0
  BY DEF A!Offset
<1> QED  BY <1>1, <1>2, <1>3, AheadIs

LEMMA AheadAtOnceNext ==
  (A!TypeOK => \A i \in A!Ids :
    (A!Exists(<<run.ep, i>>) /\ up[<<run.ep, i>>] >= run.since
      /\ (run.next = 0 \/ (A!ByCursor /\ i > run.next))) => A!Ahead(i))'
BY AheadAtOnce, PTL

LEMMA AheadIsNext ==
  (A!TypeOK => \A i : A!Ahead(i) <=> i \in Span /\ Rank(Span, i) > A!Offset)'
<1>1. A!TypeOK => \A i : A!Ahead(i) <=> i \in Span /\ Rank(Span, i) > A!Offset
  BY AheadIs
<1> QED  BY <1>1, PTL

LEMMA SpanTypesNext ==
  (A!TypeOK => /\ Span \in SUBSET (1..NRecords) /\ run.next \in Nat /\ A!Offset \in Nat
               /\ \A i : i \in Span => i \in Nat /\ Rank(Span, i) \in Nat /\ Rank(Span, i) >= 1)'
BY SpanTypes, PTL

\* A record ahead of the walk stays ahead when others change, unless one before it is removed and
\* the walk is by position.
LEMMA AheadStays ==
  ASSUME A!TypeOK, A!TypeOK', NEW i \in A!Ids, A!Ahead(i), cfg' = cfg, run'.ep = run.ep,
         run'.since = run.since, run'.next = run.next,
         A!Exists(<<run.ep, i>>)', up'[<<run.ep, i>>] >= run.since,
         \/ A!ByCursor \/ run.next = 0
         \/ \A j \in A!Ids : up[<<run.ep, j>>] > 0 /\ up[<<run.ep, j>>] >= run.since =>
                             up'[<<run.ep, j>>] > 0 /\ up'[<<run.ep, j>>] >= run.since
  PROVE  A!Ahead(i)'
<1>1. i \in Span /\ Rank(Span, i) > A!Offset
  BY AheadIs
<1>2. CASE A!ByCursor \/ run.next = 0
  <2>1. run'.next = 0 \/ (A!ByCursor' /\ i > run'.next)
    BY <1>1, <1>2 DEF Span, A!ByCursor
  <2>2. up'[<<run'.ep, i>>] >= run'.since /\ A!Exists(<<run.ep, i>>)'
    OBVIOUS
  <2> QED  BY <2>1, <2>2, AheadAtOnceNext DEF A!Exists
<1>3. CASE \A j \in A!Ids : up[<<run.ep, j>>] > 0 /\ up[<<run.ep, j>>] >= run.since =>
                            up'[<<run.ep, j>>] > 0 /\ up'[<<run.ep, j>>] >= run.since
  <2>1. Span \in SUBSET (Span')
    BY <1>3 DEF Span, A!Listed, A!Exists, A!ByCursor, A!Ids
  <2>2. Span' \in SUBSET (1..NRecords) /\ i \in Nat /\ NRecords \in Nat /\ i <= i
    BY SpanTypesNext, ConstantTypes
  <2>3. Rank(Span, i) <= Rank(Span', i)
    BY <2>1, <2>2, RankMonotone
  <2>4. Rank(Span', i) \in Nat /\ Rank(Span, i) \in Nat /\ A!Offset \in Nat /\ A!Offset' = A!Offset
    <3>1. i \in Span' /\ (A!ByCursor' <=> A!ByCursor)
      BY <1>1, <2>1 DEF A!ByCursor
    <3> QED  BY <1>1, <3>1, SpanTypes, SpanTypesNext DEF A!Offset
  <2>5. i \in Span' /\ Rank(Span', i) > A!Offset'
    BY <1>1, <2>1, <2>3, <2>4
  <2>6. Rank(Span, i)' = Rank(Span', i)
    BY DEF Rank
  <2> QED  BY <2>5, <2>6, AheadIsNext
<1> QED  BY <1>2, <1>3

-----------------------------------------------------------------------------
(* A page.                                                                   *)

\* How many records a page has: the walk's number stays within its position and within the ids.
LEMMA PageBounds ==
  ASSUME A!TypeOK
  PROVE  /\ IsFiniteSet(A!Page) /\ Cardinality(A!Page) \in Nat /\ A!Page \in SUBSET (1..NRecords)
         /\ A!NextPosition \in Nat /\ run.next + Cardinality(A!Page) <= A!NextPosition
         /\ \A s \in Nat : s <= run.next /\ s <= NRecords => s + Cardinality(A!Page) <= NRecords
<1> DEFINE n == Cardinality(A!Page)
<1>1. /\ Span \in SUBSET (1..NRecords) /\ run.next \in Nat /\ A!Offset \in Nat /\ NRecords \in Nat
      /\ A!PerPage \in Nat \ {0} /\ A!Limit \in Nat \ {0}
  BY SpanTypes, ConfigIs, ConstantTypes
<1>2. /\ A!Page \in SUBSET Span /\ A!Page \in SUBSET (1..NRecords)
      /\ \A j \in A!Page : Rank(Span, j) > A!Offset /\ Rank(Span, j) <= A!Offset + A!PerPage
      /\ \A j \in A!Page : A!ByCursor => j > run.next
  BY <1>1, AheadIs DEF Span
<1>3. IsFiniteSet(A!Page) /\ n \in Nat /\ n <= A!PerPage
  <2>1. A!Offset <= A!Offset + A!PerPage /\ A!Offset + A!PerPage \in Nat
    BY <1>1
  <2>2. IsFiniteSet(A!Page) /\ n \in Nat /\ n <= (A!Offset + A!PerPage) - A!Offset
    BY <1>1, <1>2, <2>1, RankBound
  <2> HIDE DEF n
  <2> QED  BY <1>1, <2>2
<1>4. CASE ~A!ByCursor
  <2>1. A!Offset = run.next /\ cfg.type # "cursor"
    BY <1>4 DEF A!Offset, A!ByCursor
  <2>2. A!NextPosition = IF cfg.type = "offset" THEN run.next + A!Limit ELSE run.next + A!PerPage
    BY <2>1, ConfigIs DEF A!NextPosition
  <2>3. A!NextPosition \in Nat /\ run.next + n <= A!NextPosition
    <3>1. cfg.type = "offset" => A!PerPage <= A!Limit
      BY ConfigIs
    <3> HIDE DEF n
    <3> QED  BY <1>1, <1>3, <2>2, <3>1
  <2>4. CASE run.next <= NRecords
    <3>1. \A j \in A!Page : Rank(Span, j) <= NRecords
      <4> TAKE j \in A!Page
      <4>1. j \in Nat
        BY <1>2
      <4>2. /\ Rank(Span, j) \in Nat /\ Rank(Span, j) <= Cardinality(Span)
            /\ Cardinality(Span) \in Nat /\ Cardinality(Span) <= NRecords
        BY <1>1, <4>1, RankTypes
      <4> QED  BY <1>1, <4>2
    <3>2. n <= NRecords - run.next
      BY <1>1, <1>2, <2>1, <2>4, <3>1, RankBound
    <3>3. \A s \in Nat : s <= run.next /\ s <= NRecords => s + n <= NRecords
      <4> HIDE DEF n
      <4> QED  BY <1>1, <1>3, <3>2
    <3> QED  BY <1>2, <1>3, <2>3, <3>3
  <2>5. CASE run.next > NRecords
    <3>1. A!Page = {}
      <4> SUFFICES ASSUME NEW j \in A!Page PROVE FALSE
        OBVIOUS
      <4>1. j \in Nat
        BY <1>2
      <4>2. /\ Rank(Span, j) \in Nat /\ Rank(Span, j) <= Cardinality(Span)
            /\ Cardinality(Span) \in Nat /\ Cardinality(Span) <= NRecords
        BY <1>1, <4>1, RankTypes
      <4>3. Rank(Span, j) > run.next
        BY <1>2, <2>1
      <4> QED  BY <1>1, <2>5, <4>2, <4>3
    <3>2. n = 0
      BY <3>1, FS_EmptySet
    <3>3. \A s \in Nat : s <= run.next /\ s <= NRecords => s + n <= NRecords
      <4> HIDE DEF n
      <4> QED  BY <1>1, <3>2
    <3> QED  BY <1>2, <1>3, <2>3, <3>3
  <2> QED  BY <1>1, <2>4, <2>5
<1>5. CASE A!ByCursor
  <2>1. A!NextPosition = IF A!Page = {} THEN run.next ELSE A!Max(A!Page)
    BY <1>5 DEF A!NextPosition, A!ByCursor
  <2>2. CASE A!Page = {}
    <3>1. n = 0
      BY <2>2, FS_EmptySet
    <3>2. \A s \in Nat : s <= run.next /\ s <= NRecords => s + n <= NRecords
      <4> HIDE DEF n
      <4> QED  BY <1>1, <3>1
    <3>3. A!NextPosition \in Nat /\ run.next + n <= A!NextPosition
      <4> HIDE DEF n
      <4> QED  BY <1>1, <2>1, <2>2, <3>1
    <3> QED  BY <1>2, <1>3, <3>2, <3>3
  <2>3. CASE A!Page # {}
    <3> DEFINE top == A!Max(A!Page)
    <3>1. top \in A!Page /\ \A y \in A!Page : top >= y
      <4>1. A!Page \in SUBSET (0..NRecords)
        BY <1>1, <1>2
      <4> QED  BY <1>1, <2>3, <4>1, MaxOfSet
    <3> HIDE DEF top
    <3>2. top \in Nat /\ top <= NRecords /\ top > run.next
      BY <1>1, <1>2, <1>5, <3>1
    <3>3. A!Page \in SUBSET ((run.next + 1)..top)
      BY <1>1, <1>2, <1>5, <3>1, <3>2
    <3>4. IsFiniteSet((run.next + 1)..top) /\ Cardinality((run.next + 1)..top) = top - run.next
      <4>1. run.next + 1 \in Int /\ top \in Int
        BY <1>1, <3>2
      <4>2. /\ IsFiniteSet((run.next + 1)..top)
            /\ Cardinality((run.next + 1)..top) = IF run.next + 1 > top THEN 0 ELSE top - (run.next + 1) + 1
        BY <4>1, FS_Interval
      <4>3. (IF run.next + 1 > top THEN 0 ELSE top - (run.next + 1) + 1) = top - run.next
        BY <1>1, <3>2
      <4> QED  BY <4>2, <4>3
    <3>5. n <= top - run.next
      BY <3>3, <3>4, FS_Subset
    <3>6. A!NextPosition = top
      BY <2>1, <2>3 DEF top
    <3> HIDE DEF n
    <3> QED  BY <1>1, <1>2, <1>3, <3>2, <3>5, <3>6 DEF n
  <2> QED  BY <2>2, <2>3
<1> QED  BY <1>4, <1>5

\* What is left behind a page is ahead of the next request, and the walk goes on.
LEMMA PageCovers ==
  ASSUME A!TypeOK, A!HonoursSize, NEW i, A!Ahead(i), i \notin A!Page
  PROVE  /\ ~A!LastPage(Cardinality(A!Page), A!Page # A!Left)
         /\ A!ByCursor => i > A!NextPosition
         /\ ~A!ByCursor => Rank(Span, i) > A!NextPosition
<1> DEFINE n == Cardinality(A!Page)
<1>1. /\ Span \in SUBSET (1..NRecords) /\ run.next \in Nat /\ A!Offset \in Nat /\ NRecords \in Nat
      /\ A!PerPage \in Nat \ {0} /\ A!Limit \in Nat \ {0} /\ i \in Span /\ i \in Nat /\ Rank(Span, i) \in Nat
  BY SpanTypes, ConfigIs, ConstantTypes, AheadIs
<1>2. A!Page = {j \in Span : Rank(Span, j) > A!Offset /\ Rank(Span, j) <= A!Offset + A!PerPage}
  BY AheadIs
<1>3. Rank(Span, i) > A!Offset + A!PerPage
  <2>1. Rank(Span, i) > A!Offset /\ ~ (Rank(Span, i) > A!Offset /\ Rank(Span, i) <= A!Offset + A!PerPage)
    BY <1>1, <1>2, AheadIs
  <2> QED  BY <1>1, <2>1
<1>4. n \in Nat /\ n >= A!PerPage
  <2>1. A!PerPage \in Nat
    BY <1>1
  <2>2. A!Page \in SUBSET Span
           /\ \A j \in Span : Rank(Span, j) > A!Offset /\ Rank(Span, j) <= A!Offset + A!PerPage => j \in A!Page
    BY <1>2
  <2> QED  BY <1>1, <1>3, <2>1, <2>2, RankFull
<1>5. A!Page # A!Left
  BY AheadIs
<1>6. cfg.type # "none"
  <2> SUFFICES ASSUME cfg.type = "none" PROVE FALSE
    OBVIOUS
  <2>1. A!PerPage = NRecords
    BY DEF A!PerPage
  <2>2. Rank(Span, i) <= Cardinality(Span) /\ Cardinality(Span) <= NRecords /\ Cardinality(Span) \in Nat
    BY <1>1, RankTypes
  <2> QED  BY <1>1, <1>3, <2>1, <2>2
<1>7. /\ cfg.type \in {"none", "page", "offset", "cursor", "link-header"} /\ cfg.size \in Nat
      /\ cfg.type = "offset" => A!PerPage = A!Limit
      /\ cfg.type = "page" /\ cfg.size > 0 => A!PerPage = cfg.size
  BY ConfigIs
<1>8. ~A!LastPage(n, A!Page # A!Left)
  <2>1. n # 0 /\ (cfg.type = "offset" => ~ (n < A!Limit)) /\ (cfg.type = "page" /\ cfg.size > 0 => ~ (n < cfg.size))
    <3> HIDE DEF n
    <3> QED  BY <1>1, <1>4, <1>7
  <2> HIDE DEF n
  <2> QED  BY <1>5, <1>6, <1>7, <2>1 DEF A!LastPage
<1>9. ASSUME A!ByCursor PROVE i > A!NextPosition
  <2>1. A!NextPosition = IF A!Page = {} THEN run.next ELSE A!Max(A!Page)
    BY <1>9 DEF A!NextPosition, A!ByCursor
  <2>2. CASE A!Page = {}
    BY <1>1, <1>9, <2>1, <2>2 DEF Span
  <2>3. CASE A!Page # {}
    <3> DEFINE top == A!Max(A!Page)
    <3>1. top \in A!Page
      <4>1. A!Page \in SUBSET (0..NRecords)
        <5>1. A!Page \in SUBSET (1..NRecords)
          BY PageBounds
        <5> QED  BY <1>1, <5>1
      <4> QED  BY <1>1, <2>3, <4>1, MaxOfSet
    <3> HIDE DEF top
    <3>2. top \in Nat /\ top \in Span /\ Rank(Span, top) <= A!Offset + A!PerPage /\ Rank(Span, top) \in Nat
      <4>1. top \in Span /\ Rank(Span, top) <= A!Offset + A!PerPage
        BY <1>2, <3>1
      <4> QED  BY <4>1, SpanTypes
    <3>3. ASSUME i <= top PROVE FALSE
      <4>1. Span \in SUBSET Span
        OBVIOUS
      <4>2. Rank(Span, i) <= Rank(Span, top)
        BY <1>1, <3>2, <3>3, <4>1, RankMonotone
      <4> QED  BY <1>1, <1>3, <3>2, <4>2
    <3>4. i > top
      BY <1>1, <3>2, <3>3
    <3> QED  BY <2>1, <2>3, <3>4 DEF top
  <2> QED  BY <2>2, <2>3
<1>10. ASSUME ~A!ByCursor PROVE Rank(Span, i) > A!NextPosition
  <2>1. A!Offset = run.next /\ cfg.type # "cursor"
    BY <1>10 DEF A!Offset, A!ByCursor
  <2>2. A!NextPosition = IF cfg.type = "offset" THEN run.next + A!Limit ELSE run.next + A!PerPage
    BY <2>1, ConfigIs DEF A!NextPosition
  <2> QED  BY <1>1, <1>3, <1>7, <2>1, <2>2
<1> QED  BY <1>8, <1>9, <1>10

-----------------------------------------------------------------------------
(* Types of the state, now and after a step.                                 *)

LEMMA IdleIs ==
  /\ A!Idle \in A!Walk /\ A!Idle.pc = "idle" /\ A!Idle.ep = 1 /\ A!Idle.since = 0 /\ A!Idle.next = 0
  /\ A!Idle.pages = 0 /\ A!Idle.items = {} /\ A!Idle.last = FALSE /\ A!Idle.seq = 0 /\ A!Idle.max = 0
  /\ A!Idle.retries = 0 /\ A!Idle.saw = FALSE /\ A!Idle.missed = {}
BY ConstantTypes DEF A!Idle, A!Walk

LEMMA RecordsAre ==
  \A r \in A!Records : r[1] \in A!Ends /\ r[2] \in A!Ids /\ r[2] \in A!Keys /\ r = <<r[1], r[2]>>
BY ConstantTypes DEF A!Records

LEMMA TypesAre ==
  A!TypeOK =>
    /\ run.pc \in {"idle", "fetch", "emit", "persist", "mark", "complete", "return"}
    /\ run.ep \in A!Ends /\ run.since \in Nat /\ run.next \in Nat /\ run.pages \in Nat
    /\ run.items \in SUBSET [id: A!Ids, rev: Nat] /\ run.last \in BOOLEAN /\ run.seq \in Nat /\ run.max \in Nat
    /\ run.retries \in 0..MaxRetries /\ run.saw \in BOOLEAN /\ run.missed \in SUBSET A!Records
    /\ job.id \in 0..MaxJobs /\ job.active \in BOOLEAN /\ job.full \in BOOLEAN /\ job.attempts \in 0..JobAttempts
    /\ job.absent \in SUBSET A!Records
    /\ state.cursor \in [A!Ends -> Nat] /\ state.lastFull \in 0..MaxJobs
    /\ \A r \in A!Records : up[r] \in Nat
    /\ \A k \in A!Ends \X A!Keys : doc[k] \in A!Doc
BY DEF A!TypeOK, A!Walk, A!Job

LEMMA EmptyPage == IsFiniteSet({}) /\ Cardinality({}) = 0 /\ A!Cardinality({}) = 0 /\ A!IsFiniteSet({})
BY FS_EmptySet, SameCardinality DEF A!IsFiniteSet, IsFiniteSet

\* An attempt ends: what its walk knew is forgotten.
LEMMA IdleStep ==
  ASSUME A!IInv, run' = A!Idle, UNCHANGED <<cfg, up, clock, doc, state, missed>>, job' \in A!Job,
         job'.id = job.id, job'.absent = job.absent, faults' \in 0..MaxFaults
  PROVE  A!IInv'
<1>1. A!TypeOK /\ A!TimesSound /\ A!DocsSound /\ A!CursorCovers
  BY DEF A!IInv
<1>2. A!TypeOK'
  BY <1>1, IdleIs DEF A!TypeOK
<1>3. A!TimesSound'
  BY <1>1, IdleIs DEF A!TimesSound, A!TypeOK
<1>4. A!PlacesSound'
  BY IdleIs DEF A!PlacesSound
<1>5. A!ItemsSound'
  BY IdleIs, EmptyPage, ConstantTypes DEF A!ItemsSound
<1>6. A!DocsSound'
  BY <1>1 DEF A!DocsSound, A!Exists
<1>7. A!WalkSound'
  BY IdleIs DEF A!WalkSound
<1>8. A!CursorCovers'
  BY <1>1 DEF A!CursorCovers, A!HonoursSize, A!Limit, A!Exists, A!Holds
<1> QED  BY <1>2, <1>3, <1>4, <1>5, <1>6, <1>7, <1>8 DEF A!IInv

LEMMA FailsType ==
  ASSUME A!TypeOK, A!Fails
  PROVE  run' = A!Idle /\ job' \in A!Job /\ job'.id = job.id /\ job'.absent = job.absent
<1>1. job \in A!Job /\ job' = [job EXCEPT !.active = job.attempts < JobAttempts]
  BY DEF A!TypeOK, A!Fails
<1>2. (job.attempts < JobAttempts) \in BOOLEAN
  OBVIOUS
<1> QED  BY <1>1, <1>2 DEF A!Fails, A!Job

LEMMA AbortStep == ASSUME A!IInv, A!Abort PROVE A!IInv'
<1>1. A!TypeOK
  BY DEF A!IInv
<1>2. faults' \in 0..MaxFaults
  BY <1>1, ConstantTypes DEF A!Abort, A!TypeOK
<1> QED  BY <1>1, <1>2, FailsType, IdleStep DEF A!Abort

LEMMA ReturnStep == ASSUME A!IInv, A!Return PROVE A!IInv'
<1>1. A!TypeOK
  BY DEF A!IInv
<1>2. job' \in A!Job /\ job'.id = job.id /\ job'.absent = job.absent
  BY <1>1 DEF A!Return, A!TypeOK, A!Job
<1>3. faults' \in 0..MaxFaults
  BY <1>1 DEF A!Return, A!TypeOK
<1> QED  BY <1>2, <1>3, IdleStep DEF A!Return

\* ... and in particular when none changes.
LEMMA AheadSame ==
  ASSUME A!TypeOK, A!TypeOK', NEW i \in A!Ids, A!Ahead(i), cfg' = cfg, run'.ep = run.ep,
         run'.since = run.since, run'.next = run.next, up' = up
  PROVE  A!Ahead(i)'
<1>1. i \in A!Listed
  BY DEF A!Ahead
<1>2. A!Exists(<<run.ep, i>>)' /\ up'[<<run.ep, i>>] >= run.since
  BY <1>1 DEF A!Listed, A!Exists
<1> QED  BY <1>2, AheadStays

\* A request that is repeated changes nothing else.
LEMMA RateLimitedStep == ASSUME A!IInv, A!RateLimited PROVE A!IInv'
<1>1. A!TypeOK
  BY DEF A!IInv
<1>2. CASE run.retries = MaxRetries /\ faults < MaxFaults /\ faults' = faults + 1 /\ A!Fails
  <2>1. faults' \in 0..MaxFaults
    BY <1>1, <1>2, ConstantTypes DEF A!TypeOK
  <2> QED  BY <1>1, <1>2, <2>1, FailsType, IdleStep DEF A!RateLimited
<1>3. CASE /\ run.retries < MaxRetries /\ run' = [run EXCEPT !.retries = @ + 1]
           /\ UNCHANGED <<job, faults>>
  <2>1. UNCHANGED <<cfg, up, clock, doc, state, job, missed, faults>>
    BY <1>3 DEF A!RateLimited
  <2>2. /\ run' \in A!Walk /\ run'.pc = run.pc /\ run'.ep = run.ep /\ run'.since = run.since /\ run'.next = run.next
        /\ run'.pages = run.pages /\ run'.items = run.items /\ run'.last = run.last /\ run'.seq = run.seq
        /\ run'.max = run.max /\ run'.saw = run.saw /\ run'.missed = run.missed
    <3>1. run.retries + 1 \in 0..MaxRetries
      <4>1. run.retries \in 0..MaxRetries /\ MaxRetries \in Nat
        BY <1>1, TypesAre, ConstantTypes
      <4>2. run.retries < MaxRetries
        BY <1>3
      <4> QED  BY <4>1, <4>2
    <3>2. run \in A!Walk /\ run' = [run EXCEPT !.retries = run.retries + 1]
      BY <1>1, <1>3 DEF A!TypeOK
    <3> QED  BY <3>1, <3>2 DEF A!Walk
  <2>3. A!TypeOK'
    BY <1>1, <2>1, <2>2 DEF A!TypeOK
  <2>4. A!TimesSound'
    BY <2>1, <2>2 DEF A!IInv, A!TimesSound
  <2>5. A!PlacesSound'
    BY <2>1, <2>2 DEF A!IInv, A!PlacesSound, A!Since
  <2>6. A!ItemsSound'
    BY <2>1, <2>2 DEF A!IInv, A!ItemsSound
  <2>7. A!DocsSound' /\ A!CursorCovers'
    BY <2>1 DEF A!IInv, A!DocsSound, A!Exists, A!CursorCovers, A!HonoursSize, A!Limit, A!Holds
  <2>8. A!WalkSound'
    <3> SUFFICES ASSUME A!HonoursSize, run.pc # "idle", NEW r \in A!Records \ run.missed, A!Exists(r)
                 PROVE  /\ r[1] < run.ep /\ job.full => A!Stored(r)'
                        /\ r[1] = run.ep /\ up[r] >= run.since => (A!Stored(r) \/ A!InHand(r) \/ A!ToCome(r))'
      BY <2>1, <2>2 DEF A!WalkSound, A!HonoursSize, A!Limit, A!Exists
    <3>1. A!Stored(r)' <=> A!Stored(r)
      BY <2>1, <2>2 DEF A!Stored
    <3>2. A!InHand(r)' <=> A!InHand(r)
      BY <2>1, <2>2 DEF A!InHand
    <3>3. ASSUME A!ToCome(r), r[1] = run.ep, up[r] >= run.since PROVE A!ToCome(r)'
      <4>1. A!Ahead(r[2])'
        <5>1. r = <<run.ep, r[2]>> /\ r[2] \in A!Ids
          BY <3>3, RecordsAre
        <5> QED  BY <1>1, <2>1, <2>2, <2>3, <3>3, <5>1, AheadSame DEF A!ToCome
      <4> QED  BY <2>2, <3>3, <4>1 DEF A!ToCome
    <3> QED  BY <3>1, <3>2, <3>3 DEF A!IInv, A!WalkSound
  <2> QED  BY <2>3, <2>4, <2>5, <2>6, <2>7, <2>8 DEF A!IInv
<1> QED  BY <1>2, <1>3 DEF A!RateLimited

\* The page's records are emitted: the walk asks for the next page, or is done.
LEMMA PageDoneStep == ASSUME A!IInv, A!PageDone PROVE A!IInv'
<1>1. A!TypeOK /\ A!PlacesSound /\ run.pc = "emit" /\ run.items = {}
  BY DEF A!IInv, A!PageDone
<1>2. UNCHANGED <<cfg, up, clock, doc, state, job, missed, faults>>
  BY DEF A!PageDone
<1>3. /\ run' \in A!Walk /\ run'.ep = run.ep /\ run'.since = run.since /\ run'.next = run.next
      /\ run'.pages = run.pages /\ run'.items = run.items /\ run'.last = run.last /\ run'.seq = run.seq
      /\ run'.max = run.max /\ run'.saw = run.saw
      /\ \/ run'.pc = "fetch" /\ ~run.last /\ run'.missed = run.missed
         \/ run'.pc = "persist" /\ run.last /\ run'.missed = run.missed
         \/ run'.pc = "persist" /\ run'.missed = run.missed \cup A!EndpointOf(run.ep)
  <2>1. A!EndpointOf(run.ep) \in SUBSET A!Records
    BY DEF A!EndpointOf
  <2>2. run \in A!Walk /\ run.last \in BOOLEAN /\ run.missed \cup A!EndpointOf(run.ep) \in SUBSET A!Records
    BY <1>1, <2>1, TypesAre DEF A!TypeOK
  <2>3. CASE run' = [run EXCEPT !.pc = "fetch"] /\ ~run.last
    BY <2>2, <2>3 DEF A!Walk
  <2>4. CASE run' = [run EXCEPT !.pc = "persist", !.missed = IF run.last THEN @ ELSE @ \cup A!EndpointOf(run.ep)]
    <3>1. CASE run.last
      BY <2>2, <2>4, <3>1 DEF A!Walk
    <3>2. CASE ~run.last
      BY <2>2, <2>4, <3>2 DEF A!Walk
    <3> QED  BY <3>1, <3>2
  <2> QED  BY <2>3, <2>4 DEF A!PageDone
<1>4. A!TypeOK'
  BY <1>1, <1>2, <1>3 DEF A!TypeOK
<1>5. A!TimesSound'
  BY <1>2, <1>3 DEF A!IInv, A!TimesSound
<1>6. A!PlacesSound'
  BY <1>1, <1>2, <1>3 DEF A!PlacesSound, A!Since
<1>7. A!ItemsSound'
  BY <1>1, <1>2, <1>3 DEF A!IInv, A!ItemsSound
<1>8. A!DocsSound' /\ A!CursorCovers'
  BY <1>2 DEF A!IInv, A!DocsSound, A!Exists, A!CursorCovers, A!HonoursSize, A!Limit, A!Holds
<1>9. A!WalkSound'
  <2> SUFFICES ASSUME A!HonoursSize, NEW r \in A!Records \ run'.missed, A!Exists(r)
               PROVE  /\ r[1] < run.ep /\ job.full => A!Stored(r)'
                      /\ r[1] = run.ep /\ up[r] >= run.since => (A!Stored(r) \/ A!InHand(r) \/ A!ToCome(r))'
    BY <1>2, <1>3 DEF A!WalkSound, A!HonoursSize, A!Limit, A!Exists
  <2>1. A!Stored(r)' <=> A!Stored(r)
    BY <1>2, <1>3 DEF A!Stored
  <2>2. /\ r[1] < run.ep /\ job.full => A!Stored(r)
        /\ r[1] = run.ep /\ up[r] >= run.since => A!Stored(r) \/ A!ToCome(r)
    BY <1>1, <1>3 DEF A!IInv, A!WalkSound, A!InHand
  <2>3. ASSUME A!ToCome(r), r[1] = run.ep, up[r] >= run.since PROVE A!ToCome(r)'
    <3>1. ~run.last
      BY <2>3 DEF A!ToCome
    <3>2. r \in A!EndpointOf(run.ep)
      BY <2>3 DEF A!EndpointOf
    <3>3. run'.pc = "fetch"
      BY <1>3, <3>1, <3>2
    <3>4. r = <<run.ep, r[2]>> /\ r[2] \in A!Ids
      BY <2>3, RecordsAre
    <3>6. A!Ahead(r[2])'
      BY <1>1, <1>2, <1>3, <1>4, <2>3, <3>4, AheadSame DEF A!ToCome
    <3> QED  BY <1>3, <3>1, <3>3, <3>6 DEF A!ToCome
  <2> QED  BY <2>1, <2>2, <2>3
<1> QED  BY <1>4, <1>5, <1>6, <1>7, <1>8, <1>9 DEF A!IInv

LEMMA MarkFullStep == ASSUME A!IInv, A!MarkFull PROVE A!IInv'
<1>1. A!TypeOK /\ A!PlacesSound /\ run.pc = "mark"
  BY DEF A!IInv, A!MarkFull
<1>2. UNCHANGED <<cfg, up, clock, doc, job, missed, faults>>
  BY DEF A!MarkFull
<1>3. state' \in [cursor: [A!Ends -> Nat], lastFull: 0..MaxJobs] /\ state'.cursor = state.cursor
  <2>1. state' = state \/ state' = [state EXCEPT !.lastFull = job.id]
    BY DEF A!MarkFull
  <2> QED  BY <1>1, <2>1, TypesAre DEF A!TypeOK
<1>4. /\ run' \in A!Walk /\ run'.pc = "complete" /\ run'.ep = run.ep /\ run'.since = run.since /\ run'.next = run.next
      /\ run'.pages = run.pages /\ run'.items = run.items /\ run'.last = run.last /\ run'.seq = run.seq
      /\ run'.max = run.max /\ run'.saw = run.saw /\ run'.missed = run.missed
  BY <1>1 DEF A!MarkFull, A!TypeOK, A!Walk
<1>5. A!TypeOK'
  BY <1>1, <1>2, <1>3, <1>4 DEF A!TypeOK
<1>6. A!TimesSound'
  BY <1>2, <1>3, <1>4 DEF A!IInv, A!TimesSound
<1>7. A!PlacesSound'
  BY <1>1, <1>2, <1>3, <1>4 DEF A!PlacesSound, A!Since
<1>8. A!ItemsSound'
  BY <1>1, <1>2, <1>3, <1>4 DEF A!IInv, A!ItemsSound, A!PlacesSound
<1>9. A!DocsSound' /\ A!CursorCovers'
  BY <1>2, <1>3 DEF A!IInv, A!DocsSound, A!Exists, A!CursorCovers, A!HonoursSize, A!Limit, A!Holds
<1>10. A!WalkSound'
  <2> SUFFICES ASSUME A!HonoursSize, NEW r \in A!Records \ run.missed, A!Exists(r)
               PROVE  /\ r[1] < run.ep /\ job.full => A!Stored(r)'
                      /\ r[1] = run.ep /\ up[r] >= run.since => A!Stored(r)'
    BY <1>2, <1>4 DEF A!WalkSound, A!HonoursSize, A!Limit, A!Exists
  <2>1. A!Stored(r)' <=> A!Stored(r)
    BY <1>2, <1>4 DEF A!Stored
  <2> QED  BY <1>1, <2>1 DEF A!IInv, A!WalkSound, A!InHand, A!ToCome
<1> QED  BY <1>5, <1>6, <1>7, <1>8, <1>9, <1>10 DEF A!IInv

\* A walk that begins has all before it.
LEMMA AllToCome ==
  ASSUME A!TypeOK', run'.pc = "fetch", ~run'.last, run'.next = 0, NEW r \in A!Records, r[1] = run'.ep,
         A!Exists(r)', up'[r] >= run'.since
  PROVE  A!ToCome(r)'
<1>1. r = <<run'.ep, r[2]>> /\ r[2] \in A!Ids
  BY RecordsAre
<1>2. up'[<<run'.ep, r[2]>>] > 0 /\ up'[<<run'.ep, r[2]>>] >= run'.since
  BY <1>1 DEF A!Exists
<1>3. A!Ahead(r[2])'
  BY <1>1, <1>2, AheadAtOnceNext DEF A!Exists
<1> QED  BY <1>3 DEF A!ToCome

\* The requests of an endpoint ask for nothing later than the clock.
LEMMA SinceTypes ==
  A!TypeOK /\ A!TimesSound => \A e \in A!Ends : A!Since(e) \in Nat /\ A!Since(e) <= clock /\ (job.full => A!Since(e) = 0)
BY TypesAre DEF A!TypeOK, A!TimesSound, A!Since

LEMMA StartStep == ASSUME A!IInv, A!StartAttempt PROVE A!IInv'
<1>1. A!TypeOK /\ A!TimesSound /\ job.active /\ run.pc = "idle" /\ job.attempts < JobAttempts
  BY DEF A!IInv, A!StartAttempt
<1>2. UNCHANGED <<cfg, up, clock, doc, state, missed, faults>>
  BY DEF A!StartAttempt
<1>3. job \in A!Job /\ job.attempts + 1 \in 0..JobAttempts /\ (job.attempts + 1 < JobAttempts) \in BOOLEAN
  <2>1. job.attempts \in 0..JobAttempts /\ JobAttempts \in Nat
    BY <1>1, TypesAre, ConstantTypes
  <2> QED  BY <1>1, <2>1 DEF A!TypeOK
<1>4. CASE /\ run' = [A!Idle EXCEPT !.pc = "fetch", !.since = A!Since(1)]
           /\ job' = [job EXCEPT !.attempts = @ + 1]
  <2>1. 1 \in A!Ends
    BY ConstantTypes
  <2>2. A!Since(1) \in Nat /\ A!Since(1) <= clock /\ (job.full => A!Since(1) = 0)
    BY <1>1, <2>1, SinceTypes
  <2>3. /\ run' \in A!Walk /\ run'.pc = "fetch" /\ run'.ep = 1 /\ run'.since = A!Since(1) /\ run'.next = 0
        /\ run'.pages = 0 /\ run'.items = {} /\ run'.last = FALSE /\ run'.seq = 0
        /\ run'.max = 0 /\ run'.saw = FALSE /\ run'.missed = {}
    BY <1>4, <2>2, IdleIs DEF A!Walk
  <2>4. /\ job' \in A!Job /\ job'.id = job.id /\ job'.absent = job.absent /\ job'.active = job.active
        /\ job'.full = job.full
    BY <1>3, <1>4 DEF A!Job
  <2>5. A!TypeOK'
    BY <1>1, <1>2, <2>3, <2>4 DEF A!TypeOK
  <2>6. A!TimesSound'
    BY <1>1, <1>2, <2>2, <2>3 DEF A!TimesSound, A!TypeOK
  <2>7. A!PlacesSound'
    BY <1>1, <1>2, <2>2, <2>3, <2>4 DEF A!PlacesSound, A!Since
  <2>8. A!ItemsSound'
    BY <2>3, EmptyPage, ConstantTypes DEF A!ItemsSound
  <2>9. A!DocsSound' /\ A!CursorCovers'
    BY <1>2, <2>4 DEF A!IInv, A!DocsSound, A!Exists, A!CursorCovers, A!HonoursSize, A!Limit, A!Holds
  <2>10. A!WalkSound'
    <3> SUFFICES ASSUME NEW r \in A!Records, A!Exists(r)'
                 PROVE  /\ ~ (r[1] < 1)
                        /\ r[1] = 1 /\ up'[r] >= run'.since => A!ToCome(r)'
      BY <2>3 DEF A!WalkSound
    <3>1. ~ (r[1] < 1)
      BY RecordsAre, ConstantTypes
    <3>2. r[1] = 1 /\ up'[r] >= run'.since => A!ToCome(r)'
      BY <2>3, <2>5, AllToCome
    <3> QED  BY <3>1, <3>2
  <2> QED  BY <2>5, <2>6, <2>7, <2>8, <2>9, <2>10 DEF A!IInv
<1>5. CASE /\ job' = [job EXCEPT !.attempts = @ + 1, !.active = job.attempts + 1 < JobAttempts]
           /\ UNCHANGED run
  <2>1. job' \in A!Job /\ job'.id = job.id /\ job'.absent = job.absent
    BY <1>3, <1>5 DEF A!Job
  <2>2. A!TypeOK'
    BY <1>1, <1>2, <1>5, <2>1 DEF A!TypeOK
  <2>3. A!TimesSound'
    BY <1>2, <1>5 DEF A!IInv, A!TimesSound
  <2>4. A!PlacesSound'
    BY <1>1, <1>2, <1>5 DEF A!IInv, A!PlacesSound
  <2>5. A!ItemsSound'
    BY <1>2, <1>5, <2>1 DEF A!IInv, A!ItemsSound
  <2>6. A!DocsSound' /\ A!CursorCovers'
    BY <1>2, <2>1 DEF A!IInv, A!DocsSound, A!Exists, A!CursorCovers, A!HonoursSize, A!Limit, A!Holds
  <2>7. A!WalkSound'
    BY <1>1, <1>5 DEF A!WalkSound
  <2> QED  BY <2>2, <2>3, <2>4, <2>5, <2>6, <2>7 DEF A!IInv
<1> QED  BY <1>4, <1>5 DEF A!StartAttempt

LEMMA EnqueueStep == ASSUME A!IInv, NEW full \in BOOLEAN, A!EnqueueSync(full) PROVE A!IInv'
<1>1. A!TypeOK /\ A!PlacesSound /\ A!DocsSound /\ A!ItemsSound /\ ~job.active /\ job.id < MaxJobs
  BY DEF A!IInv, A!EnqueueSync
<1>2. UNCHANGED <<cfg, up, clock, doc, state, run, missed, faults>>
  BY DEF A!EnqueueSync
<1>3. run.pc = "idle" /\ run.items = {}
  BY <1>1, TypesAre DEF A!PlacesSound
<1>4. /\ job' \in A!Job /\ job'.id = job.id + 1 /\ job'.absent = {r \in A!Records : ~A!Exists(r)}
  <2>1. job.id + 1 \in 0..MaxJobs /\ 0 \in 0..JobAttempts
    <3>1. job.id \in 0..MaxJobs /\ MaxJobs \in Nat /\ JobAttempts \in Nat
      BY <1>1, TypesAre, ConstantTypes
    <3> QED  BY <1>1, <3>1
  <2> QED  BY <2>1 DEF A!EnqueueSync, A!Job
<1>5. A!TypeOK'
  BY <1>1, <1>2, <1>4 DEF A!TypeOK
<1>6. A!TimesSound' /\ A!CursorCovers'
  BY <1>2 DEF A!IInv, A!TimesSound, A!Exists, A!CursorCovers, A!HonoursSize, A!Limit, A!Holds
<1>7. A!PlacesSound'
  BY <1>1, <1>2, <1>3 DEF A!PlacesSound
<1>8. A!ItemsSound'
  BY <1>1, <1>2, <1>3 DEF A!ItemsSound
<1>9. A!DocsSound'
  <2>1. \A k \in A!Ends \X A!Keys : doc[k].seenIn \in Nat /\ job.id \in Nat /\ doc[k].seenIn <= job.id
    <3>1. job.id \in Nat
      BY <1>1, TypesAre, ConstantTypes
    <3>2. \A k \in A!Ends \X A!Keys : doc[k].seenIn \in Nat
      BY <1>1, TypesAre DEF A!Doc
    <3> QED  BY <1>1, <3>1, <3>2 DEF A!DocsSound
  <2>2. \A k \in A!Ends \X A!Keys : doc[k].seenIn <= job'.id /\ doc[k].seenIn # job'.id
    BY <1>4, <2>1
  <2> QED  BY <1>1, <1>2, <1>4, <2>2 DEF A!DocsSound, A!Exists
<1>10. A!WalkSound'
  BY <1>2, <1>3 DEF A!WalkSound
<1> QED  BY <1>5, <1>6, <1>7, <1>8, <1>9, <1>10 DEF A!IInv

\* What the delete pass does to a document.
LEMMA SweptDocs ==
  ASSUME A!TypeOK, A!Complete, NEW k \in A!Ends \X A!Keys
  PROVE  \/ doc'[k] = doc[k] /\ ~ (job.full /\ run.saw /\ doc[k].status = "active" /\ doc[k].seenIn < job.id)
         \/ /\ job.full /\ run.saw /\ doc[k].status = "active" /\ doc[k].seenIn < job.id
            /\ doc'[k] \in A!Doc /\ doc'[k].status = "deleted" /\ doc'[k].seenIn = doc[k].seenIn
<1>1. DOMAIN doc = A!Ends \X A!Keys /\ doc[k] \in A!Doc
  BY DEF A!TypeOK
<1>2. CASE job.full /\ run.saw
  <2>1. doc'[k] = IF doc[k].status = "active" /\ doc[k].seenIn < job.id
                  THEN [doc[k] EXCEPT !.status = "deleted"] ELSE doc[k]
    BY <1>1, <1>2 DEF A!Complete, A!Sweep
  <2> DEFINE gone == [doc[k] EXCEPT !.status = "deleted"]
  <2>2. gone \in A!Doc /\ gone.status = "deleted" /\ gone.seenIn = doc[k].seenIn
    BY <1>1 DEF A!Doc
  <2> HIDE DEF gone
  <2>3. CASE doc[k].status = "active" /\ doc[k].seenIn < job.id
    <3>1. doc'[k] = gone
      BY <2>1, <2>3 DEF gone
    <3> QED  BY <1>2, <2>2, <2>3, <3>1
  <2>4. CASE ~ (doc[k].status = "active" /\ doc[k].seenIn < job.id)
    BY <2>1, <2>4
  <2> QED  BY <2>3, <2>4
<1>3. CASE ~ (job.full /\ run.saw)
  BY <1>3 DEF A!Complete, A!Sweep
<1> QED  BY <1>2, <1>3

\* The delete pass leaves what this job stored.
LEMMA SweptStored ==
  ASSUME A!TypeOK, A!Complete, NEW r \in A!Records, A!Stored(r)
  PROVE  A!Stored(r)' /\ A!Holds(doc', r)
<1>1. PICK k \in A!Keys :
        /\ doc[<<r[1], k>>] = [status |-> "active", of |-> r[2], rev |-> up[r], seenIn |-> job.id]
        /\ IF cfg.ided THEN k = r[2] ELSE r[1] = run.ep => k < run.seq
  BY DEF A!Stored
<1>2. <<r[1], k>> \in A!Ends \X A!Keys
  BY RecordsAre
<1>3. ~ (doc[<<r[1], k>>].seenIn < job.id)
  <2>1. job.id \in Nat
    BY TypesAre, ConstantTypes
  <2> QED  BY <1>1, <2>1
<1>4. doc'[<<r[1], k>>] = [status |-> "active", of |-> r[2], rev |-> up[r], seenIn |-> job.id]
  BY <1>1, <1>2, <1>3, SweptDocs
<1>5. UNCHANGED <<cfg, up, job>> /\ run'.ep = run.ep /\ run'.seq = run.seq
  BY DEF A!Complete, A!TypeOK, A!Walk
<1>6. A!Stored(r)'
  BY <1>1, <1>4, <1>5 DEF A!Stored
<1>7. A!Holds(doc', r)
  BY <1>4 DEF A!Holds
<1> QED  BY <1>6, <1>7

\* When every endpoint is done, a full run has stored every record it could not miss.
LEMMA AllStored ==
  ASSUME A!IInv, run.pc = "complete", A!HonoursSize, job.full, NEW r \in A!Records \ run.missed, A!Exists(r)
  PROVE  A!Stored(r)
<1>1. A!TypeOK /\ A!PlacesSound /\ A!WalkSound
  BY DEF A!IInv
<1>2. r[1] < run.ep \/ r[1] = run.ep
  BY <1>1, RecordsAre, ConstantTypes DEF A!PlacesSound
<1>3. up[r] >= run.since
  <2>1. run.since = 0 /\ up[r] \in Nat
    BY <1>1, TypesAre DEF A!PlacesSound
  <2> QED  BY <2>1
<1> QED  BY <1>1, <1>2, <1>3 DEF A!WalkSound, A!InHand, A!ToCome

\* The delete pass keeps what this job saw, and what it deletes was seen by earlier ones only.
LEMMA CompleteStep == ASSUME A!IInv, A!Complete PROVE A!IInv'
<1>1. /\ A!TypeOK /\ A!TimesSound /\ A!PlacesSound /\ A!DocsSound /\ A!ItemsSound /\ A!WalkSound
      /\ run.pc = "complete" /\ run.ep = NEnds /\ run.items = {} /\ job.id \in Nat
  <2>1. A!TypeOK
    BY DEF A!IInv
  <2>2. job.id \in Nat
    BY <2>1, TypesAre, ConstantTypes
  <2>3. run.pc = "complete" /\ A!PlacesSound
    BY DEF A!IInv, A!Complete
  <2>4. run.ep = NEnds /\ run.items = {}
    BY <2>3 DEF A!PlacesSound
  <2> QED  BY <2>1, <2>2, <2>3, <2>4 DEF A!IInv
<1>2. UNCHANGED <<cfg, up, clock, state, job, faults>>
  BY DEF A!Complete
<1>3. /\ run' \in A!Walk /\ run'.pc = "return" /\ run'.ep = run.ep /\ run'.since = run.since /\ run'.next = run.next
      /\ run'.pages = run.pages /\ run'.items = run.items /\ run'.last = run.last /\ run'.seq = run.seq
      /\ run'.max = run.max /\ run'.saw = run.saw /\ run'.missed = run.missed
  BY <1>1 DEF A!Complete, A!TypeOK, A!Walk
<1>4. DOMAIN doc = A!Ends \X A!Keys /\ \A k \in A!Ends \X A!Keys : doc[k] \in A!Doc
  BY <1>1 DEF A!TypeOK
<1>5. \A k \in A!Ends \X A!Keys :
        \/ doc'[k] = doc[k]
        \/ /\ job.full /\ run.saw /\ doc[k].status = "active" /\ doc[k].seenIn < job.id
           /\ doc'[k] \in A!Doc /\ doc'[k].status = "deleted" /\ doc'[k].seenIn = doc[k].seenIn
  BY <1>1, SweptDocs
<1>6. doc' \in [A!Ends \X A!Keys -> A!Doc]
  <2>1. DOMAIN doc' = A!Ends \X A!Keys /\ doc' = [k \in DOMAIN doc' |-> doc'[k]]
    <3>1. CASE job.full /\ run.saw
      BY <1>4, <3>1 DEF A!Complete, A!Sweep
    <3>2. CASE ~ (job.full /\ run.saw)
      BY <1>1, <1>4, <3>2 DEF A!Complete, A!Sweep, A!TypeOK
    <3> QED  BY <3>1, <3>2
  <2>2. \A k \in A!Ends \X A!Keys : doc'[k] \in A!Doc
    BY <1>4, <1>5
  <2> QED  BY <2>1, <2>2
<1>7. missed' \in SUBSET A!Records /\ missed \in SUBSET missed' /\ (job.full => run.missed \in SUBSET missed')
  BY <1>1, TypesAre DEF A!Complete, A!TypeOK
<1>8. A!TypeOK'
  BY <1>1, <1>2, <1>3, <1>6, <1>7 DEF A!TypeOK
<1>9. A!TimesSound'
  BY <1>1, <1>2, <1>3 DEF A!TimesSound
<1>10. A!PlacesSound'
  BY <1>1, <1>2, <1>3 DEF A!PlacesSound, A!Since
<1>11. A!ItemsSound'
  BY <1>1, <1>2, <1>3 DEF A!ItemsSound
<1>12. A!DocsSound'
  <2>1. \A r \in job.absent : ~A!Exists(r)'
    BY <1>1, <1>2 DEF A!DocsSound, A!Exists
  <2>2. \A k \in A!Ends \X A!Keys :
       /\ doc'[k].seenIn <= job.id
       /\ doc'[k].status = "active" =>
            /\ cfg.ided => doc'[k].of = k[2]
            /\ doc'[k].seenIn = job.id => <<k[1], doc'[k].of>> \notin job.absent
    <3> TAKE k \in A!Ends \X A!Keys
    <3>1. CASE doc'[k] = doc[k]
      BY <1>1, <3>1 DEF A!DocsSound
    <3>2. CASE doc'[k].status = "deleted" /\ doc'[k].seenIn = doc[k].seenIn
      BY <1>1, <3>2 DEF A!DocsSound
    <3> QED  BY <1>5, <3>1, <3>2
  <2> QED  BY <1>2, <2>1, <2>2 DEF A!DocsSound
<1>13. A!WalkSound'
  <2> SUFFICES ASSUME A!HonoursSize, NEW r \in A!Records \ run.missed, A!Exists(r)
               PROVE  /\ r[1] < run.ep /\ job.full => A!Stored(r)'
                      /\ r[1] = run.ep /\ up[r] >= run.since => A!Stored(r)'
    BY <1>2, <1>3 DEF A!WalkSound, A!HonoursSize, A!Limit, A!Exists
  <2> QED  BY <1>1, SweptStored DEF A!WalkSound, A!InHand, A!ToCome
<1>14. A!CursorCovers'
  <2> SUFFICES ASSUME cfg.ided, A!HonoursSize, NEW r \in A!Records \ missed', A!Exists(r),
                      up[r] <= state.cursor[r[1]]
               PROVE  A!Holds(doc', r)
    BY <1>2 DEF A!CursorCovers, A!HonoursSize, A!Limit, A!Exists, A!Holds
  <2>1. CASE job.full
    <3> QED  BY <1>1, <1>7, <2>1, AllStored, SweptStored
  <2>2. CASE ~job.full
    <3>1. A!Holds(doc, r)
      BY <1>7 DEF A!IInv, A!CursorCovers
    <3>2. doc' = doc
      BY <2>2 DEF A!Complete, A!Sweep
    <3> QED  BY <3>1, <3>2
  <2> QED  BY <2>1, <2>2
<1> QED  BY <1>8, <1>9, <1>10, <1>11, <1>12, <1>13, <1>14 DEF A!IInv

\* The walk of an endpoint is over: its cursor moves, and the next endpoint's walk begins.
LEMMA PersistStep == ASSUME A!IInv, A!PersistCursor PROVE A!IInv'
<1> DEFINE e == run.ep
<1>1. /\ A!TypeOK /\ A!TimesSound /\ A!PlacesSound /\ A!DocsSound /\ A!ItemsSound /\ A!WalkSound
      /\ run.pc = "persist" /\ run.items = {} /\ e \in A!Ends /\ run.max \in Nat /\ run.max <= clock
      /\ run.since = A!Since(e)
  <2>1. A!TypeOK
    BY DEF A!IInv
  <2> QED  BY <2>1, TypesAre DEF A!IInv, A!PersistCursor, A!PlacesSound, A!TimesSound
<1>2. UNCHANGED <<cfg, up, clock, doc, job, faults>>
  BY DEF A!PersistCursor
<1>3. /\ state' \in [cursor: [A!Ends -> Nat], lastFull: 0..MaxJobs]
      /\ \A f \in A!Ends : state'.cursor[f] = IF f = e /\ run.max > 0 THEN run.max ELSE state.cursor[f]
  <2>1. state' = IF run.max > 0 THEN [state EXCEPT !.cursor[e] = run.max] ELSE state
    BY DEF A!PersistCursor
  <2>2. state \in [cursor: [A!Ends -> Nat], lastFull: 0..MaxJobs]
    BY <1>1 DEF A!TypeOK
  <2> HIDE DEF e
  <2> QED  BY <1>1, <2>1, <2>2
<1>4. missed' \in SUBSET A!Records /\ missed \in SUBSET missed' /\ \A r \in run.missed : r[1] = e => r \in missed'
  BY <1>1, TypesAre DEF A!PersistCursor, A!EndpointOf, A!TypeOK
<1>6. A!TimesSound /\ \A f \in A!Ends : state'.cursor[f] <= clock
  BY <1>1, <1>3 DEF A!TimesSound
<1>7. A!DocsSound'
  BY <1>1, <1>2 DEF A!DocsSound, A!Exists
<1>8. ASSUME A!HonoursSize, NEW r \in A!Records \ run.missed, A!Exists(r), r[1] = e, up[r] >= run.since
      PROVE  A!Stored(r)
  BY <1>1, <1>8 DEF A!WalkSound, A!InHand, A!ToCome
<1>9. A!CursorCovers'
  <2> SUFFICES ASSUME cfg.ided, A!HonoursSize, NEW r \in A!Records \ missed', A!Exists(r),
                      up[r] <= state'.cursor[r[1]]
               PROVE  A!Holds(doc, r)
    BY <1>2 DEF A!CursorCovers, A!HonoursSize, A!Limit, A!Exists, A!Holds
  <2>1. CASE up[r] <= state.cursor[r[1]]
    BY <1>4, <2>1 DEF A!IInv, A!CursorCovers
  <2>2. CASE ~ (up[r] <= state.cursor[r[1]])
    <3>1. r[1] = e
      BY <1>3, <2>2, RecordsAre
    <3>2. up[r] >= run.since
      <4>1. up[r] \in Nat /\ state.cursor[e] \in Nat
        BY <1>1, TypesAre
      <4>2. run.since = 0 \/ run.since = state.cursor[e]
        BY <1>1 DEF A!Since
      <4> QED  BY <2>2, <3>1, <4>1, <4>2
    <3>3. A!Stored(r)
      BY <1>4, <1>8, <3>1, <3>2
    <3> QED  BY <3>3 DEF A!Stored, A!Holds
  <2> QED  BY <2>1, <2>2
<1>10. CASE e < NEnds
  <2>1. e + 1 \in A!Ends /\ e \in Nat
    BY <1>1, <1>10, ConstantTypes
  <2>2. A!Since(e + 1) \in Nat /\ A!Since(e + 1) <= clock /\ (job.full => A!Since(e + 1) = 0)
    BY <1>1, <2>1, SinceTypes
  <2>3. run' = [A!Idle EXCEPT !.pc = "fetch", !.ep = e + 1, !.since = A!Since(e + 1), !.saw = run.saw,
                              !.missed = run.missed]
    BY <1>10 DEF A!PersistCursor
  <2>4. /\ run' \in A!Walk /\ run'.pc = "fetch" /\ run'.ep = e + 1 /\ run'.since = A!Since(e + 1) /\ run'.next = 0
        /\ run'.pages = 0 /\ run'.items = {} /\ run'.last = FALSE /\ run'.seq = 0
        /\ run'.max = 0 /\ run'.missed = run.missed
    <3>1. run.saw \in BOOLEAN /\ run.missed \in SUBSET A!Records
      BY <1>1, TypesAre
    <3> HIDE DEF e
    <3> QED  BY <2>1, <2>2, <2>3, <3>1, IdleIs DEF A!Walk
  <2>5. A!TypeOK'
    BY <1>1, <1>2, <1>3, <1>4, <2>4 DEF A!TypeOK
  <2>6. A!TimesSound'
    BY <1>1, <1>2, <1>6, <2>2, <2>4 DEF A!TimesSound, A!TypeOK
  <2>7. A!PlacesSound'
    <3>1. e + 1 # e /\ state'.cursor[e + 1] = state.cursor[e + 1]
      BY <1>3, <2>1
    <3>2. run'.since = A!Since(run.ep)'
      BY <1>2, <2>4, <3>1 DEF A!Since
    <3> QED  BY <1>1, <1>2, <2>2, <2>4, <3>2 DEF A!PlacesSound
  <2>8. A!ItemsSound'
    BY <2>4, EmptyPage, ConstantTypes DEF A!ItemsSound
  <2>9. A!WalkSound'
    <3> SUFFICES ASSUME A!HonoursSize, NEW r \in A!Records \ run.missed, A!Exists(r)
                 PROVE  /\ r[1] < e + 1 /\ job.full => A!Stored(r)'
                        /\ r[1] = e + 1 /\ up[r] >= run'.since => A!ToCome(r)'
      BY <1>2, <2>4 DEF A!WalkSound, A!HonoursSize, A!Limit, A!Exists
    <3>1. ASSUME r[1] < e + 1, job.full PROVE A!Stored(r)'
      <4>1. A!Stored(r)
        <5>1. r[1] < e \/ r[1] = e
          BY <2>1, <3>1, RecordsAre, ConstantTypes
        <5>2. up[r] >= run.since
          <6>1. up[r] \in Nat /\ run.since = 0
            BY <1>1, <3>1, TypesAre DEF A!PlacesSound
          <6> QED  BY <6>1
        <5> QED  BY <1>1, <1>8, <3>1, <5>1, <5>2 DEF A!WalkSound
      <4>2. r[1] # e + 1
        BY <2>1, <3>1, RecordsAre, ConstantTypes
      <4> QED  BY <1>2, <2>4, <4>1, <4>2 DEF A!Stored
    <3>2. ASSUME r[1] = e + 1, up[r] >= run'.since PROVE A!ToCome(r)'
      <4>1. A!Exists(r)' /\ up'[r] >= run'.since
        BY <1>2, <3>2 DEF A!Exists
      <4> QED  BY <2>4, <2>5, <3>2, <4>1, AllToCome
    <3> QED  BY <3>1, <3>2
  <2> QED  BY <1>7, <1>9, <2>5, <2>6, <2>7, <2>8, <2>9 DEF A!IInv
<1>11. CASE ~ (e < NEnds)
  <2>1. e = NEnds
    BY <1>1, <1>11, ConstantTypes
  <2>2. /\ run' \in A!Walk /\ run'.pc = "mark" /\ run'.ep = run.ep /\ run'.since = run.since /\ run'.next = run.next
        /\ run'.pages = run.pages /\ run'.items = run.items /\ run'.last = run.last /\ run'.seq = run.seq
        /\ run'.max = run.max /\ run'.saw = run.saw /\ run'.missed = run.missed
    <3>1. run \in A!Walk /\ run' = [run EXCEPT !.pc = "mark"]
      BY <1>1, <1>11 DEF A!PersistCursor, A!TypeOK
    <3> QED  BY <3>1 DEF A!Walk
  <2>3. A!TypeOK'
    BY <1>1, <1>2, <1>3, <1>4, <2>2 DEF A!TypeOK
  <2>4. A!TimesSound'
    BY <1>2, <1>6, <2>2 DEF A!TimesSound
  <2>5. A!PlacesSound'
    BY <1>1, <1>2, <2>1, <2>2 DEF A!PlacesSound
  <2>6. A!ItemsSound'
    BY <1>1, <2>2 DEF A!ItemsSound
  <2>7. A!WalkSound'
    <3> SUFFICES ASSUME A!HonoursSize, NEW r \in A!Records \ run.missed, A!Exists(r)
                 PROVE  /\ r[1] < run.ep /\ job.full => A!Stored(r)'
                        /\ r[1] = run.ep /\ up[r] >= run.since => A!Stored(r)'
      BY <1>2, <2>2 DEF A!WalkSound, A!HonoursSize, A!Limit, A!Exists
    <3>1. A!Stored(r)' <=> A!Stored(r)
      BY <1>2, <2>2 DEF A!Stored
    <3> QED  BY <1>1, <1>8, <3>1 DEF A!WalkSound
  <2> QED  BY <1>7, <1>9, <2>3, <2>4, <2>5, <2>6, <2>7 DEF A!IInv
<1> QED  BY <1>10, <1>11

\* A change of the collections: nothing that was read is taken back, and what the walk is past is
\* known to be missed.
LEMMA ChangedStep == ASSUME A!IInv, NEW c \in Changing, A!RecordChanged(c) PROVE A!IInv'
<1>1. /\ A!TypeOK /\ A!TimesSound /\ A!PlacesSound /\ A!DocsSound /\ A!ItemsSound /\ A!WalkSound
      /\ c \in A!Records /\ clock \in Nat
  <2>1. c \in A!Records
    BY SameAssumption DEF A!ApiAssumption
  <2> QED  BY <2>1 DEF A!IInv, A!TypeOK
<1>2. /\ UNCHANGED <<cfg, doc, state, missed, faults>> /\ clock' = clock + 1
      /\ up' = [up EXCEPT ![c] = clock + 1]
  BY DEF A!RecordChanged
<1>3. \A r \in A!Records : up'[r] = IF r = c THEN clock + 1 ELSE up[r]
  BY <1>1, <1>2 DEF A!TypeOK
<1>4. /\ job' \in A!Job /\ job'.id = job.id /\ job'.active = job.active /\ job'.full = job.full
      /\ job'.absent = job.absent \ {c}
  BY <1>1 DEF A!RecordChanged, A!TypeOK, A!Job
<1>5. /\ run' \in A!Walk /\ run'.pc = run.pc /\ run'.ep = run.ep /\ run'.since = run.since /\ run'.next = run.next
      /\ run'.pages = run.pages /\ run'.items = run.items /\ run'.last = run.last /\ run'.seq = run.seq
      /\ run'.max = run.max /\ run'.saw = run.saw
      /\ run'.missed = IF A!WalkedInto(c) THEN run.missed \cup {c} ELSE run.missed
  <2>1. run \in A!Walk /\ run.missed \in SUBSET A!Records
    BY <1>1, TypesAre DEF A!TypeOK
  <2>2. CASE A!WalkedInto(c)
    BY <1>1, <2>1, <2>2 DEF A!RecordChanged, A!Walk
  <2>3. CASE ~A!WalkedInto(c)
    BY <1>1, <2>1, <2>3 DEF A!RecordChanged, A!Walk
  <2> QED  BY <2>2, <2>3
<1>6. A!TypeOK'
  BY <1>1, <1>2, <1>4, <1>5 DEF A!TypeOK
<1>7. \A r \in A!Records : up[r] \in Nat /\ up[r] <= clock
  BY <1>1, TypesAre DEF A!TimesSound
<1>8. /\ \A e \in A!Ends : state.cursor[e] \in Nat /\ state.cursor[e] <= clock
      /\ run.since \in Nat /\ run.since <= clock /\ run.max \in Nat /\ run.max <= clock
      /\ \A x \in run.items : x.rev \in Nat /\ x.rev <= clock /\ <<run.ep, x.id>> \in A!Records
  BY <1>1, TypesAre DEF A!TimesSound, A!Records
<1>9. A!TimesSound'
  <2>1. \A r \in A!Records : up'[r] <= clock + 1
    BY <1>1, <1>3, <1>7
  <2>2. \A e \in A!Ends : state.cursor[e] <= clock + 1
    BY <1>1, <1>8
  <2>3. run.since <= clock + 1 /\ run.max <= clock + 1
    BY <1>1, <1>8
  <2>4. ASSUME NEW x \in run.items PROVE x.rev <= clock + 1
    <3>1. x.rev \in Nat /\ x.rev <= clock
      BY <1>8
    <3> QED  BY <1>1, <3>1
  <2> QED  BY <1>2, <1>5, <2>1, <2>2, <2>3, <2>4 DEF A!TimesSound
<1>10. A!PlacesSound'
  BY <1>1, <1>2, <1>4, <1>5 DEF A!PlacesSound, A!Since
<1>11. A!ItemsSound'
  <2>1. ASSUME NEW x \in run.items
        PROVE  /\ up'[<<run.ep, x.id>>] \in {0, x.rev} \/ up'[<<run.ep, x.id>>] > state.cursor[run.ep]
               /\ <<run.ep, x.id>> \notin run'.missed => up'[<<run.ep, x.id>>] \in {0, x.rev}
               /\ <<run.ep, x.id>> \notin job'.absent
    <3>1. CASE <<run.ep, x.id>> = c
      <4>1. A!WalkedInto(c)
        <5>1. run.pc = "emit" /\ run.pages > 0
          BY <1>1 DEF A!PlacesSound
        <5> QED  BY <3>1, <5>1 DEF A!WalkedInto
      <4>2. up'[c] > state.cursor[run.ep]
        <5>1. run.ep \in A!Ends
          BY <1>1, TypesAre
        <5> QED  BY <1>1, <1>3, <1>8, <5>1
      <4> QED  BY <1>4, <1>5, <3>1, <4>1, <4>2
    <3>2. CASE <<run.ep, x.id>> # c
      BY <1>1, <1>3, <1>4, <1>5, <1>8, <3>2 DEF A!ItemsSound
    <3> QED  BY <3>1, <3>2
  <2> QED  BY <1>1, <1>2, <1>5, <2>1 DEF A!ItemsSound
<1>12. A!DocsSound'
  <2>1. \A r \in job'.absent : ~A!Exists(r)'
    BY <1>1, <1>3, <1>4, TypesAre DEF A!DocsSound, A!Exists
  <2> QED  BY <1>1, <1>2, <1>4, <2>1 DEF A!DocsSound
<1>13. A!WalkSound'
  <2> SUFFICES ASSUME A!HonoursSize, run.pc # "idle", NEW r \in A!Records \ run'.missed, A!Exists(r)'
               PROVE  /\ r[1] < run.ep /\ job.full => A!Stored(r)'
                      /\ r[1] = run.ep /\ up'[r] >= run.since => (A!Stored(r) \/ A!InHand(r) \/ A!ToCome(r))'
    BY <1>2, <1>4, <1>5 DEF A!WalkSound, A!HonoursSize, A!Limit
  <2>1. CASE r = c
    <3>1. ~A!WalkedInto(c)
      BY <1>5, <2>1
    <3>2. ~ (r[1] < run.ep) /\ (r[1] = run.ep => run.pages = 0)
      BY <1>1, <2>1, <3>1, TypesAre DEF A!WalkedInto
    <3>3. ASSUME r[1] = run.ep, up'[r] >= run.since PROVE A!ToCome(r)'
      <4>1. run'.next = 0 /\ run'.pc = "fetch" /\ ~run'.last
        BY <1>1, <1>5, <3>2, <3>3, TypesAre DEF A!PlacesSound
      <4> QED  BY <1>5, <1>6, <3>3, <4>1, AllToCome
    <3> QED  BY <3>2, <3>3
  <2>2. CASE r # c
    <3>1. up'[r] = up[r] /\ r \notin run.missed /\ A!Exists(r)
      BY <1>3, <1>5, <2>2 DEF A!Exists
    <3>2. (A!Stored(r)' <=> A!Stored(r)) /\ (A!InHand(r)' <=> A!InHand(r))
      BY <1>2, <1>4, <1>5, <3>1 DEF A!Stored, A!InHand
    <3>3. ASSUME A!ToCome(r), r[1] = run.ep, up[r] >= run.since PROVE A!ToCome(r)'
      <4>1. r = <<run.ep, r[2]>> /\ r[2] \in A!Ids
        BY <3>3, RecordsAre
      <4>2. A!Exists(<<run.ep, r[2]>>)' /\ up'[<<run.ep, r[2]>>] >= run.since
        <5>1. A!Exists(r)' /\ up'[r] >= run.since
          BY <3>1, <3>3
        <5> QED  BY <1>5, <4>1, <5>1 DEF A!Exists
      <4>3. \A j \in A!Ids : up[<<run.ep, j>>] > 0 /\ up[<<run.ep, j>>] >= run.since =>
                             up'[<<run.ep, j>>] > 0 /\ up'[<<run.ep, j>>] >= run.since
        <5> TAKE j \in A!Ids
        <5>1. <<run.ep, j>> \in A!Records
          BY <1>1, TypesAre DEF A!Records
        <5>2. up'[<<run.ep, j>>] = clock + 1 \/ up'[<<run.ep, j>>] = up[<<run.ep, j>>]
          BY <1>3, <5>1
        <5> QED  BY <1>1, <1>8, <5>2
      <4>4. A!Ahead(r[2])'
        BY <1>1, <1>2, <1>5, <1>6, <3>3, <4>1, <4>2, <4>3, AheadStays DEF A!ToCome
      <4> QED  BY <1>5, <3>3, <4>4 DEF A!ToCome
    <3> QED  BY <1>1, <1>5, <3>1, <3>2, <3>3 DEF A!WalkSound
  <2> QED  BY <2>1, <2>2
<1>14. A!CursorCovers'
  <2> SUFFICES ASSUME cfg.ided, A!HonoursSize, NEW r \in A!Records \ missed, A!Exists(r)',
                      up'[r] <= state.cursor[r[1]]
               PROVE  \E k \in A!Keys : /\ doc[<<r[1], k>>].status = "active"
                                        /\ doc[<<r[1], k>>].of = r[2] /\ doc[<<r[1], k>>].rev = up'[r]
    BY <1>2 DEF A!CursorCovers, A!HonoursSize, A!Limit, A!Holds
  <2>1. r # c
    BY <1>1, <1>3, <1>8, RecordsAre
  <2>2. up'[r] = up[r]
    BY <1>3, <2>1
  <2> QED  BY <2>2 DEF A!IInv, A!CursorCovers, A!Exists, A!Holds
<1> QED  BY <1>6, <1>9, <1>10, <1>11, <1>12, <1>13, <1>14 DEF A!IInv

LEMMA RemovedStep == ASSUME A!IInv, NEW c \in Changing, A!RecordRemoved(c) PROVE A!IInv'
<1> DEFINE skips == A!WalkedInto(c) /\ cfg.type \in {"page", "offset", "link-header"}
<1>1. /\ A!TypeOK /\ A!TimesSound /\ A!PlacesSound /\ A!DocsSound /\ A!ItemsSound /\ A!WalkSound
      /\ c \in A!Records /\ clock \in Nat
  <2>1. c \in A!Records
    BY SameAssumption DEF A!ApiAssumption
  <2> QED  BY <2>1 DEF A!IInv, A!TypeOK
<1>2. /\ UNCHANGED <<cfg, doc, state, job, missed, faults>> /\ clock' = clock + 1
      /\ up' = [up EXCEPT ![c] = 0]
  BY DEF A!RecordRemoved
<1>3. \A r \in A!Records : up'[r] = IF r = c THEN 0 ELSE up[r]
  BY <1>1, <1>2 DEF A!TypeOK
<1>4. /\ run' \in A!Walk /\ run'.pc = run.pc /\ run'.ep = run.ep /\ run'.since = run.since /\ run'.next = run.next
      /\ run'.pages = run.pages /\ run'.items = run.items /\ run'.last = run.last /\ run'.seq = run.seq
      /\ run'.max = run.max /\ run'.saw = run.saw
      /\ run'.missed = IF skips THEN run.missed \cup A!EndpointOf(c[1]) ELSE run.missed
  <2>1. run \in A!Walk /\ run.missed \in SUBSET A!Records /\ A!EndpointOf(c[1]) \in SUBSET A!Records
    BY <1>1, TypesAre DEF A!TypeOK, A!EndpointOf
  <2>2. run' = [run EXCEPT !.missed = IF skips THEN run.missed \cup A!EndpointOf(c[1]) ELSE run.missed]
    BY <1>1 DEF A!RecordRemoved
  <2> HIDE DEF skips
  <2>3. CASE skips
    BY <1>1, <2>1, <2>2, <2>3 DEF A!Walk
  <2>4. CASE ~skips
    BY <1>1, <2>1, <2>2, <2>4 DEF A!Walk
  <2> QED  BY <2>3, <2>4
<1>5. A!TypeOK'
  BY <1>1, <1>2, <1>4 DEF A!TypeOK
<1>6. \A r \in A!Records : up[r] \in Nat /\ up[r] <= clock
  BY <1>1, TypesAre DEF A!TimesSound
<1>7. /\ \A e \in A!Ends : state.cursor[e] \in Nat /\ state.cursor[e] <= clock
      /\ run.since \in Nat /\ run.since <= clock /\ run.max \in Nat /\ run.max <= clock
      /\ \A x \in run.items : x.rev \in Nat /\ x.rev <= clock /\ <<run.ep, x.id>> \in A!Records
  BY <1>1, TypesAre DEF A!TimesSound, A!Records
<1>8. run.missed \in SUBSET run'.missed
  BY <1>4
<1>9. A!TimesSound'
  <2>1. \A r \in A!Records : up'[r] <= clock + 1
    BY <1>1, <1>3, <1>6
  <2>2. \A e \in A!Ends : state.cursor[e] <= clock + 1
    BY <1>1, <1>7
  <2>3. run.since <= clock + 1 /\ run.max <= clock + 1
    BY <1>1, <1>7
  <2>4. ASSUME NEW x \in run.items PROVE x.rev <= clock + 1
    <3>1. x.rev \in Nat /\ x.rev <= clock
      BY <1>7
    <3> QED  BY <1>1, <3>1
  <2> QED  BY <1>2, <1>4, <2>1, <2>2, <2>3, <2>4 DEF A!TimesSound
<1>10. A!PlacesSound'
  BY <1>1, <1>2, <1>4 DEF A!PlacesSound, A!Since
<1>11. A!ItemsSound'
  <2>1. ASSUME NEW x \in run.items
        PROVE  /\ up'[<<run.ep, x.id>>] \in {0, x.rev} \/ up'[<<run.ep, x.id>>] > state.cursor[run.ep]
               /\ <<run.ep, x.id>> \notin run'.missed => up'[<<run.ep, x.id>>] \in {0, x.rev}
               /\ <<run.ep, x.id>> \notin job.absent
    <3>1. up'[<<run.ep, x.id>>] = 0 \/ up'[<<run.ep, x.id>>] = up[<<run.ep, x.id>>]
      BY <1>3, <1>7
    <3> QED  BY <1>1, <1>8, <3>1 DEF A!ItemsSound
  <2> QED  BY <1>1, <1>2, <1>4, <2>1 DEF A!ItemsSound
<1>12. A!DocsSound'
  <2>1. \A r \in job.absent : ~A!Exists(r)'
    BY <1>1, <1>3, TypesAre DEF A!DocsSound, A!Exists
  <2> QED  BY <1>1, <1>2, <2>1 DEF A!DocsSound
<1>13. A!WalkSound'
  <2> SUFFICES ASSUME A!HonoursSize, run.pc # "idle", NEW r \in A!Records \ run'.missed, A!Exists(r)'
               PROVE  /\ r[1] < run.ep /\ job.full => A!Stored(r)'
                      /\ r[1] = run.ep /\ up'[r] >= run.since => (A!Stored(r) \/ A!InHand(r) \/ A!ToCome(r))'
    BY <1>2, <1>4 DEF A!WalkSound, A!HonoursSize, A!Limit
  <2>1. r # c /\ up'[r] = up[r] /\ r \notin run.missed /\ A!Exists(r)
    BY <1>3, <1>8 DEF A!Exists
  <2>2. (A!Stored(r)' <=> A!Stored(r)) /\ (A!InHand(r)' <=> A!InHand(r))
    BY <1>2, <1>4, <2>1 DEF A!Stored, A!InHand
  <2>3. ASSUME A!ToCome(r), r[1] = run.ep, up[r] >= run.since PROVE A!ToCome(r)'
    <3>1. r = <<run.ep, r[2]>> /\ r[2] \in A!Ids
      BY <2>3, RecordsAre
    <3>2. A!Exists(<<run.ep, r[2]>>)' /\ up'[<<run.ep, r[2]>>] >= run.since
      <4>1. A!Exists(r)' /\ up'[r] >= run.since
        BY <2>1, <2>3
      <4> QED  BY <1>4, <3>1, <4>1 DEF A!Exists
    <3>3. \/ A!ByCursor \/ run.next = 0
          \/ \A j \in A!Ids : up[<<run.ep, j>>] > 0 /\ up[<<run.ep, j>>] >= run.since =>
                              up'[<<run.ep, j>>] > 0 /\ up'[<<run.ep, j>>] >= run.since
      <4>1. CASE c[1] = run.ep /\ run.pages = 0
        BY <1>1, <4>1 DEF A!PlacesSound
      <4>2. CASE c[1] = run.ep /\ run.pages # 0
        <5>1. A!WalkedInto(c)
          BY <1>1, <4>2, TypesAre DEF A!WalkedInto
        <5>2. cfg.type \notin {"page", "offset", "link-header"}
          <6>1. r \in A!EndpointOf(c[1])
            BY <2>3, <4>2 DEF A!EndpointOf
          <6> QED  BY <1>4, <5>1, <6>1
        <5>3. cfg.type # "none"
          BY <1>1, <2>3, <4>2, TypesAre DEF A!PlacesSound, A!ToCome
        <5> QED  BY <1>1, <5>2, <5>3, ConfigIs DEF A!ByCursor
      <4>3. CASE c[1] # run.ep
        <5>1. ASSUME NEW j \in A!Ids PROVE up'[<<run.ep, j>>] = up[<<run.ep, j>>]
          <6>1. <<run.ep, j>> \in A!Records /\ <<run.ep, j>> # c
            BY <1>1, <4>3, TypesAre DEF A!Records
          <6> QED  BY <1>3, <6>1
        <5> QED  BY <5>1
      <4> QED  BY <4>1, <4>2, <4>3
    <3>4. A!Ahead(r[2])'
      BY <1>1, <1>2, <1>4, <1>5, <2>3, <3>1, <3>2, <3>3, AheadStays DEF A!ToCome
    <3> QED  BY <1>4, <2>3, <3>4 DEF A!ToCome
  <2> QED  BY <1>1, <1>4, <2>1, <2>2, <2>3 DEF A!WalkSound
<1>14. A!CursorCovers'
  <2> SUFFICES ASSUME cfg.ided, A!HonoursSize, NEW r \in A!Records \ missed, A!Exists(r)',
                      up'[r] <= state.cursor[r[1]]
               PROVE  \E k \in A!Keys : /\ doc[<<r[1], k>>].status = "active"
                                        /\ doc[<<r[1], k>>].of = r[2] /\ doc[<<r[1], k>>].rev = up'[r]
    BY <1>2 DEF A!CursorCovers, A!HonoursSize, A!Limit, A!Holds
  <2>1. up'[r] = up[r]
    BY <1>3 DEF A!Exists
  <2> QED  BY <2>1 DEF A!IInv, A!CursorCovers, A!Exists, A!Holds
<1> QED  BY <1>5, <1>9, <1>10, <1>11, <1>12, <1>13, <1>14 DEF A!IInv

\* What a page request leaves in the walk.
LEMMA FetchedIs ==
  ASSUME A!TypeOK, NEW hasItems \in BOOLEAN, A!FetchPage(hasItems), NEW got, got = IF hasItems THEN A!Page ELSE {}
  PROVE  /\ run' \in A!Walk /\ run'.pc = "emit" /\ run'.ep = run.ep /\ run'.since = run.since
         /\ run'.next = A!NextPosition /\ run'.pages = run.pages + 1
         /\ run'.items = {[id |-> i, rev |-> up[<<run.ep, i>>]] : i \in got}
         /\ run'.last = A!LastPage(Cardinality(got), A!Page # A!Left)
         /\ run'.seq = run.seq /\ run'.max = run.max /\ run'.saw = run.saw
         /\ run'.missed = IF hasItems THEN run.missed ELSE run.missed \cup A!EndpointOf(run.ep)
<1> DEFINE items == {[id |-> i, rev |-> up[<<run.ep, i>>]] : i \in got}
           last == A!LastPage(Cardinality(got), A!Page # A!Left)
           lost == IF hasItems THEN run.missed ELSE run.missed \cup A!EndpointOf(run.ep)
<1> HIDE DEF items, last, lost
<1>1. run' = [run EXCEPT !.pc = "emit", !.pages = run.pages + 1, !.retries = 0, !.items = items, !.last = last,
                         !.next = A!NextPosition, !.missed = lost]
  <2>1. A!Cardinality(got) = Cardinality(got)
    BY SameCardinality
  <2>2. PICK its : /\ its = IF hasItems THEN A!Page ELSE {}
                   /\ run' = [run EXCEPT !.pc = "emit", !.pages = run.pages + 1, !.retries = 0,
                        !.items = {[id |-> i, rev |-> up[<<run.ep, i>>]] : i \in its},
                        !.last = A!LastPage(A!Cardinality(its), A!Page # A!Left), !.next = A!NextPosition,
                        !.missed = IF hasItems THEN run.missed ELSE run.missed \cup A!EndpointOf(run.ep)]
    BY DEF A!FetchPage
  <2>3. its = got
    BY <2>2
  <2>4. {[id |-> i, rev |-> up[<<run.ep, i>>]] : i \in its} = items /\ A!Cardinality(its) = Cardinality(got)
    BY <2>1, <2>3 DEF items
  <2>5. A!LastPage(A!Cardinality(its), A!Page # A!Left) = last
    BY <2>4 DEF last
  <2>6. run' = [run EXCEPT !.pc = "emit", !.pages = run.pages + 1, !.retries = 0, !.items = items,
                  !.last = last, !.next = A!NextPosition, !.missed = lost]
    BY <2>2, <2>4, <2>5, Zenon DEF lost
  <2> QED  BY <2>6
<1>2. run \in A!Walk /\ run.pages + 1 \in Nat /\ 0 \in 0..MaxRetries
  <2>1. run \in A!Walk
    BY DEF A!TypeOK
  <2>2. run.pages \in Nat /\ MaxRetries \in Nat
    BY TypesAre, ConstantTypes
  <2> QED  BY <2>1, <2>2
<1>3. got \in SUBSET (1..NRecords) /\ Cardinality(got) \in Nat /\ A!NextPosition \in Nat
  BY PageBounds, EmptyPage
<1>4. items \in SUBSET [id: A!Ids, rev: Nat]
  <2> SUFFICES ASSUME NEW i \in got PROVE [id |-> i, rev |-> up[<<run.ep, i>>]] \in [id: A!Ids, rev: Nat]
    BY DEF items
  <2>1. i \in A!Ids /\ <<run.ep, i>> \in A!Records
    BY <1>3, TypesAre, ConstantTypes DEF A!Records
  <2>2. up[<<run.ep, i>>] \in Nat
    BY <2>1, TypesAre
  <2> QED  BY <2>1, <2>2
<1>5. last \in BOOLEAN
  <2>1. cfg.type \in {"none", "page", "offset", "cursor", "link-header"}
    BY ConfigIs
  <2> QED  BY <2>1 DEF last, A!LastPage
<1>6. lost \in SUBSET A!Records
  BY TypesAre DEF lost, A!EndpointOf
<1>7. /\ run' \in A!Walk /\ run'.pc = "emit" /\ run'.ep = run.ep /\ run'.since = run.since
      /\ run'.next = A!NextPosition /\ run'.pages = run.pages + 1 /\ run'.items = items /\ run'.last = last
      /\ run'.seq = run.seq /\ run'.max = run.max /\ run'.saw = run.saw /\ run'.missed = lost
  BY <1>1, <1>2, <1>3, <1>4, <1>5, <1>6 DEF A!Walk
<1> QED  BY <1>7 DEF items, last, lost

\* A page arrives.
LEMMA FetchStep == ASSUME A!IInv, NEW hasItems \in BOOLEAN, A!FetchPage(hasItems) PROVE A!IInv'
<1> DEFINE got == IF hasItems THEN A!Page ELSE {}
<1>1. /\ A!TypeOK /\ A!TimesSound /\ A!PlacesSound /\ A!DocsSound /\ A!ItemsSound /\ A!WalkSound
      /\ run.pc = "fetch" /\ run.items = {} /\ ~run.last
  BY DEF A!IInv, A!FetchPage, A!PlacesSound
<1>2. UNCHANGED <<cfg, up, clock, doc, state, job, missed>> /\ faults' \in 0..MaxFaults
  <2>1. faults \in 0..MaxFaults /\ MaxFaults \in Nat
    BY <1>1, ConstantTypes DEF A!TypeOK
  <2>2. UNCHANGED <<cfg, up, clock, doc, state, job, missed>>
    BY DEF A!FetchPage
  <2>3. (hasItems \/ faults < MaxFaults) /\ faults' = IF hasItems THEN faults ELSE faults + 1
    BY DEF A!FetchPage
  <2> QED  BY <2>1, <2>2, <2>3
<1>3. /\ run' \in A!Walk /\ run'.pc = "emit" /\ run'.ep = run.ep /\ run'.since = run.since
      /\ run'.next = A!NextPosition /\ run'.pages = run.pages + 1
      /\ run'.items = {[id |-> i, rev |-> up[<<run.ep, i>>]] : i \in got}
      /\ run'.last = A!LastPage(Cardinality(got), A!Page # A!Left)
      /\ run'.seq = run.seq /\ run'.max = run.max /\ run'.saw = run.saw
      /\ run'.missed = IF hasItems THEN run.missed ELSE run.missed \cup A!EndpointOf(run.ep)
  BY <1>1, FetchedIs
<1>4. /\ IsFiniteSet(got) /\ Cardinality(got) \in Nat /\ got \in SUBSET (1..NRecords) /\ got \in SUBSET A!Page
      /\ A!NextPosition \in Nat /\ run.next + Cardinality(got) <= A!NextPosition
      /\ \A s \in Nat : s <= run.next /\ s <= NRecords => s + Cardinality(got) <= NRecords
  <2>1. CASE hasItems
    BY <1>1, <2>1, PageBounds
  <2>2. CASE ~hasItems
    <3>1. /\ A!NextPosition \in Nat /\ run.next + Cardinality(A!Page) <= A!NextPosition
          /\ Cardinality(A!Page) \in Nat /\ run.next \in Nat /\ NRecords \in Nat
      BY <1>1, PageBounds, TypesAre, ConstantTypes
    <3>2. got = {} /\ Cardinality({}) = 0 /\ IsFiniteSet({})
      BY <2>2, EmptyPage
    <3> HIDE DEF got
    <3> QED  BY <3>1, <3>2
  <2> QED  BY <2>1, <2>2
<1>5. \A i \in got : A!Exists(<<run.ep, i>>)
  BY <1>1, <1>4, AheadIs DEF Span, A!Listed
<1> HIDE DEF got
<1>6. A!TypeOK'
  BY <1>1, <1>2, <1>3 DEF A!TypeOK
<1>7. A!TimesSound'
  <2>1. ASSUME NEW x \in run'.items PROVE x.rev <= clock
    <3>1. PICK i \in got : x = [id |-> i, rev |-> up[<<run.ep, i>>]]
      BY <1>3, <2>1
    <3>2. <<run.ep, i>> \in A!Records
      BY <1>1, <1>4, TypesAre, ConstantTypes DEF A!Records
    <3> QED  BY <1>1, <3>1, <3>2 DEF A!TimesSound
  <2> QED  BY <1>1, <1>2, <1>3, <2>1 DEF A!TimesSound
<1>8. A!PlacesSound'
  <2>1. run'.pages > 0 /\ run'.pages # 0
    BY <1>1, <1>3, TypesAre
  <2>2. cfg.type = "none" => run'.last
    BY <1>3 DEF A!LastPage
  <2> QED  BY <1>1, <1>2, <1>3, <2>1, <2>2 DEF A!PlacesSound, A!Since
<1>9. A!ItemsSound'
  <2>1. IsFiniteSet(run'.items) /\ Cardinality(run'.items) \in Nat /\ Cardinality(run'.items) <= Cardinality(got)
    <3> DEFINE f == [x \in run'.items |-> x.id]
    <3>1. ASSUME NEW x \in run'.items PROVE x.id \in got /\ x = [id |-> x.id, rev |-> up[<<run.ep, x.id>>]]
      <4>1. PICK i \in got : x = [id |-> i, rev |-> up[<<run.ep, i>>]]
        BY <1>3
      <4>2. x.id = i
        BY <4>1
      <4> QED  BY <4>1, <4>2
    <3>2. f \in [run'.items -> got]
      BY <3>1
    <3>3. ASSUME NEW a \in run'.items, NEW b \in run'.items, f[a] = f[b] PROVE a = b
      <4>1. a.id = b.id
        BY <3>3
      <4> QED  BY <3>1, <4>1
    <3>4. f \in Injection(run'.items, got)
      <4> HIDE DEF f
      <4> QED  BY <3>2, <3>3 DEF Injection, IsInjective
    <3> HIDE DEF f
    <3> QED  BY <1>4, <3>4, FS_Injection, FS_CardinalityType
  <2>2. /\ run'.seq + Cardinality(run'.items) <= run'.next
        /\ run'.seq + Cardinality(run'.items) <= NRecords
    <3>1. run.seq \in Nat /\ run.next \in Nat /\ NRecords \in Nat /\ run.seq <= run.next /\ run.seq <= NRecords
      <4>1. run.seq \in Nat /\ run.next \in Nat /\ NRecords \in Nat
        BY <1>1, TypesAre, ConstantTypes
      <4>2. run.seq + 0 <= run.next /\ run.seq + 0 <= NRecords
        BY <1>1, EmptyPage DEF A!ItemsSound
      <4> QED  BY <4>1, <4>2
    <3>2. run.seq + Cardinality(got) <= NRecords
      BY <1>4, <3>1
    <3> QED  BY <1>3, <1>4, <2>1, <3>1, <3>2
  <2>3. ASSUME NEW x \in run'.items, NEW y \in run'.items, x.id = y.id PROVE x = y
    <3>1. PICK i \in got : x = [id |-> i, rev |-> up[<<run.ep, i>>]]
      BY <1>3
    <3>2. PICK j \in got : y = [id |-> j, rev |-> up[<<run.ep, j>>]]
      BY <1>3
    <3>3. i = j
      BY <2>3, <3>1, <3>2
    <3> QED  BY <3>1, <3>2, <3>3
  <2>4. ASSUME NEW x \in run'.items
        PROVE  up[<<run.ep, x.id>>] = x.rev /\ <<run.ep, x.id>> \notin job.absent
    <3>1. PICK i \in got : x = [id |-> i, rev |-> up[<<run.ep, i>>]]
      BY <1>3, <2>4
    <3> QED  BY <1>1, <1>5, <3>1 DEF A!DocsSound
  <2> QED  BY <1>2, <1>3, <2>1, <2>2, <2>3, <2>4, SameCardinality DEF A!ItemsSound, A!IsFiniteSet, IsFiniteSet
<1>10. A!DocsSound' /\ A!CursorCovers'
  BY <1>2 DEF A!IInv, A!DocsSound, A!Exists, A!CursorCovers, A!HonoursSize, A!Limit, A!Holds
<1>11. A!WalkSound'
  <2> SUFFICES ASSUME A!HonoursSize, NEW r \in A!Records \ run'.missed, A!Exists(r)
               PROVE  /\ r[1] < run.ep /\ job.full => A!Stored(r)'
                      /\ r[1] = run.ep /\ up[r] >= run.since => (A!Stored(r) \/ A!InHand(r) \/ A!ToCome(r))'
    BY <1>2, <1>3 DEF A!WalkSound, A!HonoursSize, A!Limit, A!Exists
  <2>1. A!Stored(r)' <=> A!Stored(r)
    BY <1>2, <1>3 DEF A!Stored
  <2>2. /\ r[1] < run.ep /\ job.full => A!Stored(r)
        /\ r[1] = run.ep /\ up[r] >= run.since => A!Stored(r) \/ A!ToCome(r)
    BY <1>1, <1>3 DEF A!WalkSound, A!InHand
  <2>3. ASSUME A!ToCome(r), r[1] = run.ep, up[r] >= run.since PROVE A!InHand(r)' \/ A!ToCome(r)'
    <3>1. r = <<run.ep, r[2]>> /\ r[2] \in A!Ids /\ A!Ahead(r[2])
      BY <2>3, RecordsAre DEF A!ToCome
    <3>2. hasItems
      BY <1>3, <2>3 DEF A!EndpointOf
    <3>3. CASE r[2] \in A!Page
      <4>1. r[2] \in got
        BY <3>2, <3>3 DEF got
      <4>2. [id |-> r[2], rev |-> up[<<run.ep, r[2]>>]] \in run'.items
        BY <1>3, <4>1
      <4> QED  BY <1>3, <4>2 DEF A!InHand
    <3>4. CASE r[2] \notin A!Page
      <4>1. got = A!Page
        BY <3>2 DEF got
      <4>2. /\ ~A!LastPage(Cardinality(A!Page), A!Page # A!Left)
            /\ A!ByCursor => r[2] > A!NextPosition
            /\ ~A!ByCursor => Rank(Span, r[2]) > A!NextPosition
        BY <1>1, <3>1, <3>4, PageCovers
      <4>3. ~run'.last
        BY <1>3, <4>1, <4>2
      <4>4. A!Ahead(r[2])'
        <5>1. CASE A!ByCursor
          <6>1. A!ByCursor' /\ r[2] > run'.next
            BY <1>2, <1>3, <4>2, <5>1 DEF A!ByCursor
          <6>2. A!Exists(<<run.ep, r[2]>>)' /\ up'[<<run'.ep, r[2]>>] >= run'.since
            BY <1>2, <1>3, <2>3, <3>1 DEF A!Exists
          <6> QED  BY <1>6, <3>1, <6>1, <6>2, AheadAtOnceNext
        <5>2. CASE ~A!ByCursor
          <6>1. Span' = Span /\ A!Offset' = A!NextPosition
            BY <1>2, <1>3, <5>2 DEF Span, A!Listed, A!ByCursor, A!Offset, A!Exists
          <6>2. r[2] \in Span
            BY <1>1, <3>1, AheadIs
          <6>3. Rank(Span, r[2])' = Rank(Span', r[2])
            BY DEF Rank
          <6>4. r[2] \in Span' /\ Rank(Span', r[2]) > A!Offset'
            BY <4>2, <5>2, <6>1, <6>2
          <6> QED  BY <1>6, <6>3, <6>4, AheadIsNext
        <5> QED  BY <5>1, <5>2
      <4> QED  BY <1>3, <4>3, <4>4 DEF A!ToCome
    <3> QED  BY <3>3, <3>4
  <2> QED  BY <2>1, <2>2, <2>3
<1> QED  BY <1>6, <1>7, <1>8, <1>9, <1>10, <1>11 DEF A!IInv

\* What putting one record leaves: its document, unless it failed, and the rest of the page.
LEMMA EmittedIs ==
  ASSUME A!TypeOK, A!ItemsSound, NEW embeds \in BOOLEAN, A!EmitItem(embeds)
  PROVE  \E x \in run.items, m \in A!Keys, stored \in BOOLEAN :
           /\ run.pc = "emit" /\ m = IF cfg.ided THEN x.id ELSE run.seq
           /\ \A q \in A!Ends \X A!Keys :
                doc'[q] = IF stored /\ q = <<run.ep, m>>
                          THEN [status |-> "active", of |-> x.id, rev |-> x.rev, seenIn |-> job.id] ELSE doc[q]
           /\ doc' \in [A!Ends \X A!Keys -> A!Doc]
           /\ run' \in A!Walk /\ run'.pc = "emit" /\ run'.ep = run.ep /\ run'.since = run.since
           /\ run'.next = run.next /\ run'.pages = run.pages /\ run'.items = run.items \ {x}
           /\ run'.last = run.last /\ run'.seq = run.seq + 1
           /\ run'.max = run.max \/ run'.max = x.rev
           /\ run'.missed = IF stored THEN run.missed ELSE run.missed \cup {<<run.ep, x.id>>}
           /\ Cardinality(run'.items) = Cardinality(run.items) - 1 /\ Cardinality(run.items) \in Nat
           /\ IsFiniteSet(run'.items)
<1>1. PICK x \in run.items :
        LET r == <<run.ep, x.id>>
            put == r \notin cfg.broken
        IN  /\ run.pc = "emit"
            /\ doc' = IF put /\ embeds
                      THEN [doc EXCEPT ![A!KeyOf(x)] = [status |-> "active", of |-> x.id,
                                                        rev |-> x.rev, seenIn |-> job.id]]
                      ELSE doc
            /\ run' = [run EXCEPT
                 !.items = run.items \ {x}, !.seq = run.seq + 1, !.saw = run.saw \/ put,
                 !.max = IF put THEN A!Max({run.max, x.rev}) ELSE run.max,
                 !.missed = IF put /\ embeds THEN run.missed ELSE run.missed \cup {r}]
  BY DEF A!EmitItem
<1> DEFINE put == <<run.ep, x.id>> \notin cfg.broken
           stored == put /\ embeds
           m == IF cfg.ided THEN x.id ELSE run.seq
           new == [status |-> "active", of |-> x.id, rev |-> x.rev, seenIn |-> job.id]
           max == IF put THEN A!Max({run.max, x.rev}) ELSE run.max
           lost == IF put /\ embeds THEN run.missed ELSE run.missed \cup {<<run.ep, x.id>>}
<1>2. x.id \in A!Ids /\ x.rev \in Nat /\ run.seq \in Nat /\ run.ep \in A!Ends /\ job.id \in Nat /\ run.max \in Nat
  <2>1. run.items \in SUBSET [id: A!Ids, rev: Nat] /\ run.seq \in Nat /\ run.ep \in A!Ends /\ run.max \in Nat
    BY TypesAre
  <2>2. job.id \in 0..MaxJobs /\ MaxJobs \in Nat
    BY TypesAre, ConstantTypes
  <2> QED  BY <2>1, <2>2
<1>3. /\ IsFiniteSet(run.items \ {x}) /\ Cardinality(run.items \ {x}) = Cardinality(run.items) - 1
      /\ Cardinality(run.items) \in Nat /\ Cardinality(run.items) # 0
  <2>1. IsFiniteSet(run.items)
    BY DEF A!ItemsSound, A!IsFiniteSet, IsFiniteSet
  <2> QED  BY <2>1, FS_RemoveElement, FS_EmptySet, FS_CardinalityType
<1>4. m \in A!Keys
  <2>1. run.seq + Cardinality(run.items) <= NRecords
    BY SameCardinality DEF A!ItemsSound
  <2>2. NRecords \in Nat
    BY ConstantTypes
  <2>3. run.seq \in 0..NRecords
    BY <1>2, <1>3, <2>1, <2>2
  <2> QED  BY <1>2, <2>3, ConstantTypes
<1>5. max \in Nat /\ (max = run.max \/ max = x.rev)
  BY <1>2, MaxOfTwo
<1>6. lost \in SUBSET A!Records
  <2>1. run.missed \in SUBSET A!Records
    BY TypesAre
  <2>2. <<run.ep, x.id>> \in A!Records
    BY <1>2 DEF A!Records
  <2> QED  BY <2>1, <2>2
<1>7. new \in A!Doc
  <2>1. x.id \in Nat
    BY <1>2, ConstantTypes
  <2> QED  BY <1>2, <2>1 DEF A!Doc
<1>8. doc' = IF stored THEN [doc EXCEPT ![<<run.ep, m>>] = new] ELSE doc
  BY <1>1 DEF A!KeyOf
<1>9. run' = [run EXCEPT !.items = run.items \ {x}, !.seq = run.seq + 1, !.saw = run.saw \/ put, !.max = max,
                         !.missed = lost]
  BY <1>1
<1>10. run \in A!Walk /\ (run.saw \/ put) \in BOOLEAN /\ run.items \in SUBSET [id: A!Ids, rev: Nat]
  <2>1. run \in A!Walk
    BY DEF A!TypeOK
  <2>2. run.items \in SUBSET [id: A!Ids, rev: Nat]
    BY TypesAre
  <2> QED  BY <2>1, <2>2
<1>11. doc \in [A!Ends \X A!Keys -> A!Doc] /\ <<run.ep, m>> \in A!Ends \X A!Keys
  BY <1>2, <1>4 DEF A!TypeOK
<1>12. stored \in BOOLEAN
  OBVIOUS
<1>13. lost = IF stored THEN run.missed ELSE run.missed \cup {<<run.ep, x.id>>}
  OBVIOUS
<1>14. m = IF cfg.ided THEN x.id ELSE run.seq
  OBVIOUS
<1>15. run.items \ {x} \in SUBSET [id: A!Ids, rev: Nat] /\ run.seq + 1 \in Nat
  BY <1>2, <1>10
<1> HIDE DEF put, stored, m, new, max, lost
<1>16. /\ run' \in A!Walk /\ run'.pc = "emit" /\ run'.ep = run.ep /\ run'.since = run.since
       /\ run'.next = run.next /\ run'.pages = run.pages /\ run'.items = run.items \ {x}
       /\ run'.last = run.last /\ run'.seq = run.seq + 1 /\ run'.max = max /\ run'.missed = lost
  <2>1. run.pc = "emit"
    BY <1>1
  <2> QED  BY <1>5, <1>6, <1>9, <1>10, <1>15, <2>1 DEF A!Walk
<1>17. /\ doc' \in [A!Ends \X A!Keys -> A!Doc]
       /\ \A q \in A!Ends \X A!Keys : doc'[q] = IF stored /\ q = <<run.ep, m>> THEN new ELSE doc[q]
  <2>1. CASE stored
    BY <1>7, <1>8, <1>11, <2>1
  <2>2. CASE ~stored
    BY <1>8, <1>11, <2>2
  <2> QED  BY <1>12, <2>1, <2>2
<1>18. \A q \in A!Ends \X A!Keys :
         doc'[q] = IF stored /\ q = <<run.ep, m>>
                   THEN [status |-> "active", of |-> x.id, rev |-> x.rev, seenIn |-> job.id] ELSE doc[q]
  BY <1>17 DEF new
<1>19. run.pc = "emit" /\ (run'.max = run.max \/ run'.max = x.rev)
  BY <1>1, <1>5, <1>16
<1>20. /\ Cardinality(run'.items) = Cardinality(run.items) - 1 /\ Cardinality(run.items) \in Nat
       /\ IsFiniteSet(run'.items)
  BY <1>3, <1>16
<1>21. run'.missed = IF stored THEN run.missed ELSE run.missed \cup {<<run.ep, x.id>>}
  BY <1>13, <1>16
<1> QED
  <2> WITNESS x \in run.items
  <2> WITNESS m \in A!Keys
  <2> WITNESS stored \in BOOLEAN
  <2> QED  BY <1>14, <1>16, <1>17, <1>18, <1>19, <1>20, <1>21

\* A record is put: it stays stored, and the record that fails is known to be missed.
LEMMA EmitStep == ASSUME A!IInv, NEW embeds \in BOOLEAN, A!EmitItem(embeds) PROVE A!IInv'
<1>1. /\ A!TypeOK /\ A!TimesSound /\ A!PlacesSound /\ A!DocsSound /\ A!ItemsSound /\ A!WalkSound /\ A!CursorCovers
  BY DEF A!IInv
<1>2. UNCHANGED <<cfg, up, clock, state, job, missed>> /\ faults' \in 0..MaxFaults
  <2>1. faults \in 0..MaxFaults /\ MaxFaults \in Nat
    BY <1>1, ConstantTypes DEF A!TypeOK
  <2>2. /\ UNCHANGED <<cfg, up, clock, state, job, missed>> /\ (embeds \/ faults < MaxFaults)
        /\ faults' = IF embeds THEN faults ELSE faults + 1
    BY DEF A!EmitItem
  <2> QED  BY <2>1, <2>2
<1>3. PICK x \in run.items, m \in A!Keys, stored \in BOOLEAN :
        /\ run.pc = "emit" /\ m = IF cfg.ided THEN x.id ELSE run.seq
        /\ \A q \in A!Ends \X A!Keys :
             doc'[q] = IF stored /\ q = <<run.ep, m>>
                       THEN [status |-> "active", of |-> x.id, rev |-> x.rev, seenIn |-> job.id] ELSE doc[q]
        /\ doc' \in [A!Ends \X A!Keys -> A!Doc]
        /\ run' \in A!Walk /\ run'.pc = "emit" /\ run'.ep = run.ep /\ run'.since = run.since
        /\ run'.next = run.next /\ run'.pages = run.pages /\ run'.items = run.items \ {x}
        /\ run'.last = run.last /\ run'.seq = run.seq + 1
        /\ run'.max = run.max \/ run'.max = x.rev
        /\ run'.missed = IF stored THEN run.missed ELSE run.missed \cup {<<run.ep, x.id>>}
        /\ Cardinality(run'.items) = Cardinality(run.items) - 1 /\ Cardinality(run.items) \in Nat
        /\ IsFiniteSet(run'.items)
  BY <1>1, EmittedIs
<1> DEFINE e == run.ep
           new == [status |-> "active", of |-> x.id, rev |-> x.rev, seenIn |-> job.id]
<1>4. /\ e \in A!Ends /\ x.id \in A!Ids /\ x.rev \in Nat /\ run.seq \in Nat /\ job.id \in Nat
      /\ <<e, x.id>> \in A!Records /\ <<e, m>> \in A!Ends \X A!Keys
  <2>1. run.items \in SUBSET [id: A!Ids, rev: Nat] /\ run.seq \in Nat /\ run.ep \in A!Ends
    BY <1>1, TypesAre
  <2>2. job.id \in 0..MaxJobs /\ MaxJobs \in Nat
    BY <1>1, TypesAre, ConstantTypes
  <2>3. x.id \in A!Ids /\ x.rev \in Nat
    BY <2>1
  <2> QED  BY <2>1, <2>2, <2>3 DEF A!Records
<1>5. \A q \in A!Ends \X A!Keys : doc'[q] = IF stored /\ q = <<e, m>> THEN new ELSE doc[q]
  BY <1>3
<1>6. /\ new.status = "active" /\ new.of = x.id /\ new.rev = x.rev /\ new.seenIn = job.id
  OBVIOUS
<1>7. /\ up[<<e, x.id>>] \in {0, x.rev} \/ up[<<e, x.id>>] > state.cursor[e]
      /\ <<e, x.id>> \notin run.missed => up[<<e, x.id>>] \in {0, x.rev}
      /\ <<e, x.id>> \notin job.absent
  BY <1>1 DEF A!ItemsSound
<1>8. A!TypeOK'
  BY <1>1, <1>2, <1>3 DEF A!TypeOK
<1>9. A!TimesSound'
  BY <1>1, <1>2, <1>3 DEF A!TimesSound
<1>10. A!PlacesSound'
  <2>1. run'.pages # 0
    BY <1>1, <1>3 DEF A!PlacesSound
  <2> QED  BY <1>1, <1>2, <1>3, <2>1 DEF A!PlacesSound, A!Since
<1>11. A!ItemsSound'
  <2>1. run'.seq + Cardinality(run'.items) <= run'.next /\ run'.seq + Cardinality(run'.items) <= NRecords
    <3>1. run.seq + Cardinality(run.items) <= run.next /\ run.seq + Cardinality(run.items) <= NRecords
      BY <1>1, SameCardinality DEF A!ItemsSound
    <3>2. run'.seq + Cardinality(run'.items) = run.seq + Cardinality(run.items)
      BY <1>3, <1>4
    <3> QED  BY <1>3, <3>1, <3>2
  <2>2. A!IsFiniteSet(run'.items)
    BY <1>3 DEF A!IsFiniteSet, IsFiniteSet
  <2>3. \A y \in run'.items : y \in run.items
    BY <1>3
  <2>4. run.missed \in SUBSET run'.missed
    BY <1>3
  <2> QED  BY <1>1, <1>2, <1>3, <2>1, <2>2, <2>3, <2>4, SameCardinality DEF A!ItemsSound
<1>12. A!DocsSound'
  <2>1. \A r \in job.absent : ~A!Exists(r)'
    BY <1>1, <1>2 DEF A!DocsSound, A!Exists
  <2>2. \A q \in A!Ends \X A!Keys :
       /\ doc'[q].seenIn <= job.id
       /\ doc'[q].status = "active" =>
            /\ cfg.ided => doc'[q].of = q[2]
            /\ doc'[q].seenIn = job.id => <<q[1], doc'[q].of>> \notin job.absent
    <3> TAKE q \in A!Ends \X A!Keys
    <3>1. CASE doc'[q] = doc[q]
      BY <1>1, <3>1 DEF A!DocsSound
    <3>2. CASE doc'[q] = new /\ q = <<e, m>>
      <4>1. q[1] = e /\ q[2] = m
        BY <3>2
      <4>2. cfg.ided => x.id = m
        BY <1>3
      <4> HIDE DEF new, e
      <4> QED  BY <1>4, <1>6, <1>7, <3>2, <4>1, <4>2
    <3> QED  BY <1>5, <3>1, <3>2
  <2> QED  BY <1>2, <2>1, <2>2 DEF A!DocsSound
<1>13. A!CursorCovers'
  <2> SUFFICES ASSUME cfg.ided, A!HonoursSize, NEW r \in A!Records \ missed, A!Exists(r),
                      up[r] <= state.cursor[r[1]]
               PROVE  A!Holds(doc', r)
    BY <1>2 DEF A!CursorCovers, A!HonoursSize, A!Limit, A!Exists, A!Holds
  <2>1. PICK k \in A!Keys : /\ doc[<<r[1], k>>].status = "active"
                            /\ doc[<<r[1], k>>].of = r[2] /\ doc[<<r[1], k>>].rev = up[r]
    BY <1>1 DEF A!CursorCovers, A!Holds
  <2>2. <<r[1], k>> \in A!Ends \X A!Keys /\ r = <<r[1], r[2]>>
    BY RecordsAre
  <2>3. CASE doc'[<<r[1], k>>] = doc[<<r[1], k>>]
    BY <2>1, <2>3 DEF A!Holds
  <2>4. CASE doc'[<<r[1], k>>] = new /\ <<r[1], k>> = <<e, m>>
    <3>1. r[1] = e /\ k = m
      BY <2>4
    <3>2. k = r[2]
      <4>1. doc[<<r[1], k>>].of = <<r[1], k>>[2]
        BY <1>1, <2>1, <2>2 DEF A!DocsSound
      <4> QED  BY <2>1, <4>1
    <3>3. r[2] = x.id
      BY <1>3, <3>1, <3>2
    <3>4. up[r] = x.rev
      <4>1. r = <<e, x.id>> /\ up[r] \in Nat /\ state.cursor[e] \in Nat
        BY <1>1, <1>4, <2>2, <3>1, <3>3, TypesAre
      <4>2. up[r] # 0
        BY <4>1 DEF A!Exists
      <4> QED  BY <1>7, <3>1, <4>1, <4>2
    <3> HIDE DEF new
    <3> QED  BY <1>6, <2>4, <3>3, <3>4 DEF A!Holds
  <2> QED  BY <1>5, <2>2, <2>3, <2>4
<1>14. A!WalkSound'
  <2> SUFFICES ASSUME A!HonoursSize, NEW r \in A!Records \ run'.missed, A!Exists(r)
               PROVE  /\ r[1] < e /\ job.full => A!Stored(r)'
                      /\ r[1] = e /\ up[r] >= run.since => (A!Stored(r) \/ A!InHand(r) \/ A!ToCome(r))'
    BY <1>2, <1>3 DEF A!WalkSound, A!HonoursSize, A!Limit, A!Exists
  <2>1. r \in A!Records \ run.missed
    BY <1>3
  <2>2. /\ r[1] < e /\ job.full => A!Stored(r)
        /\ r[1] = e /\ up[r] >= run.since => A!Stored(r) \/ A!InHand(r) \/ A!ToCome(r)
    BY <1>1, <1>3, <2>1 DEF A!WalkSound
  <2>3. r = <<r[1], r[2]>> /\ r[1] \in A!Ends /\ r[2] \in A!Ids
    BY RecordsAre
  <2>4. r = <<e, x.id>> => up[r] = x.rev
    <3> SUFFICES ASSUME r = <<e, x.id>> PROVE up[r] = x.rev
      OBVIOUS
    <3>1. up[r] # 0
      BY <1>1, TypesAre DEF A!Exists
    <3> QED  BY <1>7, <2>1, <3>1
  <2>5. ASSUME A!Stored(r) PROVE A!Stored(r)'
    <3>1. PICK k \in A!Keys :
            /\ doc[<<r[1], k>>] = [status |-> "active", of |-> r[2], rev |-> up[r], seenIn |-> job.id]
            /\ IF cfg.ided THEN k = r[2] ELSE r[1] = run.ep => k < run.seq
      BY <2>5 DEF A!Stored
    <3>2. <<r[1], k>> \in A!Ends \X A!Keys /\ k \in Nat
      BY <2>3, ConstantTypes
    <3>3. IF cfg.ided THEN k = r[2] ELSE r[1] = run.ep => k < run.seq + 1
      BY <1>4, <3>1, <3>2
    <3>4. doc'[<<r[1], k>>] = [status |-> "active", of |-> r[2], rev |-> up[r], seenIn |-> job.id]
      <4>1. CASE doc'[<<r[1], k>>] = doc[<<r[1], k>>]
        BY <3>1, <4>1
      <4>2. CASE doc'[<<r[1], k>>] = new /\ <<r[1], k>> = <<e, m>>
        <5>1. r[1] = e /\ k = m
          BY <4>2
        <5>2. cfg.ided
          BY <1>3, <1>4, <3>1, <5>1
        <5>3. r[2] = x.id
          BY <1>3, <3>1, <5>1, <5>2
        <5>4. up[r] = x.rev
          BY <2>3, <2>4, <5>1, <5>3
        <5> QED  BY <4>2, <5>3, <5>4
      <4> QED  BY <1>5, <3>2, <4>1, <4>2
    <3> QED  BY <1>2, <1>3, <3>3, <3>4 DEF A!Stored
  <2>6. ASSUME A!InHand(r), r[1] = e PROVE (A!Stored(r) \/ A!InHand(r))'
    <3>1. PICK y \in run.items : y.id = r[2]
      BY <2>6 DEF A!InHand
    <3>2. CASE y # x
      <4>1. y \in run'.items
        BY <1>3, <3>2
      <4> QED  BY <1>3, <3>1, <4>1 DEF A!InHand
    <3>3. CASE y = x
      <4>1. r = <<e, x.id>> /\ r[2] = x.id /\ up[r] = x.rev
        BY <2>3, <2>4, <2>6, <3>1, <3>3
      <4>2. stored
        BY <1>3, <4>1
      <4>3. doc'[<<r[1], m>>] = [status |-> "active", of |-> r[2], rev |-> up[r], seenIn |-> job.id]
        <5>1. doc'[<<e, m>>] = new
          BY <1>4, <1>5, <4>2
        <5> QED  BY <2>6, <4>1, <5>1
      <4>4. IF cfg.ided THEN m = r[2] ELSE r[1] = run.ep => m < run.seq + 1
        BY <1>3, <1>4, <4>1
      <4> QED  BY <1>2, <1>3, <4>3, <4>4 DEF A!Stored
    <3> QED  BY <3>2, <3>3
  <2>7. ASSUME A!ToCome(r), r[1] = e PROVE A!ToCome(r)'
    <3>1. A!Ahead(r[2])'
      BY <1>1, <1>2, <1>3, <1>8, <2>3, <2>7, AheadSame DEF A!ToCome
    <3> QED  BY <1>3, <2>7, <3>1 DEF A!ToCome
  <2> QED  BY <2>2, <2>5, <2>6, <2>7
<1> QED  BY <1>8, <1>9, <1>10, <1>11, <1>12, <1>13, <1>14 DEF A!IInv

\* The invariant holds of a source that was never synced.
LEMMA InitSound == A!Init => A!IInv
<1> SUFFICES ASSUME A!Init PROVE A!IInv
  OBVIOUS
<1>1. /\ cfg \in Configs /\ clock = 1 /\ doc = [k \in A!Ends \X A!Keys |-> A!NoDoc]
      /\ state = [cursor |-> [e \in A!Ends |-> 0], lastFull |-> 0]
      /\ job = [id |-> 0, active |-> FALSE, full |-> FALSE, attempts |-> 0, absent |-> {}]
      /\ run = A!Idle /\ missed = {} /\ faults = 0
  BY DEF A!Init
<1>2. up \in [A!Records -> Nat] /\ \A r \in A!Records : up[r] <= clock
  <2>1. PICK s \in Starts : up = [r \in A!Records |-> IF r \in s THEN 1 ELSE 0]
    BY DEF A!Init
  <2>2. \A r \in A!Records : up[r] \in {0, 1}
    BY <2>1
  <2> QED  BY <1>1, <2>1, <2>2
<1>3. run \in A!Walk /\ run.pc = "idle"
  BY <1>1, IdleIs
<1>4. A!TypeOK
  <2>1. A!NoDoc \in A!Doc
    BY DEF A!NoDoc, A!Doc
  <2>2. MaxJobs \in Nat /\ JobAttempts \in Nat /\ MaxFaults \in Nat
    BY ConstantTypes
  <2>3. job \in A!Job
    BY <1>1, <2>2 DEF A!Job
  <2>4. state \in [cursor: [A!Ends -> Nat], lastFull: 0..MaxJobs]
    BY <1>1, <2>2
  <2>5. doc \in [A!Ends \X A!Keys -> A!Doc]
    BY <1>1, <2>1
  <2> QED  BY <1>1, <1>2, <1>3, <2>2, <2>3, <2>4, <2>5 DEF A!TypeOK
<1>5. \A k \in A!Ends \X A!Keys : doc[k].seenIn = 0 /\ doc[k].status = "absent"
  BY <1>1 DEF A!NoDoc
<1>6. A!TimesSound
  BY <1>1, <1>2, IdleIs DEF A!TimesSound
<1>7. A!PlacesSound
  BY <1>1, IdleIs DEF A!PlacesSound
<1>8. A!ItemsSound
  BY <1>1, IdleIs, EmptyPage, ConstantTypes DEF A!ItemsSound
<1>9. A!DocsSound
  BY <1>1, <1>5 DEF A!DocsSound
<1>10. A!WalkSound
  BY <1>3 DEF A!WalkSound
<1>11. A!CursorCovers
  <2> SUFFICES ASSUME NEW r \in A!Records, A!Exists(r), up[r] <= state.cursor[r[1]] PROVE FALSE
    BY DEF A!CursorCovers
  <2>1. up[r] \in Nat /\ state.cursor[r[1]] = 0
    BY <1>1, <1>2, RecordsAre
  <2> QED  BY <2>1 DEF A!Exists
<1> QED  BY <1>4, <1>6, <1>7, <1>8, <1>9, <1>10, <1>11 DEF A!IInv

\* Every step preserves it.
LEMMA NextSound == A!IInv /\ [A!Next]_(A!vars) => A!IInv'
<1> SUFFICES ASSUME A!IInv, [A!Next]_(A!vars) PROVE A!IInv'
  OBVIOUS
<1>1. CASE \E r \in Changing : A!RecordChanged(r) \/ A!RecordRemoved(r)
  BY <1>1, ChangedStep, RemovedStep
<1>2. CASE \E b \in BOOLEAN : A!EnqueueSync(b) \/ A!FetchPage(b) \/ A!EmitItem(b)
  BY <1>2, EnqueueStep, FetchStep, EmitStep
<1>3. CASE A!StartAttempt \/ A!RateLimited \/ A!PageDone \/ A!PersistCursor \/ A!MarkFull
  BY <1>3, StartStep, RateLimitedStep, PageDoneStep, PersistStep, MarkFullStep
<1>4. CASE A!Complete \/ A!Return \/ A!Abort
  BY <1>4, CompleteStep, ReturnStep, AbortStep
<1>5. CASE UNCHANGED A!vars
  <2>1. UNCHANGED <<cfg, up, clock, doc, state, job, run, missed, faults>>
    BY <1>5 DEF A!vars
  <2>2. A!WalkSound'
    <3>1. A!WalkSound
      BY DEF A!IInv
    <3>2. A!TypeOK /\ A!TypeOK'
      BY <2>1 DEF A!IInv, A!TypeOK
    <3> SUFFICES ASSUME A!HonoursSize, run.pc # "idle", NEW r \in A!Records \ run.missed, A!Exists(r)
                 PROVE  /\ r[1] < run.ep /\ job.full => A!Stored(r)'
                        /\ r[1] = run.ep /\ up[r] >= run.since => (A!Stored(r) \/ A!InHand(r) \/ A!ToCome(r))'
      BY <2>1 DEF A!WalkSound, A!HonoursSize, A!Limit, A!Exists
    <3>3. /\ r[1] < run.ep /\ job.full => A!Stored(r)
          /\ r[1] = run.ep /\ up[r] >= run.since => A!Stored(r) \/ A!InHand(r) \/ A!ToCome(r)
      BY <3>1 DEF A!WalkSound
    <3>4. A!Stored(r) => A!Stored(r)'
      BY <2>1 DEF A!Stored
    <3>5. A!InHand(r) => A!InHand(r)'
      BY <2>1 DEF A!InHand
    <3>6. A!ToCome(r) => A!ToCome(r)'
      <4> SUFFICES ASSUME A!ToCome(r) PROVE A!ToCome(r)'
        OBVIOUS
      <4>1. A!Ahead(r[2])'
        BY <2>1, <3>2, RecordsAre, AheadSame DEF A!ToCome
      <4> QED  BY <2>1, <4>1 DEF A!ToCome
    <3> QED  BY <3>3, <3>4, <3>5, <3>6
  <2> QED  BY <2>1, <2>2 DEF A!IInv, A!TypeOK, A!TimesSound, A!PlacesSound, A!Since, A!ItemsSound, A!DocsSound,
              A!Exists, A!CursorCovers, A!HonoursSize, A!Limit, A!Holds
<1> QED  BY <1>1, <1>2, <1>3, <1>4, <1>5 DEF A!Next

\* The invariant of the walks, of every run.
LEMMA ApiInvariance == A!Spec => []A!IInv
<1> QED  BY InitSound, NextSound, PTL DEF A!Spec

\* The shape of an API source's state, of every run.
THEOREM ApiTypeCorrect == A!Spec => []A!TypeOK
<1>1. A!IInv => A!TypeOK
  BY DEF A!IInv
<1> QED  BY <1>1, ApiInvariance, PTL

\* The promises of SourceIndex are those of the specification's instance.
LEMMA PromisesAre ==
  /\ Records = A!Records /\ Keys = A!Keys /\ (HonoursSize <=> A!HonoursSize)
  /\ \A r : Exists(r) <=> A!Exists(r)
  /\ \A r : Holds(doc, r) <=> A!Holds(doc, r)
  /\ \A r : Holds(doc, r)' <=> A!Holds(doc, r)'
BY DEF Records, Keys, Ends, Ids, HonoursSize, Limit, Exists, Holds,
       A!Records, A!Keys, A!Ends, A!Ids, A!HonoursSize, A!Limit, A!Exists, A!Holds

\* The stored cursor never passes a record that is not indexed: an incremental run leaves out
\* nothing that the index does not have (api.go:382-389).
THEOREM CursorCoversAlways == A!Spec => []CursorCovers
<1>1. A!IInv => CursorCovers
  BY PromisesAre DEF A!IInv, A!CursorCovers, CursorCovers
<1> QED  BY <1>1, ApiInvariance, PTL

\* What Complete does to a full run's index.
LEMMA SweepMirrors ==
  ASSUME A!IInv, A!Complete, job.full, HonoursSize
  PROVE  /\ \A r \in Records \ run.missed : Exists(r) => Holds(doc', r)
         /\ run.saw => \A r \in job.absent, k \in Keys :
              ~(doc'[<<r[1], k>>].status = "active" /\ doc'[<<r[1], k>>].of = r[2])
<1>1. A!TypeOK /\ A!DocsSound /\ run.pc = "complete"
  BY DEF A!IInv, A!Complete
<1>2. UNCHANGED <<cfg, up, job>>
  BY DEF A!Complete
<1>3. ASSUME NEW r \in Records \ run.missed, Exists(r) PROVE Holds(doc', r)
  <2>1. r \in A!Records \ run.missed /\ A!Exists(r) /\ A!HonoursSize
    BY <1>3, PromisesAre
  <2>2. A!Holds(doc', r)
    BY <1>1, <2>1, AllStored, SweptStored
  <2> QED  BY <2>2, PromisesAre DEF Holds, A!Holds
<1>4. ASSUME run.saw, NEW r \in job.absent, NEW k \in Keys,
             doc'[<<r[1], k>>].status = "active", doc'[<<r[1], k>>].of = r[2]
      PROVE  FALSE
  <2> DEFINE q == <<r[1], k>>
  <2>1. r \in A!Records /\ q \in A!Ends \X A!Keys
    BY <1>1, <1>4, TypesAre, RecordsAre, PromisesAre
  <2>2. q[1] = r[1] /\ r = <<r[1], r[2]>>
    BY <2>1, RecordsAre
  <2> HIDE DEF q
  <2>3. doc'[q] = doc[q] /\ doc[q].status = "active" /\ doc[q].of = r[2] /\ ~ (doc[q].seenIn < job.id)
    <3>1. doc'[q].status = "active" /\ doc'[q].of = r[2]
      BY <1>4 DEF q
    <3> QED  BY <1>1, <1>4, <2>1, <3>1, SweptDocs
  <2>4. doc[q].seenIn = job.id
    <3>1. job.id \in 0..MaxJobs /\ MaxJobs \in Nat
      BY <1>1, TypesAre, ConstantTypes
    <3>2. doc[q].seenIn \in Nat /\ doc[q].seenIn <= job.id
      <4>1. doc[q] \in A!Doc
        BY <1>1, <2>1, TypesAre
      <4> QED  BY <1>1, <2>1, <4>1 DEF A!DocsSound, A!Doc
    <3> QED  BY <2>3, <3>1, <3>2
  <2>5. <<q[1], doc[q].of>> \notin job.absent
    BY <1>1, <2>1, <2>3, <2>4 DEF A!DocsSound
  <2> QED  BY <1>4, <2>2, <2>3, <2>5
<1> QED  BY <1>3, <1>4

\* Only Complete takes a run from its delete pass to its end.
LEMMA OnlyComplete ==
  ASSUME A!TypeOK, A!Next, run.pc = "complete", run'.pc = "return" PROVE A!Complete
<1>1. run \in A!Walk /\ A!Idle.pc = "idle"
  BY IdleIs DEF A!TypeOK
<1>2. ASSUME NEW r \in Changing, A!RecordChanged(r) \/ A!RecordRemoved(r) PROVE FALSE
  BY <1>1, <1>2 DEF A!RecordChanged, A!RecordRemoved, A!Walk
<1>3. ASSUME NEW b \in BOOLEAN, A!EnqueueSync(b) \/ A!FetchPage(b) \/ A!EmitItem(b) PROVE FALSE
  BY <1>3 DEF A!EnqueueSync, A!FetchPage, A!EmitItem
<1>4. ~ (A!StartAttempt \/ A!RateLimited \/ A!PageDone \/ A!PersistCursor \/ A!MarkFull \/ A!Return)
  BY DEF A!StartAttempt, A!RateLimited, A!PageDone, A!PersistCursor, A!MarkFull, A!Return
<1>5. ~A!Abort
  BY <1>1 DEF A!Abort, A!Fails
<1> QED  BY <1>2, <1>3, <1>4, <1>5 DEF A!Next

\* When a full run completes, after any number of attempts and whatever earlier runs left, the
\* index mirrors the API (api.go:304-409, sink.go Complete).
THEOREM FullSyncMirrorsAlways == A!Spec => FullSyncMirrors
<1> DEFINE Completes == run.pc = "complete" /\ run'.pc = "return" /\ job.full /\ HonoursSize
           Mirrors == /\ \A r \in Records \ run.missed : Exists(r) => Holds(doc', r)
                      /\ run.saw => \A r \in job.absent, k \in Keys :
                           ~(doc'[<<r[1], k>>].status = "active" /\ doc'[<<r[1], k>>].of = r[2])
<1>1. A!IInv /\ [A!Next]_(A!vars) => [Completes => Mirrors]_run
  <2> SUFFICES ASSUME A!IInv, [A!Next]_(A!vars), Completes, run' # run PROVE Mirrors
    OBVIOUS
  <2>1. A!TypeOK
    BY DEF A!IInv
  <2>2. A!Next
    BY DEF A!vars
  <2>3. A!Complete
    BY <2>1, <2>2, OnlyComplete
  <2> QED  BY <2>3, SweepMirrors
<1> HIDE DEF Completes, Mirrors
<1>2. A!Spec => [][Completes => Mirrors]_run
  BY <1>1, ApiInvariance, PTL DEF A!Spec
<1> QED  BY <1>2 DEF FullSyncMirrors, Completes, Mirrors

-----------------------------------------------------------------------------
(* What the API connector and the sink promise each other.                   *)

LEMMA PlacesAre ==
  /\ Ends \X Keys = A!Ends \X A!Keys
  /\ A!TypeOK => /\ Phase \in {"idle", "enumerating", "enumerated", "completed"}
                 /\ Phase = "idle" <=> run.pc = "idle"
BY TypesAre DEF Phase, Ends, Keys, A!Ends, A!Keys

\* A step that writes no document and leaves the job and the phase alone.
LEMMA SameWalk ==
  ASSUME doc' = doc, job'.id = job.id, job'.full = job.full, Phase' = Phase
  PROVE  UNCHANGED Contract!vars
BY DEF Contract!vars, Live, Seen

\* What a step of the walk but Put and Complete does: the phase moves on in the order of the
\* contract, or the attempt ends.
LEMMA WalkKeepsContract ==
  ASSUME UNCHANGED <<doc>>, job'.id = job.id, job'.full = job.full,
         \/ Phase' = Phase
         \/ Phase = "idle" /\ Phase' = "enumerating"
         \/ Phase = "enumerating" /\ Phase' = "enumerated"
         \/ Phase # "idle" /\ Phase' = "idle"
  PROVE  Contract!Next \/ UNCHANGED Contract!vars
<1>1. Live' = Live /\ Seen' = Seen
  BY DEF Live, Seen
<1> QED  BY <1>1, SameWalk DEF Contract!Next, Contract!Begin, Contract!Enumerated, Contract!End

LEMMA AttemptKeepsContract ==
  ASSUME A!IInv,
         \/ \E r \in Changing : A!RecordChanged(r) \/ A!RecordRemoved(r)
         \/ \E b \in BOOLEAN : A!FetchPage(b)
         \/ A!StartAttempt \/ A!RateLimited \/ A!PageDone \/ A!PersistCursor \/ A!MarkFull
         \/ A!Return \/ A!Abort
  PROVE  Contract!Next \/ UNCHANGED Contract!vars
<1>1. run \in A!Walk /\ job \in A!Job /\ A!Idle \in A!Walk /\ A!Idle.pc = "idle"
  BY IdleIs DEF A!IInv, A!TypeOK
<1>2. CASE \E r \in Changing : A!RecordChanged(r) \/ A!RecordRemoved(r)
  <2>1. doc' = doc /\ job'.id = job.id /\ job'.full = job.full /\ run'.pc = run.pc
    BY <1>1, <1>2 DEF A!RecordChanged, A!RecordRemoved, A!Walk, A!Job
  <2>2. Phase' = Phase
    BY <2>1 DEF Phase
  <2> QED  BY <2>1, <2>2, WalkKeepsContract
<1>3. CASE \E b \in BOOLEAN : A!FetchPage(b)
  <2>1. doc' = doc /\ job' = job /\ run.pc = "fetch" /\ run'.pc = "emit"
    BY <1>1, <1>3 DEF A!FetchPage, A!Walk
  <2>2. Phase' = Phase
    BY <2>1 DEF Phase
  <2> QED  BY <2>1, <2>2, WalkKeepsContract
<1>4. CASE A!StartAttempt
  <2>1. /\ doc' = doc /\ job'.id = job.id /\ job'.full = job.full /\ run.pc = "idle"
        /\ run' = run \/ run'.pc = "fetch"
    BY <1>1, <1>4 DEF A!StartAttempt, A!Walk, A!Job
  <2>2. Phase' = Phase \/ (Phase = "idle" /\ Phase' = "enumerating")
    BY <2>1 DEF Phase
  <2> QED  BY <2>1, <2>2, WalkKeepsContract
<1>5. CASE A!RateLimited \/ A!Return \/ A!Abort
  <2>1. /\ doc' = doc /\ job'.id = job.id /\ job'.full = job.full
        /\ run'.pc = run.pc \/ (run.pc # "idle" /\ run'.pc = "idle")
    BY <1>1, <1>5 DEF A!RateLimited, A!Return, A!Abort, A!Fails, A!Walk, A!Job
  <2>2. Phase' = Phase \/ (Phase # "idle" /\ Phase' = "idle")
    BY <1>1, <2>1 DEF Phase, A!Walk
  <2> QED  BY <2>1, <2>2, WalkKeepsContract
<1>6. CASE A!PageDone \/ A!PersistCursor \/ A!MarkFull
  <2>1. doc' = doc /\ job' = job
    BY <1>6 DEF A!PageDone, A!PersistCursor, A!MarkFull
  <2>2. \/ run.pc = "emit" /\ run'.pc \in {"persist", "fetch"}
        \/ run.pc = "persist" /\ run'.pc \in {"fetch", "mark"}
        \/ run.pc = "mark" /\ run'.pc = "complete"
    BY <1>1, <1>6 DEF A!PageDone, A!PersistCursor, A!MarkFull, A!Walk
  <2>3. Phase' = Phase \/ (Phase = "enumerating" /\ Phase' = "enumerated")
    BY <2>2 DEF Phase
  <2> QED  BY <2>1, <2>3, WalkKeepsContract
<1> QED  BY <1>2, <1>3, <1>4, <1>5, <1>6

\* A document that is put is active, and one that the job has seen.
LEMMA EmitKeepsContract ==
  ASSUME A!IInv, NEW embeds \in BOOLEAN, A!EmitItem(embeds)
  PROVE  Contract!Next \/ UNCHANGED Contract!vars
<1>1. A!TypeOK /\ A!ItemsSound
  BY DEF A!IInv
<1>2. job' = job
  BY DEF A!EmitItem
<1>3. PICK x \in run.items, m \in A!Keys, stored \in BOOLEAN :
        /\ run.pc = "emit" /\ m = IF cfg.ided THEN x.id ELSE run.seq
        /\ \A q \in A!Ends \X A!Keys :
             doc'[q] = IF stored /\ q = <<run.ep, m>>
                       THEN [status |-> "active", of |-> x.id, rev |-> x.rev, seenIn |-> job.id] ELSE doc[q]
        /\ doc' \in [A!Ends \X A!Keys -> A!Doc]
        /\ run' \in A!Walk /\ run'.pc = "emit" /\ run'.ep = run.ep /\ run'.since = run.since
        /\ run'.next = run.next /\ run'.pages = run.pages /\ run'.items = run.items \ {x}
        /\ run'.last = run.last /\ run'.seq = run.seq + 1
        /\ run'.max = run.max \/ run'.max = x.rev
        /\ run'.missed = IF stored THEN run.missed ELSE run.missed \cup {<<run.ep, x.id>>}
        /\ Cardinality(run'.items) = Cardinality(run.items) - 1 /\ Cardinality(run.items) \in Nat
        /\ IsFiniteSet(run'.items)
  BY <1>1, EmittedIs
<1> DEFINE k == <<run.ep, m>>
<1>4. k \in Ends \X Keys
  BY <1>1, TypesAre, PlacesAre
<1>5. Phase = "enumerating" /\ Phase' = Phase
  BY <1>3 DEF Phase
<1> HIDE DEF k
<1>6. \A q \in Ends \X Keys : /\ stored /\ q = k => doc'[q].status = "active" /\ doc'[q].seenIn = job.id
                              /\ ~(stored /\ q = k) => doc'[q] = doc[q]
  BY <1>3, PlacesAre DEF k
<1>7. CASE stored
  <2>1. Live' = Live \cup {k}
    BY <1>4, <1>6, <1>7 DEF Live
  <2>2. Seen' = Seen \cup {k}
    BY <1>2, <1>4, <1>6, <1>7 DEF Live, Seen
  <2>3. Contract!Put(k)
    BY <1>2, <1>5, <2>1, <2>2 DEF Contract!Put
  <2> QED  BY <1>4, <2>3 DEF Contract!Next
<1>8. CASE ~stored
  <2>1. Live' = Live
    BY <1>6, <1>8 DEF Live
  <2>2. Seen' = Seen
    BY <1>2, <1>6, <1>8 DEF Live, Seen
  <2> QED  BY <1>2, <1>5, <2>1, <2>2 DEF Contract!vars
<1> QED  BY <1>7, <1>8

\* The delete pass leaves the documents as they are, or those alone that the job has seen.
LEMMA CompleteKeepsContract ==
  ASSUME A!IInv, A!Complete
  PROVE  Contract!Complete
<1>1. A!TypeOK /\ run \in A!Walk /\ job' = job /\ job.id \in Nat
  <2>1. A!TypeOK /\ run \in A!Walk /\ job' = job
    BY DEF A!IInv, A!TypeOK, A!Complete
  <2> QED  BY <2>1, TypesAre, ConstantTypes
<1>2. Phase = "enumerated" /\ Phase' = "completed"
  <2>1. run.pc = "complete" /\ run'.pc = "return"
    BY <1>1 DEF A!Complete, A!Walk
  <2> QED  BY <2>1 DEF Phase
<1>3. \A q \in Ends \X Keys : doc[q].seenIn \in Nat /\ doc[q].seenIn <= job.id
  <2>1. \A q \in A!Ends \X A!Keys : doc[q] \in A!Doc
    BY <1>1, TypesAre
  <2> QED  BY <2>1, PlacesAre DEF A!IInv, A!DocsSound, A!Doc
<1>4. \A q \in Ends \X Keys :
        LET gone == job.full /\ run.saw /\ doc[q].status = "active" /\ doc[q].seenIn < job.id
        IN  \/ ~gone /\ doc'[q] = doc[q]
            \/ gone /\ doc'[q].status # "active"
  BY <1>1, SweptDocs, PlacesAre
<1>5. CASE ~(job.full /\ run.saw)
  <2>1. \A q \in Ends \X Keys : doc'[q] = doc[q]
    BY <1>4, <1>5
  <2>2. Live' = Live /\ Seen' = Seen
    BY <1>1, <2>1 DEF Live, Seen
  <2> QED  BY <1>1, <1>2, <2>2 DEF Contract!Complete
<1>6. CASE job.full /\ run.saw
  <2>1. \A q \in Ends \X Keys :
          /\ doc[q].status = "active" /\ doc[q].seenIn = job.id => doc'[q] = doc[q]
          /\ doc'[q].status = "active" => doc'[q] = doc[q] /\ doc[q].seenIn = job.id
    <3> SUFFICES ASSUME NEW q \in Ends \X Keys
                 PROVE  /\ doc[q].status = "active" /\ doc[q].seenIn = job.id => doc'[q] = doc[q]
                        /\ doc'[q].status = "active" => doc'[q] = doc[q] /\ doc[q].seenIn = job.id
      OBVIOUS
    <3>1. doc[q].seenIn = job.id <=> ~(doc[q].seenIn < job.id)
      BY <1>1, <1>3
    <3> QED  BY <1>4, <1>6, <3>1
  <2>2. Live' = Seen
    BY <2>1 DEF Live, Seen
  <2>3. Seen' = Seen
    BY <1>1, <2>1 DEF Live, Seen
  <2> QED  BY <1>1, <1>2, <1>6, <2>2, <2>3 DEF Contract!Complete
<1> QED  BY <1>5, <1>6

\* A new job has seen nothing yet.
LEMMA EnqueueKeepsContract ==
  ASSUME A!IInv, NEW full \in BOOLEAN, A!EnqueueSync(full)
  PROVE  Contract!NewJob
<1>1. doc' = doc /\ run' = run /\ job'.id = job.id + 1 /\ job'.full = full /\ run.pc = "idle"
  <2>1. A!TypeOK /\ A!PlacesSound
    BY DEF A!IInv
  <2> QED  BY <2>1, TypesAre DEF A!EnqueueSync, A!PlacesSound
<1>2. job.id \in Nat /\ \A q \in Ends \X Keys : doc[q].seenIn \in Nat /\ doc[q].seenIn <= job.id
  <2>1. A!TypeOK /\ A!DocsSound
    BY DEF A!IInv
  <2>2. job.id \in Nat
    BY <2>1, TypesAre, ConstantTypes
  <2>3. \A q \in A!Ends \X A!Keys : doc[q] \in A!Doc
    BY <2>1, TypesAre
  <2> QED  BY <2>1, <2>2, <2>3, PlacesAre DEF A!DocsSound, A!Doc
<1>3. Seen' = {}
  <2>1. \A q \in Ends \X Keys : doc[q].seenIn # job.id + 1
    BY <1>2
  <2> QED  BY <1>1, <2>1 DEF Seen, Live
<1>4. Phase = "idle" /\ Phase' = Phase /\ Live' = Live
  BY <1>1 DEF Phase, Live
<1> QED  BY <1>1, <1>3, <1>4 DEF Contract!NewJob

\* Every step keeps it: documents are put before the walk is done with the last endpoint, and
\* deleted after that, by a full run alone and none that an attempt of its job has put (api.go
\* Sync, sink.go Complete).
THEOREM ImplementsSyncContract == A!Spec => ContractSpec
<1>1. A!Init => Contract!Init
  <2> SUFFICES ASSUME A!Init PROVE Contract!Init
    OBVIOUS
  <2>1. run.pc = "idle" /\ job.full = FALSE
    BY IdleIs DEF A!Init
  <2>2. \A q \in Ends \X Keys : doc[q].status = "absent"
    BY PlacesAre DEF A!Init, A!NoDoc
  <2> QED  BY <2>1, <2>2 DEF Contract!Init, Phase, Live, Seen
<1>2. A!IInv /\ [A!Next]_(A!vars) => [Contract!Next]_<<Phase, job.full, Live, Seen>>
  <2> SUFFICES ASSUME A!IInv, [A!Next]_(A!vars)
               PROVE  Contract!Next \/ UNCHANGED Contract!vars
    BY DEF Contract!vars
  <2>1. CASE \E b \in BOOLEAN : A!EnqueueSync(b)
    BY <2>1, EnqueueKeepsContract DEF Contract!Next
  <2>2. CASE \E b \in BOOLEAN : A!EmitItem(b)
    BY <2>2, EmitKeepsContract
  <2>3. CASE A!Complete
    BY <2>3, CompleteKeepsContract DEF Contract!Next
  <2>4. CASE UNCHANGED A!vars
    <3>1. doc' = doc /\ job' = job /\ run' = run
      BY <2>4 DEF A!vars
    <3> QED  BY <3>1, SameWalk DEF Phase
  <2> QED  BY <2>1, <2>2, <2>3, <2>4, AttemptKeepsContract DEF A!Next
<1> QED  BY <1>1, <1>2, ApiInvariance, PTL DEF A!Spec, ContractSpec, Contract!Spec, Contract!vars
=============================================================================
