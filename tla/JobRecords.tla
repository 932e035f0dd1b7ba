------------------------------ MODULE JobRecords ------------------------------
(***************************************************************************)
(* What the two records of a job promise each other (SPEC-08 section 3,    *)
(* ADR-0060: River is authoritative, the jobs row mirrors it).  They are   *)
(* inserted together.  While River may still run the job the row may say   *)
(* anything, but a cancelled row stays cancelled.  When River is done an   *)
(* open row takes River's outcome, or that of a cancel under way, and then *)
(* neither record ever changes: a settled job is history.                  *)
(***************************************************************************)
CONSTANT Jobs

VARIABLES
  stage,   \* none, live (River may still run the job), or the state River ended it in
  row      \* none, open, or how the jobs row says the job ended

Ends     == {"completed", "discarded", "cancelled"}
Outcomes == {"succeeded", "failed", "cancelled"}

OutcomeOf == [completed |-> "succeeded", discarded |-> "failed", cancelled |-> "cancelled"]

Init == stage = [j \in Jobs |-> "none"] /\ row = [j \in Jobs |-> "none"]

\* The job and its row appear.
Insert(j) == /\ stage[j] = "none" /\ row[j] = "none"
             /\ stage'[j] = "live" /\ row'[j] = "open"

\* An attempt reports how it goes: also a job that was reported finished may go on.
Report(j) == /\ stage[j] = "live" /\ stage'[j] = "live"
             /\ row[j] # "cancelled" /\ row'[j] \in {"open"} \cup Outcomes

\* River is done with the job.
End(j) == /\ stage[j] = "live" /\ stage'[j] \in Ends
          /\ row'[j] = row[j]

\* The row of a job River is done with is closed.
Heal(j) == /\ stage[j] \in Ends /\ stage'[j] = stage[j]
           /\ row[j] = "open" /\ row'[j] \in {OutcomeOf[stage[j]], "cancelled"}

Same(j) == stage'[j] = stage[j] /\ row'[j] = row[j]

\* One statement may be about several jobs.
Next == /\ stage' \in [Jobs -> {"none", "live"} \cup Ends]
        /\ row' \in [Jobs -> {"none", "open"} \cup Outcomes]
        /\ \A j \in Jobs : Insert(j) \/ Report(j) \/ End(j) \/ Heal(j) \/ Same(j)

Spec == Init /\ [][Next]_<<stage, row>>
=============================================================================
