----------------------------- MODULE MCJobMirror -----------------------------
(* An instance of JobMirror for TLC: two jobs with different faults. *)
EXTENDS JobMirror
CONSTANTS j1, j2

\* Every fault may hit the first job; the second one may crash and be snoozed.
Unlucky == ({j1} \X FaultKinds) \cup ({j2} \X {"crash", "snooze"})
=============================================================================
