----------------------------- MODULE SyncContract -----------------------------
(***************************************************************************)
(* What a connector and the sink promise each other, and the tenant, of    *)
(* the syncs of a source (internal/connector/connector.go, Sink and        *)
(* SyncRun; internal/ingest/sink, Mode and Complete).  An attempt of a job *)
(* enumerates the source into the sink and, only after the whole of it,    *)
(* completes once.  A document vanishes in no other step, only in a full   *)
(* run, and only when no attempt of the job has put it.                    *)
(***************************************************************************)
CONSTANT ExternalIDs

VARIABLES
  phase,   \* of the running attempt; "idle" when there is none
  full,    \* SyncRun.Full of the current job
  live,    \* external ids whose document is active
  seen     \* of these, the ones put since the job was created

vars == <<phase, full, live, seen>>

Init == phase = "idle" /\ full = FALSE /\ live = {} /\ seen = {}

NewJob == /\ phase = "idle" /\ full' \in BOOLEAN /\ seen' = {}
          /\ UNCHANGED <<phase, live>>

Begin == /\ phase = "idle" /\ phase' = "enumerating"
         /\ UNCHANGED <<full, live, seen>>

Put(x) == /\ phase = "enumerating"
          /\ live' = live \cup {x} /\ seen' = seen \cup {x}
          /\ UNCHANGED <<phase, full>>

Enumerated == /\ phase = "enumerating" /\ phase' = "enumerated"
              /\ UNCHANGED <<full, live, seen>>

\* Sink.Complete: the delete pass, which an incremental run does not make, nor a full one
\* that saw nothing.  The attempt may return in the same step.
Complete == /\ phase = "enumerated" /\ phase' \in {"completed", "idle"}
            /\ live' = live \/ (full /\ live' = seen)
            /\ UNCHANGED <<full, seen>>

\* The attempt returns, fails or dies.
End == /\ phase # "idle" /\ phase' = "idle"
       /\ UNCHANGED <<full, live, seen>>

Next == NewJob \/ Begin \/ (\E x \in ExternalIDs : Put(x)) \/ Enumerated \/ Complete \/ End

Spec == Init /\ [][Next]_vars
=============================================================================
