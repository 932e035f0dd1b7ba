----------------------------- MODULE SourceIndex -----------------------------
(***************************************************************************)
(* An API source, what is stored of it, and what a sync by the API         *)
(* connector promises: its records, the documents made of them, the cursor *)
(* of each endpoint, the job and its walk.  ApiConnector has the steps.    *)
(***************************************************************************)
EXTENDS Integers, FiniteSets

CONSTANTS
  NEnds,            \* endpoints of the source
  NRecords,         \* ids of an endpoint's collection
  ServerPage,       \* the most records the API puts on a page
  DefaultPageSize,  \* defaultPageSize: the limit of an offset walk without a size
  DefaultMaxPages,  \* defaultMaxPages: the ceiling of every walk
  Configs,          \* the configurations to check, see ConfigOK
  Starts,           \* the records that may exist at first: a set of sets
  Changing,         \* bound: the records that change
  MaxRetries,       \* maxRetries of getJSON
  JobAttempts,      \* attempts of a job
  MaxJobs,          \* bound on the jobs
  MaxChanges,       \* bound on the changes of the collections
  MaxFaults         \* bound on failures of any kind

Ends == 1..NEnds
Ids == 1..NRecords
Records == Ends \X Ids
Keys == 0..NRecords

\* type: the pagination; size, maxPages: 0 when not configured; ided: id_path finds an
\* id; incremental: incremental_param is set; broken: records a template fails on.
ConfigOK(c) ==
  /\ c.type \in {"none", "page", "offset", "cursor", "link-header"}
  /\ c.size \in Nat /\ c.maxPages \in Nat
  /\ c.ided \in BOOLEAN /\ c.incremental \in BOOLEAN /\ c.creds \in BOOLEAN
  /\ c.broken \subseteq Records

ASSUME ApiAssumption ==
  /\ NEnds \in Nat \ {0} /\ NRecords \in Nat \ {0}
  /\ ServerPage \in Nat \ {0} /\ DefaultPageSize \in Nat \ {0} /\ DefaultMaxPages \in Nat \ {0}
  /\ MaxRetries \in Nat /\ JobAttempts \in Nat \ {0}
  /\ MaxJobs \in Nat /\ MaxChanges \in Nat /\ MaxFaults \in Nat
  /\ \A c \in Configs : ConfigOK(c)
  /\ \A s \in Starts : s \subseteq Records
  /\ Changing \subseteq Records

VARIABLES
  cfg,      \* the source's configuration
  up,       \* up[r]: the revision of record r at the API
  clock,    \* the API's clock: the last revision
  doc,      \* documents rows of the source, by endpoint and key
  state,    \* connector_state: the cursor of each endpoint, 0 when there is none, and
            \* the job that wrote api:last_full_sync
  job,      \* the current job; as history, the records absent since it was created
  run,      \* the running attempt; as history, the records it may have missed
  missed,   \* history: the records a finished walk may have missed
  faults

Exists(r) == up[r] > 0

\* The limit an offset walk asks for.
Limit == IF cfg.size = 0 THEN DefaultPageSize ELSE cfg.size

-----------------------------------------------------------------------------
(* Promises.                                                               *)

\* The API gives the pages the walk counts on: one that caps them below the limit the
\* connector asks for ends every walk at its first page.
HonoursSize == CASE cfg.type = "offset" -> Limit <= ServerPage
                 [] cfg.type = "page" -> cfg.size <= ServerPage
                 [] OTHER -> TRUE

Holds(d, r) == \E k \in Keys : /\ d[<<r[1], k>>].status = "active"
                               /\ d[<<r[1], k>>].of = r[2] /\ d[<<r[1], k>>].rev = up[r]

\* When Sync of a full run completes, over any number of attempts and whatever earlier
\* runs left behind, the index mirrors the API (api.go:304-409, sink.go Complete): every
\* record the walk could not have missed is live at its revision, and no record that was
\* absent since the job was created is live.
FullSyncMirrors ==
  [][(run.pc = "complete" /\ run'.pc = "return" /\ job.full /\ HonoursSize) =>
       /\ \A r \in Records \ run.missed : Exists(r) => Holds(doc', r)
       /\ run.saw => \A r \in job.absent, k \in Keys :
            ~(doc'[<<r[1], k>>].status = "active" /\ doc'[<<r[1], k>>].of = r[2])]_run

\* The stored cursor never passes a record that is not indexed (api.go:382-389): what an
\* incremental run will not ask for again is live at its revision, except the records a
\* walk that succeeded may have missed.
CursorCovers ==
  (cfg.ided /\ HonoursSize) =>
    \A r \in Records \ missed :
      (Exists(r) /\ up[r] <= state.cursor[r[1]]) => Holds(doc, r)

-----------------------------------------------------------------------------
(* The walk as the sink knows it.                                          *)

Phase == CASE run.pc = "idle" -> "idle"
           [] run.pc \in {"fetch", "emit", "persist"} -> "enumerating"
           [] run.pc \in {"mark", "complete"} -> "enumerated"
           [] OTHER -> "completed"
Live == {k \in Ends \X Keys : doc[k].status = "active"}
Seen == {k \in Live : doc[k].seenIn = job.id}

Contract == INSTANCE SyncContract
              WITH ExternalIDs <- Ends \X Keys, phase <- Phase, full <- job.full, live <- Live,
                   seen <- Seen

\* The connector keeps its side of the sink's contract, and the sink its own: documents are
\* put before the last page of the last endpoint is done with and deleted after, only by a
\* full run, and none that an attempt of the job has put (api.go Sync; sink.go Complete).
ContractSpec == Contract!Spec
==============================================================================
