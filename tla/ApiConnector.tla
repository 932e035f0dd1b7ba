----------------------------- MODULE ApiConnector -----------------------------
(***************************************************************************)
(* The API connector (internal/connector/api) run by the attempts of       *)
(* sync_source jobs: the walk over the pages of every endpoint, the        *)
(* mapping of a record to a document, the Retry-After handling, the        *)
(* updated-since cursor kept in connector_state, and the delete pass of a  *)
(* full sync.  The collections change while they are walked.               *)
(*                                                                         *)
(* A record is an endpoint and an id; its revision is the time of its last *)
(* change, 0 when it does not exist, and stands for its content and its    *)
(* updated_at.  One job of a source runs at a time, so last_seen_at        *)
(* against the job's CreatedAt is the number of the job.  Sink.Put is one  *)
(* step: DocumentStore has its stages.                                     *)
(***************************************************************************)
EXTENDS SourceIndex, FiniteSetsExt

vars == <<cfg, up, clock, doc, state, job, run, missed, faults>>

NoDoc == [status |-> "absent", of |-> 0, rev |-> 0, seenIn |-> 0]
Idle == [pc |-> "idle", ep |-> 1, since |-> 0, next |-> 0, pages |-> 0, items |-> {},
         last |-> FALSE, seq |-> 0, max |-> 0, retries |-> 0, saw |-> FALSE, missed |-> {}]

EndpointOf(e) == {r \in Records : r[1] = e}

Init ==
  /\ cfg \in Configs
  /\ \E s \in Starts : up = [r \in Records |-> IF r \in s THEN 1 ELSE 0]
  /\ clock = 1
  /\ doc = [k \in Ends \X Keys |-> NoDoc]
  /\ state = [cursor |-> [e \in Ends |-> 0], lastFull |-> 0]
  /\ job = [id |-> 0, active |-> FALSE, full |-> FALSE, attempts |-> 0, absent |-> {}]
  /\ run = Idle /\ missed = {} /\ faults = 0

-----------------------------------------------------------------------------
(* The API: its collections, and what it answers to a page request.        *)

\* Whether the walk has read something of record r's endpoint.
WalkedInto(r) == run.pc # "idle" /\ (r[1] < run.ep \/ (r[1] = run.ep /\ run.pages > 0))

\* A record is created or modified; a walk that was past it does not see that.
RecordChanged(r) ==
  /\ clock < MaxChanges + 1
  /\ clock' = clock + 1
  /\ up' = [up EXCEPT ![r] = clock + 1]
  /\ job' = [job EXCEPT !.absent = @ \ {r}]
  /\ run' = [run EXCEPT !.missed = IF WalkedInto(r) THEN @ \cup {r} ELSE @]
  /\ UNCHANGED <<cfg, doc, state, missed, faults>>

\* A removed record moves those behind it one place forward: a walk by position skips one.
RecordRemoved(r) ==
  /\ Exists(r) /\ clock < MaxChanges + 1
  /\ clock' = clock + 1
  /\ up' = [up EXCEPT ![r] = 0]
  /\ run' = [run EXCEPT !.missed =
       IF WalkedInto(r) /\ cfg.type \in {"page", "offset", "link-header"}
       THEN @ \cup EndpointOf(r[1]) ELSE @]
  /\ UNCHANGED <<cfg, doc, state, job, missed, faults>>

\* How many records the API puts on a page, whatever was asked for.
PerPage == CASE cfg.type = "none" -> NRecords
             [] cfg.type = "page" /\ cfg.size > 0 -> Min({cfg.size, ServerPage})
             [] cfg.type = "offset" -> Min({Limit, ServerPage})
             [] OTHER -> ServerPage

\* The ids of the endpoint's records updated since the given time; the API lists them in order.
Listed == {i \in Ids : Exists(<<run.ep, i>>) /\ up[<<run.ep, i>>] >= run.since}

\* The walk's position is the last id that was read (a cursor), or how many places of the
\* listing are behind it.
ByCursor == cfg.type = "cursor"
Place(i) == Cardinality({j \in Listed : j <= i /\ (ByCursor => j > run.next)})
Offset == IF ByCursor THEN 0 ELSE run.next
Ahead(i) == i \in Listed /\ (ByCursor => i > run.next) /\ Place(i) > Offset
\* What is left of the listing there, and what the API puts on the page.
Left == {i \in Ids : Ahead(i)}
Page == {i \in Left : Place(i) <= Offset + PerPage}

-----------------------------------------------------------------------------
(* getJSON and the five page walks of paginate.go.                         *)

\* Variant for mutation: a page is the last one when it is not over-full.
LastPageFullCounts(got, more) ==
  CASE cfg.type = "none" -> TRUE
    [] cfg.type = "page" -> got = 0 \/ (cfg.size > 0 /\ got <= cfg.size)
    [] cfg.type = "offset" -> got <= Limit
    [] OTHER -> ~more

\* The walk's sign that this was the last page: an empty or short one, or no next
\* cursor or link.
LastPage(got, more) ==
  CASE cfg.type = "none" -> TRUE
    [] cfg.type = "page" -> got = 0 \/ (cfg.size > 0 /\ got < cfg.size)
    [] cfg.type = "offset" -> got = 0 \/ got < Limit
    [] OTHER -> ~more

\* The position of the next request.
NextPosition ==
  CASE cfg.type = "cursor" -> IF Page = {} THEN run.next ELSE Max(Page)
    [] cfg.type = "offset" -> run.next + Limit
    [] OTHER -> run.next + PerPage

\* A page arrives; an answer without the items array counts as a page without records.
FetchPage(hasItems) ==
  LET items == IF hasItems THEN Page ELSE {}
  IN  /\ run.pc = "fetch"
      /\ hasItems \/ faults < MaxFaults
      /\ faults' = IF hasItems THEN faults ELSE faults + 1
      /\ run' = [run EXCEPT
           !.pc = "emit", !.pages = @ + 1, !.retries = 0,
           !.items = {[id |-> i, rev |-> up[<<run.ep, i>>]] : i \in items},
           !.last = LastPage(Cardinality(items), Page # Left),
           !.next = NextPosition,
           !.missed = IF hasItems THEN @ ELSE @ \cup EndpointOf(run.ep)]
      /\ UNCHANGED <<cfg, up, clock, doc, state, job, missed>>

\* The attempt returns an error or dies; River retries the job until its last attempt.
Fails == /\ run' = Idle
         /\ job' = [job EXCEPT !.active = job.attempts < JobAttempts]

\* 429 or 503 with a Retry-After: the request is repeated, up to MaxRetries times.
RateLimited ==
  /\ run.pc = "fetch"
  /\ \/ /\ run.retries < MaxRetries
        /\ run' = [run EXCEPT !.retries = @ + 1]
        /\ UNCHANGED <<job, faults>>
     \/ /\ run.retries = MaxRetries /\ faults < MaxFaults
        /\ faults' = faults + 1
        /\ Fails
  /\ UNCHANGED <<cfg, up, clock, doc, state, missed>>

-----------------------------------------------------------------------------
(* Sync.                                                                   *)

EnqueueSync(full) ==
  /\ ~job.active /\ job.id < MaxJobs
  /\ job' = [id |-> job.id + 1, active |-> TRUE, full |-> full, attempts |-> 0,
             absent |-> {r \in Records : ~Exists(r)}]
  /\ UNCHANGED <<cfg, up, clock, doc, state, run, missed, faults>>

\* Variant for mutation: a full run sends the cursor too.
SinceAlways(e) == IF cfg.incremental THEN state.cursor[e] ELSE 0

\* The updated-since value of an endpoint's requests: a full run sends none.
Since(e) == IF ~job.full /\ cfg.incremental THEN state.cursor[e] ELSE 0

\* buildAuthedClient fails closed when a secret is missing.
Authed == cfg.creds

StartAttempt ==
  /\ job.active /\ run.pc = "idle" /\ job.attempts < JobAttempts
  /\ IF Authed
     THEN /\ run' = [Idle EXCEPT !.pc = "fetch", !.since = Since(1)]
          /\ job' = [job EXCEPT !.attempts = @ + 1]
     ELSE /\ job' = [job EXCEPT !.attempts = @ + 1, !.active = job.attempts + 1 < JobAttempts]
          /\ UNCHANGED run
  /\ UNCHANGED <<cfg, up, clock, doc, state, missed, faults>>

\* ExternalID: the record's id, or its number in this walk when id_path finds none.
KeyOf(item) == <<run.ep, IF cfg.ided THEN item.id ELSE run.seq>>

\* The page's next record: a template error skips it, Sink.Put stores it or records an embedding
\* failure, and the cursor follows the newest updated_at.
EmitItem(embeds) ==
  \E item \in run.items :
    LET r == <<run.ep, item.id>>
        put == r \notin cfg.broken
    IN  /\ run.pc = "emit" /\ \A other \in run.items : item.id <= other.id
        /\ embeds \/ (put /\ faults < MaxFaults)
        /\ faults' = IF embeds THEN faults ELSE faults + 1
        /\ doc' = IF put /\ embeds
                  THEN [doc EXCEPT ![KeyOf(item)] = [status |-> "active", of |-> item.id,
                                                     rev |-> item.rev, seenIn |-> job.id]]
                  ELSE doc
        /\ run' = [run EXCEPT
             !.items = @ \ {item}, !.seq = @ + 1, !.saw = @ \/ put,
             !.max = IF put THEN Max({@, item.rev}) ELSE @,
             !.missed = IF put /\ embeds THEN @ ELSE @ \cup {r}]
        /\ UNCHANGED <<cfg, up, clock, state, job, missed>>

\* The max_pages ceiling of every walk.
Ceiling == IF cfg.maxPages = 0 THEN DefaultMaxPages ELSE cfg.maxPages

\* The page's records are emitted: request the next page, or end the walk at the last
\* page or, without an error, at the max_pages ceiling.
PageDone ==
  /\ run.pc = "emit" /\ run.items = {}
  /\ IF run.last \/ run.pages >= Ceiling
     THEN run' = [run EXCEPT !.pc = "persist",
                             !.missed = IF run.last THEN @ ELSE @ \cup EndpointOf(run.ep)]
     ELSE run' = [run EXCEPT !.pc = "fetch"]
  /\ UNCHANGED <<cfg, up, clock, doc, state, job, missed, faults>>

\* After the walk of an endpoint its cursor advances to the newest updated_at seen.
PersistCursor ==
  LET e == run.ep
  IN  /\ run.pc = "persist"
      /\ state' = IF run.max > 0 THEN [state EXCEPT !.cursor[e] = run.max] ELSE state
      /\ missed' = missed \cup (run.missed \cap EndpointOf(e))
      /\ run' = IF e < NEnds
                THEN [Idle EXCEPT !.pc = "fetch", !.ep = e + 1, !.since = Since(e + 1),
                                  !.saw = run.saw, !.missed = run.missed]
                ELSE [run EXCEPT !.pc = "mark"]
      /\ UNCHANGED <<cfg, up, clock, doc, job, faults>>

\* api:last_full_sync is written best-effort.
MarkFull ==
  /\ run.pc = "mark"
  /\ state' \in IF job.full THEN {state, [state EXCEPT !.lastFull = job.id]} ELSE {state}
  /\ run' = [run EXCEPT !.pc = "complete"]
  /\ UNCHANGED <<cfg, up, clock, doc, job, missed, faults>>

\* Variant for mutation: every run that saw a document deletes.
SweepEver == IF run.saw
             THEN [k \in DOMAIN doc |-> IF doc[k].status = "active" /\ doc[k].seenIn < job.id
                                        THEN [doc[k] EXCEPT !.status = "deleted"] ELSE doc[k]]
             ELSE doc

\* Sink.Complete soft-deletes what a full run did not see, unless it saw nothing.
Sweep == IF job.full /\ run.saw
         THEN [k \in DOMAIN doc |-> IF doc[k].status = "active" /\ doc[k].seenIn < job.id
                                    THEN [doc[k] EXCEPT !.status = "deleted"] ELSE doc[k]]
         ELSE doc

Complete ==
  /\ run.pc = "complete"
  /\ doc' = Sweep
  /\ missed' = IF job.full THEN missed \cup run.missed ELSE missed
  /\ run' = [run EXCEPT !.pc = "return"]
  /\ UNCHANGED <<cfg, up, clock, state, job, faults>>

Return ==
  /\ run.pc = "return"
  /\ run' = Idle /\ job' = [job EXCEPT !.active = FALSE]
  /\ UNCHANGED <<cfg, up, clock, doc, state, missed, faults>>

\* A request, a Put, a state write or the delete pass fails, or the worker dies.
Abort ==
  /\ run.pc # "idle" /\ faults < MaxFaults
  /\ faults' = faults + 1
  /\ Fails
  /\ UNCHANGED <<cfg, up, clock, doc, state, missed>>

Next ==
  \/ \E r \in Changing : RecordChanged(r) \/ RecordRemoved(r)
  \/ \E b \in BOOLEAN : EnqueueSync(b) \/ FetchPage(b) \/ EmitItem(b)
  \/ StartAttempt \/ RateLimited \/ PageDone \/ PersistCursor \/ MarkFull \/ Complete
  \/ Return \/ Abort

Spec == Init /\ [][Next]_vars

-----------------------------------------------------------------------------
(* The inductive invariant.                                                *)

Doc == [status: {"absent", "active", "deleted"}, of: Nat, rev: Nat, seenIn: Nat]
Walk == [pc: {"idle", "fetch", "emit", "persist", "mark", "complete", "return"},
         ep: Ends, since: Nat, next: Nat, pages: Nat, items: SUBSET [id: Ids, rev: Nat], last: BOOLEAN,
         seq: Nat, max: Nat, retries: 0..MaxRetries, saw: BOOLEAN, missed: SUBSET Records]
Job == [id: 0..MaxJobs, active: BOOLEAN, full: BOOLEAN, attempts: 0..JobAttempts, absent: SUBSET Records]

TypeOK ==
  /\ cfg \in Configs /\ clock \in Nat /\ up \in [Records -> Nat]
  /\ doc \in [Ends \X Keys -> Doc]
  /\ state \in [cursor: [Ends -> Nat], lastFull: 0..MaxJobs]
  /\ job \in Job /\ run \in Walk /\ missed \in SUBSET Records /\ faults \in 0..MaxFaults

\* Nothing is newer than the API's clock.
TimesSound ==
  /\ \A r \in Records : up[r] <= clock
  /\ \A e \in Ends : state.cursor[e] <= clock
  /\ run.since <= clock /\ run.max <= clock /\ \A x \in run.items : x.rev <= clock

\* What each place of an attempt implies.
PlacesSound ==
  /\ run.pc # "emit" => run.items = {}
  /\ run.pc = "fetch" => ~run.last
  /\ run.pages = 0 => run.next = 0 /\ run.seq = 0
  /\ run.pc \notin {"idle", "fetch"} => run.pages > 0
  /\ cfg.type = "none" /\ run.pages > 0 => run.last
  /\ run.pc \in {"mark", "complete", "return"} => run.ep = NEnds
  /\ run.pc # "idle" => job.active
  /\ run.pc \in {"fetch", "emit", "persist"} => run.since = Since(run.ep)
  /\ run.pc # "idle" /\ job.full => run.since = 0

\* The page in hand: a walk numbers no more records than there are ids, and an item is the
\* record as it is, unless the record was removed or has changed after the stored cursor.
ItemsSound ==
  /\ IsFiniteSet(run.items)
  /\ run.seq + Cardinality(run.items) <= run.next /\ run.seq + Cardinality(run.items) <= NRecords
  /\ \A x, y \in run.items : x.id = y.id => x = y
  /\ \A x \in run.items :
       /\ up[<<run.ep, x.id>>] \in {0, x.rev} \/ up[<<run.ep, x.id>>] > state.cursor[run.ep]
       /\ <<run.ep, x.id>> \notin run.missed => up[<<run.ep, x.id>>] \in {0, x.rev}
       /\ <<run.ep, x.id>> \notin job.absent

\* The documents: a job sees none of a record that was absent all along.
DocsSound ==
  /\ \A r \in job.absent : ~Exists(r)
  /\ \A k \in Ends \X Keys :
       /\ doc[k].seenIn <= job.id
       /\ doc[k].status = "active" =>
            /\ cfg.ided => doc[k].of = k[2]
            /\ doc[k].seenIn = job.id => <<k[1], doc[k].of>> \notin job.absent

\* Record r is live as it is, seen by this job; without ids, under a number the walk of its
\* endpoint will not give again.
Stored(r) == \E k \in Keys : /\ doc[<<r[1], k>>] = [status |-> "active", of |-> r[2], rev |-> up[r],
                                                    seenIn |-> job.id]
                             /\ IF cfg.ided THEN k = r[2] ELSE r[1] = run.ep => k < run.seq
InHand(r) == run.pc = "emit" /\ \E x \in run.items : x.id = r[2]
ToCome(r) == run.pc \in {"fetch", "emit"} /\ ~run.last /\ Ahead(r[2])

\* A record of the endpoint at work that the walk could not miss, and that it asks for, is
\* stored, in hand or ahead; one of an endpoint that is done is stored by a full run.
WalkSound ==
  (HonoursSize /\ run.pc # "idle") =>
    \A r \in Records \ run.missed : Exists(r) =>
      /\ r[1] < run.ep /\ job.full => Stored(r)
      /\ r[1] = run.ep /\ up[r] >= run.since => Stored(r) \/ InHand(r) \/ ToCome(r)

IInv == /\ TypeOK /\ TimesSound /\ PlacesSound /\ ItemsSound /\ DocsSound /\ WalkSound
        /\ CursorCovers
===============================================================================
