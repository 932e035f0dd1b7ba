------------------------------- MODULE WebCrawl -------------------------------
(***************************************************************************)
(* The web crawl connector (internal/connector/webcrawl) run by the        *)
(* attempts of sync_source jobs: the breadth-first frontier with its level *)
(* barrier and concurrent fetches, the crawl_pages rows that make a crawl  *)
(* resumable and conditional, the documents it emits into the sink, and    *)
(* the delete pass of a full sync.                                         *)
(*                                                                         *)
(* One sync job of a source runs at a time, so the timestamps the code     *)
(* compares (LastFetchedAt and last_seen_at against the job's CreatedAt)   *)
(* are abstracted to the number of the job in which they were written.     *)
(* A Sink.Put is one step here: DocumentStore has its stages, and the case *)
(* of two attempts of one job in flight.  Links are a property of the URL. *)
(***************************************************************************)
EXTENDS Naturals, FiniteSets

CONSTANTS
  Urls,      \* normalised URLs
  Contents,  \* page contents
  Gone,      \* the server answers with an error status
  Sources    \* the sources to check, see SourceOK

\* A crash or timeout, a transient HTTP failure, a Put that fails, a best-effort
\* crawl_pages write that is lost.
FaultKinds == {"abort", "fetch", "put", "persist"}

\* urls: the pages of the site; seeds: StartURLs that are not denied; links[u]: allowed, not
\* denied links of page u; canon[u]: its ExternalID (the canonical URL, or u); disallowed:
\* what robots.txt excludes; depth, pages: config max_depth and max_pages; faults: what
\* may go wrong; jobs, changes: bounds on the jobs and on the changes of the site.
SourceOK(x) ==
  /\ x.faults \subseteq FaultKinds
  /\ x.urls \subseteq Urls /\ x.seeds \subseteq x.urls /\ x.disallowed \subseteq x.urls
  /\ x.contents \subseteq Contents
  /\ x.links \in [Urls -> SUBSET x.urls]
  /\ x.canon \in [Urls -> Urls]
  /\ x.depth \in Nat /\ x.pages \in Nat /\ x.jobs \in Nat /\ x.changes \in Nat

ASSUME CrawlAssumption == Gone \notin Contents /\ IsFiniteSet(Urls) /\ \A x \in Sources : SourceOK(x)

VARIABLES
  source,  \* the source and its configuration
  site,    \* what the server answers, and how often that changed
  pages,   \* crawl_pages rows
  doc,     \* documents rows of the source, by ExternalID; as history, the contents they had
  job,     \* the current job; as history, the URLs present since it was created
  crawl    \* the crawler of the running attempt

vars == <<source, site, pages, doc, job, crawl>>

Seeds == source.seeds
Links == source.links
Canon == source.canon
Disallowed == source.disallowed
MaxDepth == source.depth
MaxPages == source.pages
Faults == source.faults

NoPage == [known |-> FALSE, depth |-> 0, fetchedIn |-> 0, hash |-> Gone]
NoDoc  == [status |-> "absent", hash |-> Gone, seenIn |-> 0, had |-> {}]
Stopped == [pc |-> "idle", level |-> 0, visited |-> {}, skip |-> {},
            frontier |-> [d \in 0..MaxDepth |-> {}], task |-> [u \in Urls |-> "none"],
            got |-> [u \in Urls |-> Gone], emitted |-> {}, fetched |-> 0, sawDoc |-> FALSE]

Depths == 0..MaxDepth
Page == [known: BOOLEAN, depth: Depths, fetchedIn: 0..source.jobs, hash: Contents \cup {Gone}]
Document == [status: {"absent", "active", "deleted"}, hash: Contents \cup {Gone},
             seenIn: 0..source.jobs, had: SUBSET Contents]
Stages == {"none", "emit", "put", "upsert", "expand", "done"}
Crawler == [pc: {"idle", "crawling"}, level: 0..(MaxDepth + 1), visited: SUBSET Urls, skip: SUBSET Urls,
            frontier: [Depths -> SUBSET Urls], task: [Urls -> Stages], got: [Urls -> Contents \cup {Gone}],
            emitted: SUBSET Urls, fetched: 0..Cardinality(Urls), sawDoc: BOOLEAN]

TypeOK ==
  /\ site \in [is: [Urls -> Contents \cup {Gone}], changes: 0..source.changes]
  /\ pages \in [Urls -> Page] /\ doc \in [Urls -> Document]
  /\ job \in [id: 0..source.jobs, active: BOOLEAN, full: BOOLEAN, present: SUBSET Urls]
  /\ crawl \in Crawler

Init ==
  /\ source \in Sources
  /\ \E is \in [source.urls -> source.contents \cup {Gone}] :
       site = [is |-> [u \in Urls |-> IF u \in source.urls THEN is[u] ELSE Gone], changes |-> 0]
  /\ pages = [u \in Urls |-> NoPage]
  /\ doc = [u \in Urls |-> NoDoc]
  /\ job = [id |-> 0, active |-> FALSE, full |-> FALSE, present |-> {}]
  /\ crawl = Stopped

\* The site changes under the crawler's feet.
SiteChange(u, c) ==
  /\ site.changes < source.changes /\ site.is[u] # c
  /\ site' = [is |-> [site.is EXCEPT ![u] = c], changes |-> site.changes + 1]
  /\ job' = [job EXCEPT !.present = IF c = Gone THEN @ \ {u} ELSE @]
  /\ UNCHANGED <<source, pages, doc, crawl>>

EnqueueSync(full) ==
  /\ ~job.active /\ job.id < source.jobs
  /\ job' = [id |-> job.id + 1, active |-> TRUE, full |-> full,
             present |-> {u \in Urls : site.is[u] # Gone}]
  /\ UNCHANGED <<source, site, pages, doc, crawl>>

-----------------------------------------------------------------------------
(* crawler.run: load crawl_pages, seed and merge the frontier.             *)

\* Variant for mutation: resume-skip is not scoped to the run series.
SkippedFetchedEver(u) == job.full /\ pages[u].fetchedIn > 0

\* Fetched by an earlier attempt of this full sync: skipped on resume.
WithinSeries(u) == job.full /\ pages[u].fetchedIn = job.id

\* Persisted pages that are queued again: the pending ones and, unless this
\* series fetched them, the fetched ones.
Requeued == {u \in Urls \ Seeds : pages[u].known /\ pages[u].depth <= MaxDepth /\ ~WithinSeries(u)}

StartAttempt ==
  /\ job.active /\ crawl.pc = "idle"
  /\ crawl' = [Stopped EXCEPT
       !.pc = "crawling",
       !.visited = Seeds \cup {u \in Urls : pages[u].known},
       !.skip = {u \in Urls : pages[u].known /\ WithinSeries(u)},
       !.frontier = [d \in Depths |-> {u \in Requeued : pages[u].depth = d}
                                        \cup (IF d = 0 THEN Seeds ELSE {})]]
  /\ UNCHANGED <<source, site, pages, doc, job>>

\* The items of the level that process has not taken yet.
Queued == IF crawl.level \in Depths
          THEN {u \in crawl.frontier[crawl.level] : crawl.task[u] = "none" /\ u \notin crawl.skip}
          ELSE {}

Goto(u, stage) == crawl' = [crawl EXCEPT !.task[u] = stage]

-----------------------------------------------------------------------------
(* crawler.process, one action per request or statement.                   *)

\* PageStore.Upsert of a fetched page: a missing content hash keeps the stored one.
PageFetched(u, hash) ==
  pages' = [pages EXCEPT ![u] = [known |-> TRUE, depth |-> crawl.level, fetchedIn |-> job.id,
                                 hash |-> IF hash = Gone THEN pages[u].hash ELSE hash]]

\* The same write where the code goes on when it fails.
TryPageFetched(u, hash) == PageFetched(u, hash) \/ ("persist" \in Faults /\ UNCHANGED pages)

\* robots.txt excludes the URL.
RobotsDisallow(u) ==
  /\ u \in Queued /\ u \in Disallowed
  /\ Goto(u, "done")
  /\ UNCHANGED <<source, site, pages, doc, job>>

\* The max_pages cap: the counter moves, nothing is fetched.
OverCap(u) ==
  /\ u \in Queued \ Disallowed
  /\ crawl.fetched + 1 > MaxPages
  /\ crawl' = [crawl EXCEPT !.task[u] = "done", !.fetched = @ + 1]
  /\ UNCHANGED <<source, site, pages, doc, job>>

Admitted(u) == u \in Queued \ Disallowed /\ crawl.fetched + 1 <= MaxPages

\* No answer, an error status or a body over the cap: recordError.
FetchFails(u) ==
  /\ Admitted(u)
  /\ site.is[u] = Gone \/ "fetch" \in Faults
  /\ TryPageFetched(u, Gone)
  /\ crawl' = [crawl EXCEPT !.task[u] = "done", !.fetched = @ + 1]
  /\ UNCHANGED <<source, site, doc, job>>

\* An incremental sync of a fetched page: 304, or the stored content hash.
Unchanged(u) == ~job.full /\ pages[u].fetchedIn > 0 /\ pages[u].hash = site.is[u]

\* markUnchanged: no emit, and no links are followed.
FetchUnchanged(u) ==
  /\ Admitted(u)
  /\ site.is[u] # Gone /\ Unchanged(u)
  /\ TryPageFetched(u, site.is[u])
  /\ crawl' = [crawl EXCEPT !.task[u] = "done", !.fetched = @ + 1]
  /\ UNCHANGED <<source, site, doc, job>>

Fetch(u) ==
  /\ Admitted(u)
  /\ site.is[u] # Gone /\ ~Unchanged(u)
  /\ crawl' = [crawl EXCEPT !.task[u] = "emit", !.got[u] = site.is[u], !.fetched = @ + 1]
  /\ UNCHANGED <<source, site, pages, doc, job>>

\* Variant for mutation: the fetched page is persisted before it is emitted.
EmitPersisted(u) ==
  /\ crawl.task[u] = "emit"
  /\ PageFetched(u, crawl.got[u])
  /\ crawl' = [crawl EXCEPT !.task[u] = IF Canon[u] \in crawl.emitted THEN "upsert" ELSE "put",
                            !.emitted = @ \cup {Canon[u]}]
  /\ UNCHANGED <<source, site, doc, job>>

\* Variant for mutation: the page is not recorded in the emitted set.
EmitUnrecorded(u) ==
  /\ crawl.task[u] = "emit"
  /\ Goto(u, IF Canon[u] \in crawl.emitted THEN "upsert" ELSE "put")
  /\ UNCHANGED <<source, site, pages, doc, job>>

\* emit: a canonical URL emitted before in this attempt is not emitted again.
Emit(u) ==
  /\ crawl.task[u] = "emit"
  /\ crawl' = [crawl EXCEPT !.task[u] = IF Canon[u] \in crawl.emitted THEN "upsert" ELSE "put",
                            !.emitted = @ \cup {Canon[u]}]
  /\ UNCHANGED <<source, site, pages, doc, job>>

\* sink.Put succeeds: the document is touched or committed, and active.
Put(u) ==
  /\ crawl.task[u] = "put"
  /\ doc' = [doc EXCEPT ![Canon[u]] = [status |-> "active", hash |-> crawl.got[u], seenIn |-> job.id,
                                       had |-> doc[Canon[u]].had \cup {crawl.got[u]}]]
  /\ crawl' = [crawl EXCEPT !.task[u] = "upsert", !.sawDoc = TRUE]
  /\ UNCHANGED <<source, site, pages, job>>

\* sink.Put records a failed document and returns nil, or returns an error (snooze
\* or store), which emit logs; either way the crawl goes on.
PutFails(u) ==
  /\ crawl.task[u] = "put" /\ "put" \in Faults
  /\ crawl' = [crawl EXCEPT !.task[u] = "upsert", !.sawDoc = TRUE]
  /\ UNCHANGED <<source, site, pages, doc, job>>

\* The fetched state is persisted after the emit.
Upsert(u) ==
  /\ crawl.task[u] = "upsert"
  /\ PageFetched(u, crawl.got[u])
  /\ Goto(u, "expand")
  /\ UNCHANGED <<source, site, doc, job>>

\* Variant for mutation: the links of the last level but one are not followed.
NewLinksBelow(u) == IF crawl.level + 1 < MaxDepth THEN Links[u] \ crawl.visited ELSE {}

\* Back in run: new links join the next level and are persisted as pending.
NewLinks(u) == IF crawl.level < MaxDepth THEN Links[u] \ crawl.visited ELSE {}

Expand(u) ==
  /\ crawl.task[u] = "expand"
  /\ crawl' = [crawl EXCEPT
       !.task[u] = "done",
       !.visited = @ \cup NewLinks(u),
       !.frontier = [d \in Depths |-> IF d = crawl.level + 1 THEN @[d] \cup NewLinks(u) ELSE @[d]]]
  /\ \E kept \in SUBSET NewLinks(u) :
       /\ kept = NewLinks(u) \/ "persist" \in Faults
       /\ pages' = [l \in Urls |-> IF l \in kept
                                   THEN [NoPage EXCEPT !.known = TRUE, !.depth = crawl.level + 1]
                                   ELSE pages[l]]
  /\ UNCHANGED <<source, site, doc, job>>

-----------------------------------------------------------------------------
\* g.Wait: every item of the level is done or skipped.
LevelDone == \A u \in Urls : crawl.task[u] \in {"none", "done"} /\ u \notin Queued

NextLevel ==
  /\ crawl.pc = "crawling" /\ crawl.level <= MaxDepth /\ LevelDone
  /\ crawl' = [crawl EXCEPT !.level = @ + 1]
  /\ UNCHANGED <<source, site, pages, doc, job>>

\* Variant for mutation: every sync that saw a document deletes.
SweptEver == IF crawl.sawDoc
             THEN {x \in Urls : doc[x].status = "active" /\ doc[x].seenIn < job.id}
             ELSE {}

\* Sink.Complete: the delete pass of a full sync that saw a document.
Swept == IF job.full /\ crawl.sawDoc
         THEN {x \in Urls : doc[x].status = "active" /\ doc[x].seenIn < job.id}
         ELSE {}

\* finish with no cause: Complete, and the job succeeds.
Finish ==
  /\ crawl.pc = "crawling" /\ crawl.level > MaxDepth
  /\ doc' = [x \in Urls |-> IF x \in Swept THEN [doc[x] EXCEPT !.status = "deleted"] ELSE doc[x]]
  /\ job' = [job EXCEPT !.active = FALSE]
  /\ crawl' = Stopped
  /\ UNCHANGED <<source, site, pages>>

\* Variant for mutation: a truncated crawl runs the delete pass too.
AbortAndComplete ==
  /\ crawl.pc = "crawling" /\ "abort" \in Faults
  /\ doc' = [x \in Urls |-> IF x \in Swept THEN [doc[x] EXCEPT !.status = "deleted"] ELSE doc[x]]
  /\ crawl' = Stopped
  /\ UNCHANGED <<source, site, pages, job>>

\* A crash, a timeout, or a fatal crawl_pages write: finish with a cause skips
\* Complete, and River retries the job.
Abort ==
  /\ crawl.pc = "crawling" /\ "abort" \in Faults
  /\ crawl' = Stopped
  /\ UNCHANGED <<source, site, pages, doc, job>>

\* The last attempt failed too.
Discard ==
  /\ job.active /\ crawl.pc = "idle" /\ "abort" \in Faults
  /\ job' = [job EXCEPT !.active = FALSE]
  /\ UNCHANGED <<source, site, pages, doc, crawl>>

Process(u) ==
  \/ RobotsDisallow(u) \/ OverCap(u) \/ FetchFails(u) \/ FetchUnchanged(u) \/ Fetch(u)
  \/ Emit(u) \/ Put(u) \/ PutFails(u)
  \/ Upsert(u) \/ Expand(u)

Next ==
  \/ \E u \in source.urls, c \in source.contents \cup {Gone} : SiteChange(u, c)
  \/ \E full \in BOOLEAN : EnqueueSync(full)
  \/ StartAttempt \/ NextLevel \/ Finish \/ Abort \/ Discard
  \/ \E u \in source.urls : Process(u)

Spec == Init /\ [][Next]_vars

-----------------------------------------------------------------------------
(* Properties.                                                             *)

\* The cap leaves room for every page.
Uncapped == MaxPages >= Cardinality(source.urls)

\* No other URL has its canonical URL.
Unshared(u) == \A v \in Urls \ {u} : Canon[v] # Canon[u]

\* The delete pass removes no document of a page that was on the site ever since the
\* job was created, whatever was aborted and resumed in between: resume-skip is
\* scoped to the series, and a truncated crawl does not sweep (crawl.go run, finish).
\* A page that fails to answer, or one over the cap, counts as absent for the code.  Of two
\* pages that share a canonical URL, one may be recorded on the strength of a Put of the other
\* that an abort cuts off.
PresentNotSwept ==
  [][\A u \in IF Faults \subseteq {"abort"} /\ Uncapped THEN job.present \ Disallowed ELSE {} :
        Unshared(u) /\ doc[Canon[u]].status = "active" => doc'[Canon[u]].status = "active"]_vars

\* Documents are deleted only when every page the crawl knows was gone through by
\* this attempt, or fetched by an earlier attempt of its series: the delete pass
\* never runs over part of the frontier, whatever fails (crawl.go run, finish).
GoneThrough(u) == crawl.task[u] = "done" \/ u \in crawl.skip
SweepsAfterFullPass ==
  [][(\E x \in Urls : doc[x].status = "active" /\ doc'[x].status = "deleted")
       => \A u \in Urls : pages[u].known => GoneThrough(u)]_vars

\* Two URLs that share a canonical URL are never put at the same time: the sink's
\* version reuse would race with itself (crawl.go emit).
OnePutPerCanonical ==
  \A u, v \in Urls : u # v /\ crawl.task[u] = "put" /\ crawl.task[v] = "put"
     => Canon[u] # Canon[v]

\* A page recorded with a content hash has had that content ingested, across crashes
\* between the emit and the write: an incremental sync skips no page whose content
\* never reached the sink (crawl.go process, pages that share no canonical URL, and
\* a sink that does not fail).
HashMeansIngested ==
  "put" \notin Faults => \A u \in Urls : pages[u].hash # Gone /\ Unshared(u)
     => pages[u].hash \in doc[Canon[u]].had

\* Pages that are not excluded and were there since the job was created, and the walks of d
\* links over them from a seed.
Stayed == job.present \ Disallowed
Trails(d) == {t \in [0..d -> Stayed] : t[0] \in Seeds /\ \A i \in 1..d : t[i] \in Links[t[i - 1]]}

\* A page the crawl has to come by: a seed, a recorded page, a page linked from one that is
\* recorded above max_depth, and in the first sync all there is within max_depth.  Later ones
\* keep the depth a page was first found at, so a shorter walk to it does not count.
Reachable(u) ==
  \/ u \in Seeds \/ pages[u].known
  \/ \E v \in Stayed : pages[v].known /\ pages[v].depth < MaxDepth /\ u \in Links[v]
  \/ job.id = 1 /\ \E d \in Depths : \E t \in Trails(d) : u = t[d]

Lossless == job.full /\ Uncapped /\ Faults \subseteq {"persist"}

\* A full sync that completes has seen every such page, in one attempt, also when
\* best-effort rows are lost (crawl.go run: the frontier is kept in memory).  A crash may
\* lose links: the page is recorded as fetched before they are.
FullSyncCovers ==
  [][Finish /\ Lossless =>
       \A u \in Stayed : Reachable(u) => doc'[Canon[u]].status = "active"
                                          /\ doc'[Canon[u]].seenIn = job.id]_vars

\* The crawl as the sink knows it.
Phase == IF crawl.pc = "idle" THEN "idle"
         ELSE IF crawl.level <= MaxDepth THEN "enumerating" ELSE "enumerated"
Live == {x \in Urls : doc[x].status = "active"}
Seen == {x \in Live : doc[x].seenIn = job.id}

Contract == INSTANCE SyncContract
              WITH ExternalIDs <- Urls, phase <- Phase, full <- job.full, live <- Live, seen <- Seen

\* The crawler keeps its side of the sink's contract, and the sink its own: whatever is
\* aborted, resumed, capped or lost, a document vanishes only when a full sync completes
\* that went through every level and in none of whose attempts it was put (crawl.go run,
\* finish; sink.go Complete).
ContractSpec == Contract!Spec

-----------------------------------------------------------------------------
(* Inductive strengthening.                                                *)

Tasked == {u \in Urls : crawl.task[u] # "none"}
Met(u) == u \in crawl.skip \/ \E d \in Depths : u \in crawl.frontier[d]

\* Seeds, known pages and pages at work are in the frontier or skipped, the levels below the
\* current one are gone through, and no page is at work behind the last level.
FrontierSound ==
  /\ crawl.pc = "idle" => crawl = Stopped
  /\ crawl.pc = "crawling" =>
       /\ job.active
       /\ \A u \in Urls : u \in Seeds \/ pages[u].known \/ u \in Tasked => Met(u)
       /\ \A u \in Urls : Met(u) => u \in crawl.visited
       /\ \A d \in Depths : d < crawl.level => \A u \in crawl.frontier[d] : GoneThrough(u)
       /\ \A u \in Tasked : crawl.task[u] # "done" => crawl.level \in Depths
       /\ \A u \in crawl.skip : job.full /\ pages[u].fetchedIn = job.id

\* Each page at work was counted at most once, and holds the content it fetched.
FetchSound ==
  /\ Tasked \subseteq source.urls /\ crawl.fetched <= Cardinality(Tasked)
  /\ \A u \in Urls : crawl.task[u] \in {"emit", "put", "upsert"} => crawl.got[u] \in Contents

\* A canonical URL is in the emitted set from the moment a page of it may be put.
EmitSound ==
  \A u \in Urls :
    /\ crawl.task[u] = "put" => Canon[u] \in crawl.emitted
    /\ Unshared(u) /\ Canon[u] \in crawl.emitted => crawl.task[u] \notin {"none", "emit"}

\* Behind its Put the content of a page has been ingested.
IngestSound ==
  "put" \notin Faults =>
    \A u \in Urls : Unshared(u) /\ crawl.task[u] = "upsert" => crawl.got[u] \in doc[Canon[u]].had

\* Without faults but aborts: a document is of a page the crawl will meet again, and a page there
\* since a full job was created has its document seen when this series is done with it.
SeriesSound ==
  /\ job.active => job.id > 0
  /\ \A u \in Urls : pages[u].fetchedIn <= job.id
  /\ \A u \in job.present : site.is[u] # Gone
  /\ Faults \subseteq {"abort"} /\ Uncapped =>
       /\ crawl.pc = "crawling" => \A u \in crawl.visited : u \in Seeds \/ pages[u].known
       /\ \A u \in Urls : Unshared(u) =>
            /\ doc[Canon[u]].status = "active" => u \in Seeds \/ pages[u].known
            /\ job.full /\ u \in job.present \ Disallowed
                 /\ (pages[u].fetchedIn = job.id \/ crawl.task[u] \in {"upsert", "expand", "done"})
                 => doc[Canon[u]].seenIn = job.id

\* Without aborts: recorded pages stand in the frontier at their depth and pages at work at the
\* current level, what was visited is met, and the first sync is at most one level ahead.
WalkUnderWay ==
  /\ crawl.skip = {} /\ Seeds \subseteq crawl.frontier[0]
  /\ \A u \in Urls : pages[u].known => u \in crawl.frontier[pages[u].depth]
  /\ \A u \in crawl.visited : \E d \in Depths : u \in crawl.frontier[d]
  /\ \A u \in Tasked : crawl.task[u] # "done" => u \in crawl.frontier[crawl.level]
  /\ job.id = 1 => \A d \in Depths : d > crawl.level + 1 => crawl.frontier[d] = {}

\* Such a job is one attempt.
WalkSound ==
  "abort" \notin Faults =>
    /\ \A u \in Seeds : pages[u].depth = 0
    /\ \A u \in Urls : pages[u].known => job.id > 0
    /\ job.active /\ crawl.pc = "idle" =>
         \A u \in Urls : pages[u].fetchedIn # job.id /\ (job.id = 1 => ~pages[u].known)
    /\ crawl.pc = "crawling" => WalkUnderWay

\* Of a job that loses no more than best-effort rows: pages done with have been put, the pages
\* they link to are visited, and in the first sync at most one level further, so that walks of
\* up to the current level end in the frontier.
CoverSound ==
  Lossless /\ crawl.pc = "crawling" =>
    /\ \A u \in Stayed : crawl.task[u] \in {"upsert", "expand", "done"} => Canon[u] \in crawl.emitted
    /\ \A x \in crawl.emitted : \/ doc[x].status = "active" /\ doc[x].seenIn = job.id
                                \/ \E v \in Urls : crawl.task[v] = "put" /\ Canon[v] = x
    /\ \A u \in Stayed, d \in Depths :
         crawl.task[u] = "done" /\ u \in crawl.frontier[d] /\ d < MaxDepth =>
           \A v \in Links[u] : /\ v \in crawl.visited
                               /\ job.id = 1 => \E e \in 0..(d + 1) : v \in crawl.frontier[e]
    /\ job.id = 1 => \A d \in Depths : d <= crawl.level =>
                       \A t \in Trails(d) : \E e \in 0..d : t[d] \in crawl.frontier[e]

IInv ==
  /\ source \in Sources /\ TypeOK /\ FrontierSound /\ FetchSound /\ EmitSound /\ IngestSound
  /\ SeriesSound /\ WalkSound /\ CoverSound /\ OnePutPerCanonical /\ HashMeansIngested
=============================================================================
