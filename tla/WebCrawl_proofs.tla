----------------------------- MODULE WebCrawl_proofs -----------------------------
(* Proofs about WebCrawl, for any finite site, any links and canonical URLs, any  *)
(* robots exclusions, depth, cap and faults, and any number of jobs and changes.  *)
EXTENDS WebCrawl, FiniteSetTheorems, TLAPS

-----------------------------------------------------------------------------
(* The source, and what follows from the types.                              *)

LEMMA SourceFacts ==
  ASSUME source \in Sources
  PROVE  /\ Gone \notin Contents /\ IsFiniteSet(Urls) /\ Cardinality(Urls) \in Nat
         /\ source.urls \subseteq Urls /\ Seeds \subseteq source.urls /\ Disallowed \subseteq Urls
         /\ Links \in [Urls -> SUBSET source.urls] /\ Canon \in [Urls -> Urls]
         /\ MaxDepth \in Nat /\ MaxPages \in Nat /\ source.jobs \in Nat /\ source.changes \in Nat
         /\ source.contents \subseteq Contents
         /\ Depths = 0..MaxDepth /\ 0 \in Depths
<1>1. SourceOK(source) /\ Gone \notin Contents /\ IsFiniteSet(Urls)
  BY CrawlAssumption
<1>2. Cardinality(Urls) \in Nat
  BY <1>1, FS_CardinalityType
<1> QED  BY <1>1, <1>2 DEF SourceOK, Seeds, Disallowed, Links, Canon, MaxDepth, MaxPages, Depths

LEMMA SameSource ==
  ASSUME source' = source
  PROVE  /\ Seeds' = Seeds /\ Links' = Links /\ Canon' = Canon /\ Disallowed' = Disallowed
         /\ MaxDepth' = MaxDepth /\ MaxPages' = MaxPages /\ Faults' = Faults /\ Depths' = Depths
         /\ Page' = Page /\ Document' = Document /\ Crawler' = Crawler /\ Stopped' = Stopped
         /\ Uncapped' = Uncapped /\ \A u \in Urls : Unshared(u)' <=> Unshared(u)
  BY DEF Seeds, Links, Canon, Disallowed, MaxDepth, MaxPages, Faults, Depths, Page, Document, Crawler,
     Stopped, Uncapped, Unshared

LEMMA CountTasked ==
  ASSUME NEW S, NEW T, IsFiniteSet(S), T \subseteq S
  PROVE  /\ IsFiniteSet(T) /\ Cardinality(T) \in Nat /\ Cardinality(S) \in Nat
         /\ Cardinality(T) <= Cardinality(S)
         /\ \A x \in S \ T : /\ Cardinality(T \cup {x}) = Cardinality(T) + 1
                             /\ Cardinality(T) + 1 <= Cardinality(S)
<1>1. \A U \in SUBSET S : /\ IsFiniteSet(U) /\ Cardinality(U) \in Nat /\ Cardinality(U) <= Cardinality(S)
  BY FS_Subset, FS_CardinalityType
<1>2. ASSUME NEW x \in S \ T
      PROVE  /\ Cardinality(T \cup {x}) = Cardinality(T) + 1
             /\ Cardinality(T) + 1 <= Cardinality(S)
  <2>1. Cardinality(T \cup {x}) = Cardinality(T) + 1
    BY <1>1, FS_AddElement
  <2>2. T \cup {x} \subseteq S
    OBVIOUS
  <2> QED  BY <1>1, <2>1, <2>2
<1> QED  BY <1>1, <1>2, FS_CardinalityType

\* The state is typed, but for the count of fetches.
LEMMA StoppedTyped ==
  ASSUME source \in Sources
  PROVE  Stopped \in Crawler /\ Stopped.pc = "idle" /\ Stopped.emitted = {} /\ Stopped.fetched = 0
         /\ Stopped.task = [u \in Urls |-> "none"]
<1>1. MaxDepth \in Nat /\ Cardinality(Urls) \in Nat /\ Depths = 0..MaxDepth
  BY SourceFacts
<1>2. /\ 0 \in 0..(MaxDepth + 1) /\ 0 \in 0..Cardinality(Urls)
      /\ [d \in 0..MaxDepth |-> {}] \in [Depths -> SUBSET Urls]
      /\ [u \in Urls |-> "none"] \in [Urls -> Stages]
      /\ [u \in Urls |-> Gone] \in [Urls -> Contents \cup {Gone}]
  BY <1>1 DEF Stages
<1> QED  BY <1>2 DEF Stopped, Crawler

Typed ==
  /\ site.is \in [Urls -> Contents \cup {Gone}] /\ site.changes \in 0..source.changes
  /\ pages \in [Urls -> Page] /\ doc \in [Urls -> Document]
  /\ job.id \in 0..source.jobs /\ job.active \in BOOLEAN /\ job.full \in BOOLEAN
  /\ job.present \subseteq Urls /\ crawl \in Crawler

LEMMA TypedState == TypeOK => Typed
  BY DEF TypeOK, Typed

LEMMA CrawlerFacts ==
  ASSUME source \in Sources, TypeOK
  PROVE  /\ crawl.pc \in {"idle", "crawling"} /\ crawl.level \in 0..(MaxDepth + 1)
         /\ crawl.visited \subseteq Urls /\ crawl.skip \subseteq Urls
         /\ crawl.frontier \in [Depths -> SUBSET Urls] /\ crawl.task \in [Urls -> Stages]
         /\ crawl.got \in [Urls -> Contents \cup {Gone}] /\ crawl.emitted \subseteq Urls
         /\ crawl.fetched \in 0..Cardinality(Urls) /\ crawl.fetched \in Nat
         /\ crawl.sawDoc \in BOOLEAN
         /\ crawl.level \in Nat /\ (crawl.level <= MaxDepth <=> crawl.level \in Depths)
         /\ \A d \in Depths : crawl.frontier[d] \subseteq Urls
<1>1. /\ crawl.pc \in {"idle", "crawling"} /\ crawl.level \in 0..(MaxDepth + 1)
      /\ crawl.visited \subseteq Urls /\ crawl.skip \subseteq Urls
      /\ crawl.frontier \in [Depths -> SUBSET Urls] /\ crawl.task \in [Urls -> Stages]
      /\ crawl.got \in [Urls -> Contents \cup {Gone}] /\ crawl.emitted \subseteq Urls
      /\ crawl.fetched \in 0..Cardinality(Urls) /\ crawl.sawDoc \in BOOLEAN
  BY DEF TypeOK, Crawler
<1> QED  BY <1>1, SourceFacts

-----------------------------------------------------------------------------
(* One page at work: a step of process, but for the expansion of its links.  *)

\* The page of a step of process: in the frontier, at the level of the crawl.
LEMMA AtWork ==
  ASSUME IInv, NEW u \in source.urls, u \in Queued \/ crawl.task[u] \in {"emit", "put", "upsert", "expand"}
  PROVE  /\ u \in Urls /\ crawl.pc = "crawling" /\ crawl.level \in Depths /\ job.active /\ job.id > 0
         /\ crawl.task[u] # "done" /\ Met(u)
         /\ (u \in Queued => crawl.task[u] = "none" /\ u \notin crawl.skip /\ u \notin Tasked)
<1>1. source \in Sources /\ TypeOK /\ FrontierSound /\ SeriesSound
  BY DEF IInv
<1>2. u \in Urls /\ crawl.task \in [Urls -> Stages] /\ 0 \in Depths
  BY <1>1, CrawlerFacts, SourceFacts
<1>3. crawl.pc = "crawling"
  <2> SUFFICES ASSUME crawl = Stopped PROVE FALSE
    BY <1>1, CrawlerFacts DEF FrontierSound
  <2>1. Stopped.task[u] = "none" /\ \A d \in Depths : Stopped.frontier[d] = {}
    BY <1>2 DEF Stopped, Depths
  <2> QED  BY <2>1 DEF Queued
<1>4. CASE u \in Queued
  <2>1. /\ crawl.level \in Depths /\ u \in crawl.frontier[crawl.level] /\ crawl.task[u] = "none"
        /\ u \notin crawl.skip
    BY <1>4 DEF Queued
  <2> QED  BY <1>1, <1>2, <1>3, <2>1 DEF FrontierSound, SeriesSound, Met, Tasked
<1>5. CASE u \notin Queued
  <2>1. u \in Tasked /\ crawl.task[u] # "done"
    BY <1>2, <1>5 DEF Tasked
  <2> QED  BY <1>1, <1>2, <1>3, <1>5, <2>1 DEF FrontierSound, SeriesSound
<1> QED  BY <1>4, <1>5

\* The count of a page that is taken stays a count of pages.
LEMMA CountOne ==
  ASSUME IInv, NEW u \in source.urls, u \notin Tasked
  PROVE  /\ crawl.fetched + 1 \in 0..Cardinality(Urls)
         /\ crawl.fetched + 1 <= Cardinality(source.urls)
<1>1. source \in Sources /\ TypeOK /\ Tasked \subseteq source.urls /\ crawl.fetched <= Cardinality(Tasked)
  BY DEF IInv, FetchSound
<1>2. source.urls \subseteq Urls /\ IsFiniteSet(Urls) /\ crawl.fetched \in Nat
  BY <1>1, SourceFacts, CrawlerFacts
<1>3. /\ IsFiniteSet(source.urls) /\ Cardinality(source.urls) <= Cardinality(Urls)
      /\ Cardinality(source.urls) \in Nat /\ Cardinality(Urls) \in Nat
  BY <1>2, CountTasked
<1>4. Cardinality(Tasked) \in Nat /\ Cardinality(Tasked) + 1 <= Cardinality(source.urls)
  BY <1>1, <1>3, CountTasked
<1> QED  BY <1>1, <1>2, <1>3, <1>4

\* What a step at page u does and leaves alone.
Kept(u) ==
  /\ crawl'.pc = crawl.pc /\ crawl'.level = crawl.level /\ crawl'.visited = crawl.visited
  /\ crawl'.skip = crawl.skip /\ crawl'.frontier = crawl.frontier
  /\ \A v \in Urls \ {u} : crawl'.task[v] = crawl.task[v] /\ crawl'.got[v] = crawl.got[v]
Works(u, stage) == crawl' \in Crawler /\ Kept(u) /\ crawl'.task[u] = stage

LEMMA GotoWorks ==
  ASSUME IInv, NEW u \in Urls, NEW stage \in Stages, Goto(u, stage)
  PROVE  /\ Works(u, stage) /\ crawl'.fetched = crawl.fetched /\ crawl'.emitted = crawl.emitted
         /\ crawl'.got = crawl.got
<1>1. crawl \in Crawler
  BY TypedState DEF IInv, Typed
<1>2. crawl.task \in [Urls -> Stages]
  BY <1>1 DEF Crawler
<1>3. crawl' \in Crawler
  BY <1>1, <1>2 DEF Goto, Crawler
<1> QED  BY <1>1, <1>2, <1>3 DEF Works, Kept, Goto, Crawler

LEMMA CountWorks ==
  ASSUME IInv, NEW u \in Urls, NEW n \in 0..Cardinality(Urls),
         crawl' = [crawl EXCEPT !.task[u] = "done", !.fetched = n]
  PROVE  /\ Works(u, "done") /\ crawl'.fetched = n /\ crawl'.emitted = crawl.emitted
         /\ crawl'.got = crawl.got
<1>1. crawl \in Crawler
  BY TypedState DEF IInv, Typed
<1>2. crawl.task \in [Urls -> Stages] /\ "done" \in Stages
  BY <1>1 DEF Crawler, Stages
<1>3. crawl' \in Crawler
  BY <1>1, <1>2 DEF Crawler
<1> QED  BY <1>1, <1>2, <1>3 DEF Works, Kept, Crawler

LEMMA FetchWorks ==
  ASSUME IInv, NEW u \in Urls, NEW n \in 0..Cardinality(Urls), NEW c \in Contents,
         crawl' = [crawl EXCEPT !.task[u] = "emit", !.got[u] = c, !.fetched = n]
  PROVE  /\ Works(u, "emit") /\ crawl'.fetched = n /\ crawl'.emitted = crawl.emitted
         /\ crawl'.got[u] = c
<1>1. crawl \in Crawler
  BY TypedState DEF IInv, Typed
<1>2. crawl.task \in [Urls -> Stages] /\ "emit" \in Stages /\ crawl.got \in [Urls -> Contents \cup {Gone}]
  BY <1>1 DEF Crawler, Stages
<1>3. crawl' \in Crawler
  BY <1>1, <1>2 DEF Crawler
<1> QED  BY <1>1, <1>2, <1>3 DEF Works, Kept, Crawler

LEMMA EmitWorks ==
  ASSUME IInv, NEW u \in Urls, NEW stage \in Stages, NEW S \in SUBSET Urls,
         crawl' = [crawl EXCEPT !.task[u] = stage, !.emitted = S]
  PROVE  Works(u, stage) /\ crawl'.fetched = crawl.fetched /\ crawl'.emitted = S /\ crawl'.got = crawl.got
<1>1. crawl \in Crawler
  BY TypedState DEF IInv, Typed
<1>2. crawl.task \in [Urls -> Stages]
  BY <1>1 DEF Crawler
<1>3. crawl' \in Crawler
  BY <1>1, <1>2 DEF Crawler
<1> QED  BY <1>1, <1>2, <1>3 DEF Works, Kept, Crawler

LEMMA PutWorks ==
  ASSUME IInv, NEW u \in Urls, crawl' = [crawl EXCEPT !.task[u] = "upsert", !.sawDoc = TRUE]
  PROVE  /\ Works(u, "upsert") /\ crawl'.fetched = crawl.fetched /\ crawl'.emitted = crawl.emitted
         /\ crawl'.got = crawl.got
<1>1. crawl \in Crawler
  BY TypedState DEF IInv, Typed
<1>2. crawl.task \in [Urls -> Stages] /\ "upsert" \in Stages
  BY <1>1 DEF Crawler, Stages
<1>3. crawl' \in Crawler
  BY <1>1, <1>2 DEF Crawler
<1> QED  BY <1>1, <1>2, <1>3 DEF Works, Kept, Crawler

\* The row of page u may be written as fetched by this job.
RowWritten(u) ==
  /\ pages' \in [Urls -> Page] /\ \A v \in Urls \ {u} : pages'[v] = pages[v]
  /\ pages'[u] # pages[u] => pages'[u].known /\ pages'[u].fetchedIn = job.id

AtStep(u) == u \in source.urls /\ (u \in Queued \/ crawl.task[u] \in {"emit", "put", "upsert", "expand"})

LEMMA FrontierKept ==
  ASSUME IInv, NEW u, AtStep(u), NEW stage \in Stages \ {"none"}, Works(u, stage), RowWritten(u),
         UNCHANGED <<source, job>>
  PROVE  FrontierSound'
<1>1. source \in Sources /\ TypeOK /\ FrontierSound
  BY DEF IInv
<1>2. /\ u \in Urls /\ crawl.pc = "crawling" /\ crawl.level \in Depths /\ job.active
      /\ crawl.task[u] # "done" /\ Met(u) /\ u \in source.urls
  BY AtWork DEF AtStep
<1>3. Depths' = Depths /\ Seeds' = Seeds
  BY SameSource
<1>4. /\ crawl'.pc = crawl.pc /\ crawl'.level = crawl.level /\ crawl'.visited = crawl.visited
      /\ crawl'.skip = crawl.skip /\ crawl'.frontier = crawl.frontier /\ crawl'.task[u] = stage
      /\ \A v \in Urls \ {u} : crawl'.task[v] = crawl.task[v]
  BY DEF Works, Kept
<1>5. \A v \in Urls : Met(v)' <=> Met(v)
  BY <1>3, <1>4 DEF Met
<1>6. ASSUME NEW v \in Urls, v \in Seeds \/ pages'[v].known \/ v \in Tasked'
      PROVE  Met(v)
  <2>1. CASE v = u
    BY <1>2, <2>1
  <2>2. CASE v # u
    BY <1>1, <1>2, <1>4, <1>6, <2>2 DEF RowWritten, FrontierSound, Tasked
  <2> QED  BY <2>1, <2>2
<1>7. ASSUME NEW d \in Depths, d < crawl.level, NEW v \in crawl.frontier[d]
      PROVE  GoneThrough(v)'
  <2>1. v \in Urls /\ GoneThrough(v)
    BY <1>1, <1>2, <1>7, CrawlerFacts DEF FrontierSound
  <2> QED  BY <1>2, <1>4, <2>1 DEF GoneThrough
<1>8. ASSUME NEW v \in crawl.skip
      PROVE  job'.full /\ pages'[v].fetchedIn = job'.id
  <2>1. v \in Urls /\ job.full /\ pages[v].fetchedIn = job.id
    BY <1>1, <1>2, CrawlerFacts DEF FrontierSound
  <2> QED  BY <2>1 DEF RowWritten
<1>9. \A v \in Urls : Met(v) => v \in crawl.visited
  BY <1>1, <1>2 DEF FrontierSound
<1> QED  BY <1>2, <1>3, <1>4, <1>5, <1>6, <1>7, <1>8, <1>9 DEF FrontierSound

LEMMA FetchKept ==
  ASSUME IInv, NEW u, AtStep(u), NEW stage \in Stages \ {"none"}, Works(u, stage), source' = source,
         \/ crawl'.fetched = crawl.fetched
         \/ u \in Queued /\ crawl'.fetched = crawl.fetched + 1,
         stage \in {"emit", "put", "upsert"} => crawl'.got[u] \in Contents
  PROVE  FetchSound'
<1>1. source \in Sources /\ TypeOK /\ FetchSound
  BY DEF IInv
<1>2. u \in Urls /\ u \in source.urls /\ (u \in Queued => u \notin Tasked)
  BY AtWork DEF AtStep
<1>3. /\ crawl'.task[u] = stage
      /\ \A v \in Urls \ {u} : crawl'.task[v] = crawl.task[v] /\ crawl'.got[v] = crawl.got[v]
  BY DEF Works, Kept
<1>4. Tasked' = Tasked \cup {u}
  BY <1>2, <1>3 DEF Tasked
<1>5. crawl.fetched \in Nat /\ source.urls \subseteq Urls /\ IsFiniteSet(Urls)
  BY <1>1, SourceFacts, CrawlerFacts
<1>6. IsFiniteSet(source.urls)
  BY <1>5, CountTasked
<1>7. /\ Cardinality(Tasked) \in Nat
      /\ u \notin Tasked => Cardinality(Tasked \cup {u}) = Cardinality(Tasked) + 1
  BY <1>1, <1>2, <1>6, CountTasked DEF FetchSound
<1>8. crawl'.fetched <= Cardinality(Tasked')
  <2>1. CASE u \in Tasked
    <3>1. Tasked' = Tasked
      BY <1>4, <2>1
    <3> QED  BY <1>1, <1>2, <2>1, <3>1 DEF FetchSound
  <2>2. CASE u \notin Tasked
    <3>1. crawl.fetched <= Cardinality(Tasked) /\ Cardinality(Tasked') = Cardinality(Tasked) + 1
      BY <1>1, <1>4, <1>7, <2>2 DEF FetchSound
    <3> QED  BY <1>5, <1>7, <3>1
  <2> QED  BY <2>1, <2>2
<1>9. Tasked' \subseteq source.urls
  BY <1>1, <1>2, <1>4 DEF FetchSound
<1>10. \A v \in Urls : crawl'.task[v] \in {"emit", "put", "upsert"} => crawl'.got[v] \in Contents
  BY <1>1, <1>3 DEF FetchSound
<1> QED  BY <1>8, <1>9, <1>10 DEF FetchSound

\* A step that is no emit.
LEMMA EmitKept ==
  ASSUME IInv, NEW u, AtStep(u), NEW stage \in Stages \ {"none", "put"}, Works(u, stage),
         source' = source, crawl'.emitted = crawl.emitted, stage = "emit" => u \in Queued
  PROVE  EmitSound' /\ OnePutPerCanonical'
<1>1. EmitSound /\ OnePutPerCanonical
  BY DEF IInv
<1>2. u \in Urls /\ (u \in Queued => crawl.task[u] = "none")
  BY AtWork DEF AtStep
<1>3. crawl'.task[u] = stage /\ \A v \in Urls \ {u} : crawl'.task[v] = crawl.task[v]
  BY DEF Works, Kept
<1>4. Canon' = Canon /\ \A v \in Urls : Unshared(v)' <=> Unshared(v)
  BY SameSource
<1>5. EmitSound'
  BY <1>1, <1>2, <1>3, <1>4 DEF EmitSound
<1>6. OnePutPerCanonical'
  BY <1>1, <1>2, <1>3, <1>4 DEF OnePutPerCanonical
<1> QED  BY <1>5, <1>6

\* A step that puts nothing, and records content only behind its Put.
LEMMA IngestKept ==
  ASSUME IInv, NEW u, AtStep(u), NEW stage \in Stages \ {"none"}, Works(u, stage), RowWritten(u),
         UNCHANGED <<source, doc>>,
         stage = "upsert" => "put" \in Faults,
         \/ pages'[u].hash \in {pages[u].hash, Gone}
         \/ crawl.task[u] = "upsert" /\ pages'[u].hash = crawl.got[u]
  PROVE  IngestSound' /\ HashMeansIngested'
<1>1. IngestSound /\ HashMeansIngested
  BY DEF IInv
<1>2. u \in Urls
  BY AtWork DEF AtStep
<1>3. /\ crawl'.task[u] = stage
      /\ \A v \in Urls \ {u} : crawl'.task[v] = crawl.task[v] /\ crawl'.got[v] = crawl.got[v]
      /\ \A v \in Urls \ {u} : pages'[v] = pages[v]
  BY DEF Works, Kept, RowWritten
<1>4. Canon' = Canon /\ Faults' = Faults /\ \A v \in Urls : Unshared(v)' <=> Unshared(v)
  BY SameSource
<1>5. IngestSound'
  BY <1>1, <1>2, <1>3, <1>4 DEF IngestSound
<1>6. HashMeansIngested'
  <2> SUFFICES ASSUME "put" \notin Faults, NEW v \in Urls, pages'[v].hash # Gone, Unshared(v)
               PROVE  pages'[v].hash \in doc'[Canon[v]].had
    BY <1>4 DEF HashMeansIngested
  <2>1. CASE v # u
    BY <1>1, <1>3, <2>1 DEF HashMeansIngested
  <2>2. CASE v = u
    BY <1>1, <1>2, <2>2 DEF HashMeansIngested, IngestSound
  <2> QED  BY <2>1, <2>2
<1> QED  BY <1>5, <1>6

\* A page there since a full job was created has its document seen when the step is done with it.
SeesDocument(u, stage) ==
  Faults \subseteq {"abort"} /\ Uncapped /\ Unshared(u) /\ job.full /\ u \in job.present \ Disallowed
    /\ (pages'[u].fetchedIn = job.id \/ stage \in {"upsert", "expand", "done"})
    => doc'[Canon[u]].seenIn = job.id

LEMMA SeriesKept ==
  ASSUME IInv, NEW u, AtStep(u), NEW stage \in Stages \ {"none"}, Works(u, stage), RowWritten(u),
         UNCHANGED <<source, site, job>>, SeesDocument(u, stage),
         \A x \in Urls : doc'[x].seenIn = doc[x].seenIn \/ doc'[x].seenIn = job.id,
         \A x \in Urls \ {Canon[u]} : doc'[x].status = doc[x].status
  PROVE  SeriesSound'
<1>1. source \in Sources /\ TypeOK /\ FrontierSound /\ SeriesSound
  BY DEF IInv
<1>2. u \in Urls /\ crawl.pc = "crawling" /\ Met(u)
  BY AtWork DEF AtStep
<1>3. /\ crawl'.visited = crawl.visited /\ crawl'.task[u] = stage
      /\ \A v \in Urls \ {u} : crawl'.task[v] = crawl.task[v]
      /\ \A v \in Urls \ {u} : pages'[v] = pages[v]
      /\ pages'[u] # pages[u] => pages'[u].known /\ pages'[u].fetchedIn = job.id
  BY DEF Works, Kept, RowWritten
<1>4. /\ Canon' = Canon /\ Faults' = Faults /\ Seeds' = Seeds /\ Disallowed' = Disallowed
      /\ Uncapped' = Uncapped /\ \A v \in Urls : Unshared(v)' <=> Unshared(v)
  BY SameSource
<1>5. job.id \in Nat /\ Canon \in [Urls -> Urls] /\ crawl.visited \subseteq Urls
  BY <1>1, SourceFacts, CrawlerFacts, TypedState DEF Typed
<1>6. \A v \in Urls : pages'[v].fetchedIn <= job.id
  BY <1>1, <1>3, <1>5 DEF SeriesSound
<1>7. \A v \in Urls : pages[v].known => pages'[v].known
  BY <1>3
<1>8. ASSUME Faults \subseteq {"abort"}, Uncapped
      PROVE  /\ \A v \in crawl.visited : v \in Seeds \/ pages'[v].known
             /\ \A v \in Urls : Unshared(v) =>
                  /\ doc'[Canon[v]].status = "active" => v \in Seeds \/ pages'[v].known
                  /\ job.full /\ v \in job.present \ Disallowed
                       /\ (pages'[v].fetchedIn = job.id \/ crawl'.task[v] \in {"upsert", "expand", "done"})
                       => doc'[Canon[v]].seenIn = job.id
  <2>1. \A v \in crawl.visited : v \in Seeds \/ pages'[v].known
    BY <1>1, <1>2, <1>5, <1>7, <1>8 DEF SeriesSound
  <2>2. ASSUME NEW v \in Urls, Unshared(v), doc'[Canon[v]].status = "active"
        PROVE  v \in Seeds \/ pages'[v].known
    <3>1. CASE v = u
      BY <1>1, <1>2, <2>1, <3>1 DEF FrontierSound
    <3>2. CASE v # u
      <4>1. Canon[v] \in Urls /\ Canon[v] # Canon[u]
        BY <1>2, <1>5, <2>2, <3>2 DEF Unshared
      <4>2. doc[Canon[v]].status = "active"
        BY <2>2, <4>1
      <4> QED  BY <1>1, <1>7, <1>8, <2>2, <4>2 DEF SeriesSound
    <3> QED  BY <3>1, <3>2
  <2>3. ASSUME NEW v \in Urls, Unshared(v), job.full, v \in job.present \ Disallowed,
               pages'[v].fetchedIn = job.id \/ crawl'.task[v] \in {"upsert", "expand", "done"}
        PROVE  doc'[Canon[v]].seenIn = job.id
    <3>1. CASE v = u
      BY <1>3, <1>8, <2>3, <3>1 DEF SeesDocument
    <3>2. CASE v # u
      <4>1. doc[Canon[v]].seenIn = job.id
        BY <1>1, <1>3, <1>8, <2>3, <3>2 DEF SeriesSound
      <4>2. Canon[v] \in Urls
        BY <1>5
      <4> QED  BY <4>1, <4>2
    <3> QED  BY <3>1, <3>2
  <2> QED  BY <2>1, <2>2, <2>3
<1> QED  BY <1>1, <1>3, <1>4, <1>6, <1>8 DEF SeriesSound

LEMMA TypesKept ==
  ASSUME IInv, NEW u, NEW stage, Works(u, stage), pages' \in [Urls -> Page], doc' \in [Urls -> Document],
         UNCHANGED <<source, site, job>>
  PROVE  TypeOK'
<1>1. TypeOK /\ Page' = Page /\ Document' = Document /\ Crawler' = Crawler
  BY SameSource DEF IInv
<1> QED  BY <1>1 DEF TypeOK, Works

\* The invariant, but for the source, which never changes.
Holds == TypeOK /\ FrontierSound /\ FetchSound /\ EmitSound /\ IngestSound
         /\ SeriesSound /\ OnePutPerCanonical /\ HashMeansIngested

-----------------------------------------------------------------------------
(* The steps of process.                                                     *)

\* A step that leaves pages and documents alone.
LEMMA RowUntouched ==
  ASSUME IInv, NEW u \in Urls, UNCHANGED <<source, pages>>
  PROVE  RowWritten(u)
  BY DEF RowWritten, IInv, TypeOK

LEMMA RowFetched ==
  ASSUME IInv, NEW u \in Urls, NEW c \in Contents \cup {Gone}, crawl.level \in Depths,
         PageFetched(u, c)
  PROVE  /\ RowWritten(u) /\ pages'[u].fetchedIn = job.id
         /\ pages'[u].hash = IF c = Gone THEN pages[u].hash ELSE c
<1>1. pages \in [Urls -> Page] /\ job.id \in 0..source.jobs /\ pages[u].hash \in Contents \cup {Gone}
  BY TypedState DEF IInv, Typed, Page
<1> DEFINE h == IF c = Gone THEN pages[u].hash ELSE c
           r == [known |-> TRUE, depth |-> crawl.level, fetchedIn |-> job.id, hash |-> h]
<1>2. r \in Page /\ r.known /\ r.fetchedIn = job.id /\ r.hash = h
  BY <1>1 DEF Page
<1>3. pages' = [pages EXCEPT ![u] = r]
  BY DEF PageFetched
<1> HIDE DEF r
<1> QED  BY <1>1, <1>2, <1>3 DEF RowWritten

LEMMA TakeSteps ==
  ASSUME IInv, NEW u \in source.urls, RobotsDisallow(u) \/ OverCap(u)
  PROVE  Holds'
<1>1. source \in Sources /\ TypeOK /\ UNCHANGED <<source, site, pages, doc, job>> /\ doc' \in [Urls -> Document]
  BY TypedState DEF IInv, RobotsDisallow, OverCap, Typed
<1>2. AtStep(u) /\ u \in Queued /\ u \in Urls
  BY AtWork DEF AtStep, RobotsDisallow, OverCap
<1>3. RowWritten(u) /\ pages' \in [Urls -> Page]
  BY <1>1, <1>2, RowUntouched DEF RowWritten
<1>4. "done" \in Stages \ {"none"}
  BY DEF Stages
<1>5. u \notin Tasked /\ crawl.fetched + 1 \in 0..Cardinality(Urls)
      /\ crawl.fetched + 1 <= Cardinality(source.urls)
  BY <1>2, AtWork, CountOne
<1>6. /\ Works(u, "done") /\ crawl'.emitted = crawl.emitted
      /\ crawl'.fetched = crawl.fetched \/ crawl'.fetched = crawl.fetched + 1
  <2>1. CASE RobotsDisallow(u)
    BY <1>2, <1>4, <2>1, GotoWorks DEF RobotsDisallow
  <2>2. CASE OverCap(u)
    BY <1>2, <1>5, <2>2, CountWorks DEF OverCap
  <2> QED  BY <2>1, <2>2
<1>7. SeesDocument(u, "done")
  <2>1. CASE RobotsDisallow(u)
    BY <2>1 DEF SeesDocument, RobotsDisallow
  <2>2. CASE OverCap(u)
    <3>1. crawl.fetched \in Nat /\ MaxPages \in Nat /\ Cardinality(source.urls) \in Nat
      BY <1>1, SourceFacts, CrawlerFacts, CountTasked
    <3>2. ~Uncapped
      BY <1>5, <2>2, <3>1 DEF OverCap, Uncapped
    <3> QED  BY <3>2 DEF SeesDocument
  <2> QED  BY <2>1, <2>2
<1>8. TypeOK'
  BY <1>1, <1>3, <1>6, TypesKept
<1>9. FrontierSound' /\ FetchSound' /\ EmitSound' /\ OnePutPerCanonical'
  BY <1>1, <1>2, <1>3, <1>4, <1>6, FrontierKept, FetchKept, EmitKept
<1>10. IngestSound' /\ HashMeansIngested'
  BY <1>1, <1>2, <1>3, <1>4, <1>6, IngestKept
<1>11. SeriesSound'
  BY <1>1, <1>2, <1>3, <1>4, <1>6, <1>7, SeriesKept
<1> QED  BY <1>8, <1>9, <1>10, <1>11 DEF Holds

\* An error, or an unchanged page: neither puts nor records new content.
LEMMA AnswerSteps ==
  ASSUME IInv, NEW u \in source.urls, FetchFails(u) \/ FetchUnchanged(u)
  PROVE  Holds'
<1>1. source \in Sources /\ TypeOK /\ UNCHANGED <<source, site, doc, job>> /\ doc' \in [Urls -> Document]
  BY TypedState DEF IInv, FetchFails, FetchUnchanged, Typed
<1>2. AtStep(u) /\ u \in Queued /\ u \in Urls /\ crawl.level \in Depths
  BY AtWork DEF AtStep, FetchFails, FetchUnchanged, Admitted
<1>3. PICK c \in Contents \cup {Gone} : TryPageFetched(u, c) /\ c \in {Gone, pages[u].hash}
  BY <1>1, <1>2, TypedState DEF Typed, FetchFails, FetchUnchanged, Unchanged
<1>4. RowWritten(u) /\ pages' \in [Urls -> Page] /\ pages'[u].hash = pages[u].hash
  <2>1. CASE PageFetched(u, c)
    BY <1>2, <1>3, <2>1, RowFetched DEF RowWritten
  <2>2. CASE UNCHANGED pages
    BY <1>1, <1>2, <2>2, RowUntouched DEF RowWritten
  <2> QED  BY <1>3, <2>1, <2>2 DEF TryPageFetched
<1>5. "done" \in Stages \ {"none"}
  BY DEF Stages
<1>6. crawl.fetched + 1 \in 0..Cardinality(Urls)
  BY <1>2, AtWork, CountOne
<1>7. Works(u, "done") /\ crawl'.emitted = crawl.emitted /\ crawl'.fetched = crawl.fetched + 1
  BY <1>2, <1>6, CountWorks DEF FetchFails, FetchUnchanged
<1>8. SeesDocument(u, "done")
  <2>1. CASE FetchFails(u)
    <3>1. site.is[u] = Gone \/ "fetch" \in Faults
      BY <2>1 DEF FetchFails
    <3>2. u \in job.present => site.is[u] # Gone
      BY DEF IInv, SeriesSound
    <3> QED  BY <3>1, <3>2 DEF SeesDocument
  <2>2. CASE FetchUnchanged(u)
    BY <2>2 DEF SeesDocument, FetchUnchanged, Unchanged
  <2> QED  BY <2>1, <2>2
<1>9. TypeOK'
  BY <1>1, <1>4, <1>7, TypesKept
<1>10. FrontierSound' /\ FetchSound' /\ EmitSound' /\ OnePutPerCanonical'
  BY <1>1, <1>2, <1>4, <1>5, <1>7, FrontierKept, FetchKept, EmitKept
<1>11. IngestSound' /\ HashMeansIngested'
  BY <1>1, <1>2, <1>4, <1>5, <1>7, IngestKept
<1>12. SeriesSound'
  BY <1>1, <1>2, <1>4, <1>5, <1>7, <1>8, SeriesKept
<1> QED  BY <1>9, <1>10, <1>11, <1>12 DEF Holds

LEMMA FetchStep ==
  ASSUME IInv, NEW u \in source.urls, Fetch(u)
  PROVE  Holds'
<1>1. source \in Sources /\ TypeOK /\ UNCHANGED <<source, site, pages, doc, job>> /\ doc' \in [Urls -> Document]
  BY TypedState DEF IInv, Fetch, Typed
<1>2. AtStep(u) /\ u \in Queued /\ u \in Urls /\ crawl.task[u] = "none"
  BY AtWork DEF AtStep, Fetch, Admitted
<1>3. RowWritten(u) /\ pages' \in [Urls -> Page]
  BY <1>1, <1>2, RowUntouched DEF RowWritten
<1>4. "emit" \in Stages \ {"none"}
  BY DEF Stages
<1>5. crawl.fetched + 1 \in 0..Cardinality(Urls)
  BY <1>2, AtWork, CountOne
<1>6. site.is[u] \in Contents
  BY <1>1, <1>2, TypedState DEF Typed, Fetch
<1>7. /\ Works(u, "emit") /\ crawl'.emitted = crawl.emitted /\ crawl'.fetched = crawl.fetched + 1
      /\ crawl'.got[u] \in Contents
  <2>1. crawl' = [crawl EXCEPT !.task[u] = "emit", !.got[u] = site.is[u], !.fetched = crawl.fetched + 1]
    BY DEF Fetch
  <2> DEFINE c == site.is[u]
             n == crawl.fetched + 1
  <2>2. /\ c \in Contents /\ n \in 0..Cardinality(Urls)
        /\ crawl' = [crawl EXCEPT !.task[u] = "emit", !.got[u] = c, !.fetched = n]
    BY <1>5, <1>6, <2>1
  <2> HIDE DEF c, n
  <2>3. Works(u, "emit") /\ crawl'.fetched = n /\ crawl'.emitted = crawl.emitted /\ crawl'.got[u] = c
    BY <1>2, <2>2, FetchWorks
  <2> QED  BY <1>6, <2>3 DEF c, n
<1>8. SeesDocument(u, "emit")
  BY <1>1, <1>2 DEF SeesDocument, IInv, SeriesSound
<1>9. TypeOK'
  BY <1>1, <1>3, <1>7, TypesKept
<1>10. FrontierSound' /\ FetchSound' /\ EmitSound' /\ OnePutPerCanonical'
  BY <1>1, <1>2, <1>3, <1>4, <1>7, FrontierKept, FetchKept, EmitKept
<1>11. IngestSound' /\ HashMeansIngested'
  BY <1>1, <1>2, <1>3, <1>4, <1>7, IngestKept
<1>12. SeriesSound'
  BY <1>1, <1>2, <1>3, <1>4, <1>7, <1>8, SeriesKept
<1> QED  BY <1>9, <1>10, <1>11, <1>12 DEF Holds

\* A canonical URL that is not in the emitted set joins it with its first Put.
LEMMA EmitStep ==
  ASSUME IInv, NEW u \in source.urls, Emit(u)
  PROVE  Holds'
<1>1. source \in Sources /\ TypeOK /\ UNCHANGED <<source, site, pages, doc, job>> /\ doc' \in [Urls -> Document]
  BY TypedState DEF IInv, Emit, Typed
<1>2. AtStep(u) /\ u \in Urls /\ crawl.task[u] = "emit"
  BY AtWork DEF AtStep, Emit
<1>3. RowWritten(u) /\ pages' \in [Urls -> Page]
  BY <1>1, <1>2, RowUntouched DEF RowWritten
<1> DEFINE stage == IF Canon[u] \in crawl.emitted THEN "upsert" ELSE "put"
<1>4. stage \in Stages \ {"none"}
  BY DEF Stages
<1>5. Canon \in [Urls -> Urls] /\ crawl.emitted \cup {Canon[u]} \in SUBSET Urls
  BY <1>1, <1>2, SourceFacts, CrawlerFacts
<1>6. /\ Works(u, stage) /\ crawl'.emitted = crawl.emitted \cup {Canon[u]}
      /\ crawl'.fetched = crawl.fetched /\ crawl'.got = crawl.got
  BY <1>2, <1>4, <1>5, EmitWorks DEF Emit
<1>7. crawl'.task[u] = stage /\ \A v \in Urls \ {u} : crawl'.task[v] = crawl.task[v]
  BY <1>6 DEF Works, Kept
<1>8. /\ Canon' = Canon /\ Faults' = Faults /\ \A v \in Urls : Unshared(v)' <=> Unshared(v)
  BY <1>1, SameSource
<1>9. Unshared(u) => stage = "put"
  BY <1>2 DEF IInv, EmitSound
<1>10. TypeOK'
  BY <1>1, <1>3, <1>6, TypesKept
<1>11. FrontierSound' /\ FetchSound'
  <2>1. crawl'.got[u] \in Contents
    BY <1>2, <1>6 DEF IInv, FetchSound
  <2>2. FrontierSound'
    BY <1>1, <1>2, <1>3, <1>4, <1>6, FrontierKept
  <2> QED  BY <1>1, <1>2, <1>4, <1>6, <2>1, <2>2, FetchKept
<1>12. EmitSound'
  <2>1. ASSUME NEW v \in Urls, crawl'.task[v] = "put" PROVE Canon[v] \in crawl'.emitted
    BY <1>6, <1>7, <2>1 DEF IInv, EmitSound
  <2>2. ASSUME NEW v \in Urls, Unshared(v), Canon[v] \in crawl'.emitted
        PROVE  crawl'.task[v] \notin {"none", "emit"}
    <3>1. CASE v = u
      BY <1>7, <3>1
    <3>2. CASE v # u
      <4>1. Canon[v] # Canon[u]
        BY <1>2, <2>2, <3>2 DEF Unshared
      <4> QED  BY <1>6, <1>7, <2>2, <3>2, <4>1 DEF IInv, EmitSound
    <3> QED  BY <3>1, <3>2
  <2> QED  BY <1>8, <2>1, <2>2 DEF EmitSound
<1>13. OnePutPerCanonical'
  <2> SUFFICES ASSUME NEW v \in Urls, NEW w \in Urls, v # w, crawl'.task[v] = "put", crawl'.task[w] = "put"
               PROVE  Canon[v] # Canon[w]
    BY <1>8 DEF OnePutPerCanonical
  <2>1. \A x \in Urls : crawl.task[x] = "put" => Canon[x] \in crawl.emitted
    BY DEF IInv, EmitSound
  <2>2. CASE v = u \/ w = u
    BY <1>7, <2>1, <2>2
  <2>3. CASE v # u /\ w # u
    BY <1>7, <2>3 DEF IInv, OnePutPerCanonical
  <2> QED  BY <2>2, <2>3
<1>14. IngestSound' /\ HashMeansIngested'
  <2>1. ASSUME NEW v \in Urls, "put" \notin Faults, Unshared(v), crawl'.task[v] = "upsert"
        PROVE  crawl'.got[v] \in doc'[Canon[v]].had
    BY <1>1, <1>6, <1>7, <1>9, <2>1 DEF IInv, IngestSound
  <2> QED  BY <1>1, <1>8, <2>1 DEF IInv, IngestSound, HashMeansIngested
<1>15. SeriesSound'
  <2>1. SeesDocument(u, stage)
    BY <1>1, <1>2, <1>9 DEF SeesDocument, IInv, SeriesSound
  <2> QED  BY <1>1, <1>2, <1>3, <1>4, <1>6, <2>1, SeriesKept
<1> QED  BY <1>10, <1>11, <1>12, <1>13, <1>14, <1>15 DEF Holds

\* The document's history grows by the content of its page.
LEMMA PutStep ==
  ASSUME IInv, NEW u \in source.urls, Put(u)
  PROVE  Holds'
<1>1. source \in Sources /\ TypeOK /\ UNCHANGED <<source, site, pages, job>>
  BY DEF IInv, Put
<1>2. AtStep(u) /\ u \in Urls /\ crawl.task[u] = "put"
  BY AtWork DEF AtStep, Put
<1>3. RowWritten(u) /\ pages' \in [Urls -> Page]
  BY <1>1, <1>2, RowUntouched DEF RowWritten
<1>4. "upsert" \in Stages \ {"none"}
  BY DEF Stages
<1>5. /\ Canon \in [Urls -> Urls] /\ Canon[u] \in Urls /\ doc \in [Urls -> Document]
      /\ job.id \in 0..source.jobs /\ crawl.got[u] \in Contents
  BY <1>1, <1>2, SourceFacts, TypedState DEF Typed, IInv, FetchSound
<1>6. /\ Works(u, "upsert") /\ crawl'.emitted = crawl.emitted
      /\ crawl'.fetched = crawl.fetched /\ crawl'.got = crawl.got
  BY <1>2, PutWorks DEF Put
<1> DEFINE had == doc[Canon[u]].had \cup {crawl.got[u]}
           r == [status |-> "active", hash |-> crawl.got[u], seenIn |-> job.id, had |-> had]
<1>7. r \in Document /\ r.seenIn = job.id /\ doc[Canon[u]].had \subseteq r.had /\ crawl.got[u] \in r.had
  <2>1. doc[Canon[u]].had \subseteq Contents
    BY <1>5 DEF Document
  <2>2. had \subseteq Contents
    BY <1>5, <2>1
  <2> HIDE DEF had
  <2>3. r \in Document /\ r.seenIn = job.id /\ r.had = had
    BY <1>5, <2>2 DEF Document
  <2> QED  BY <2>3 DEF had
<1>8. doc' = [doc EXCEPT ![Canon[u]] = r]
  BY DEF Put
<1> HIDE DEF r
<1>9. /\ doc' \in [Urls -> Document] /\ doc'[Canon[u]] = r
      /\ \A x \in Urls \ {Canon[u]} : doc'[x] = doc[x]
  BY <1>5, <1>7, <1>8
<1>10. \A x \in Urls : doc[x].had \subseteq doc'[x].had
  BY <1>7, <1>9
<1>11. crawl'.task[u] = "upsert" /\ \A v \in Urls \ {u} : crawl'.task[v] = crawl.task[v]
  BY <1>6 DEF Works, Kept
<1>12. /\ Canon' = Canon /\ Faults' = Faults /\ \A v \in Urls : Unshared(v)' <=> Unshared(v)
  BY <1>1, SameSource
<1>13. TypeOK'
  BY <1>1, <1>3, <1>6, <1>9, TypesKept
<1>14. FrontierSound' /\ FetchSound' /\ EmitSound' /\ OnePutPerCanonical'
  BY <1>1, <1>2, <1>3, <1>4, <1>5, <1>6, FrontierKept, FetchKept, EmitKept
<1>15. IngestSound'
  <2> SUFFICES ASSUME "put" \notin Faults, NEW v \in Urls, Unshared(v), crawl'.task[v] = "upsert"
               PROVE  crawl.got[v] \in doc'[Canon[v]].had
    BY <1>6, <1>12 DEF IngestSound
  <2>1. CASE v = u
    BY <1>7, <1>9, <2>1
  <2>2. CASE v # u
    <3>1. crawl.got[v] \in doc[Canon[v]].had
      BY <1>11, <2>2 DEF IInv, IngestSound
    <3> QED  BY <1>5, <1>10, <3>1
  <2> QED  BY <2>1, <2>2
<1>16. HashMeansIngested'
  <2> SUFFICES ASSUME "put" \notin Faults, NEW v \in Urls, pages[v].hash # Gone, Unshared(v)
               PROVE  pages[v].hash \in doc'[Canon[v]].had
    BY <1>1, <1>12 DEF HashMeansIngested
  <2>1. pages[v].hash \in doc[Canon[v]].had
    BY DEF IInv, HashMeansIngested
  <2> QED  BY <1>5, <1>10, <2>1
<1>17. SeriesSound'
  <2>1. SeesDocument(u, "upsert")
    BY <1>7, <1>9 DEF SeesDocument
  <2> QED  BY <1>1, <1>2, <1>3, <1>4, <1>6, <1>7, <1>9, <2>1, SeriesKept
<1> QED  BY <1>13, <1>14, <1>15, <1>16, <1>17 DEF Holds

LEMMA PutFailsStep ==
  ASSUME IInv, NEW u \in source.urls, PutFails(u)
  PROVE  Holds'
<1>1. source \in Sources /\ TypeOK /\ UNCHANGED <<source, site, pages, doc, job>> /\ doc' \in [Urls -> Document]
      /\ "put" \in Faults
  BY TypedState DEF IInv, PutFails, Typed
<1>2. AtStep(u) /\ u \in Urls
  BY AtWork DEF AtStep, PutFails
<1>3. RowWritten(u) /\ pages' \in [Urls -> Page]
  BY <1>1, <1>2, RowUntouched DEF RowWritten
<1>4. "upsert" \in Stages \ {"none"}
  BY DEF Stages
<1>5. /\ Works(u, "upsert") /\ crawl'.emitted = crawl.emitted
      /\ crawl'.fetched = crawl.fetched /\ crawl'.got[u] \in Contents
  BY <1>2, PutWorks DEF PutFails, IInv, FetchSound
<1>6. SeesDocument(u, "upsert")
  BY <1>1 DEF SeesDocument
<1>7. TypeOK'
  BY <1>1, <1>3, <1>5, TypesKept
<1>8. FrontierSound' /\ FetchSound' /\ EmitSound' /\ OnePutPerCanonical'
  BY <1>1, <1>2, <1>3, <1>4, <1>5, FrontierKept, FetchKept, EmitKept
<1>9. IngestSound' /\ HashMeansIngested'
  BY <1>1, <1>2, <1>3, <1>4, <1>5, IngestKept
<1>10. SeriesSound'
  BY <1>1, <1>2, <1>3, <1>4, <1>5, <1>6, SeriesKept
<1> QED  BY <1>7, <1>8, <1>9, <1>10 DEF Holds

LEMMA UpsertStep ==
  ASSUME IInv, NEW u \in source.urls, Upsert(u)
  PROVE  Holds'
<1>1. source \in Sources /\ TypeOK /\ UNCHANGED <<source, site, doc, job>> /\ doc' \in [Urls -> Document]
  BY TypedState DEF IInv, Upsert, Typed
<1>2. AtStep(u) /\ u \in Urls /\ crawl.level \in Depths /\ crawl.task[u] = "upsert"
  BY AtWork DEF AtStep, Upsert
<1>3. crawl.got[u] \in Contents /\ crawl.got[u] # Gone
  BY <1>1, <1>2, SourceFacts DEF IInv, FetchSound
<1>4. RowWritten(u) /\ pages' \in [Urls -> Page] /\ pages'[u].hash = crawl.got[u]
  BY <1>2, <1>3, RowFetched DEF Upsert, RowWritten
<1>5. "expand" \in Stages \ {"none"}
  BY DEF Stages
<1>6. /\ Works(u, "expand") /\ crawl'.emitted = crawl.emitted
      /\ crawl'.fetched = crawl.fetched /\ crawl'.got = crawl.got
  BY <1>2, <1>5, GotoWorks DEF Upsert
<1>7. SeesDocument(u, "expand")
  BY <1>1, <1>2 DEF SeesDocument, IInv, SeriesSound
<1>8. TypeOK'
  BY <1>1, <1>4, <1>6, TypesKept
<1>9. FrontierSound' /\ FetchSound' /\ EmitSound' /\ OnePutPerCanonical'
  BY <1>1, <1>2, <1>4, <1>5, <1>6, FrontierKept, FetchKept, EmitKept
<1>10. IngestSound' /\ HashMeansIngested'
  BY <1>1, <1>2, <1>4, <1>5, <1>6, IngestKept
<1>11. SeriesSound'
  BY <1>1, <1>2, <1>4, <1>5, <1>6, <1>7, SeriesKept
<1> QED  BY <1>8, <1>9, <1>10, <1>11 DEF Holds

-----------------------------------------------------------------------------
(* The expansion: new links join the next level, and some rows are written.  *)

LEMMA ExpandWorks ==
  ASSUME IInv, NEW u \in source.urls, Expand(u)
  PROVE  /\ UNCHANGED <<source, site, doc, job>> /\ crawl' \in Crawler
         /\ u \in Urls /\ crawl.pc = "crawling" /\ crawl.level \in Depths /\ Met(u) /\ u \in Tasked
         /\ job.active /\ job.id > 0 /\ crawl.task[u] = "expand" /\ crawl'.task[u] = "done"
         /\ \A v \in Urls \ {u} : crawl'.task[v] = crawl.task[v]
         /\ crawl'.got = crawl.got /\ crawl'.emitted = crawl.emitted /\ crawl'.fetched = crawl.fetched
         /\ crawl'.pc = crawl.pc /\ crawl'.level = crawl.level /\ crawl'.skip = crawl.skip
         /\ NewLinks(u) \subseteq Urls \ crawl.visited
         /\ NewLinks(u) # {} => crawl.level + 1 \in Depths
         /\ crawl'.visited = crawl.visited \cup NewLinks(u)
         /\ \A d \in Depths : crawl'.frontier[d] =
              IF d = crawl.level + 1 THEN crawl.frontier[d] \cup NewLinks(u) ELSE crawl.frontier[d]
<1>1. source \in Sources /\ TypeOK /\ crawl \in Crawler
  BY TypedState DEF IInv, Typed
<1>2. /\ u \in Urls /\ crawl.pc = "crawling" /\ crawl.level \in Depths /\ Met(u) /\ job.active
      /\ job.id > 0 /\ crawl.task[u] = "expand" /\ u \in Tasked
  BY AtWork DEF Expand, Tasked
<1>3. NewLinks(u) \subseteq Urls \ crawl.visited /\ (NewLinks(u) # {} => crawl.level + 1 \in Depths)
  BY <1>1, <1>2, SourceFacts DEF NewLinks
<1> DEFINE fr == [d \in Depths |-> IF d = crawl.level + 1 THEN crawl.frontier[d] \cup NewLinks(u)
                                                           ELSE crawl.frontier[d]]
           vis == crawl.visited \cup NewLinks(u)
<1>4. fr \in [Depths -> SUBSET Urls] /\ vis \subseteq Urls
  BY <1>1, <1>3, CrawlerFacts
<1>5. crawl' = [crawl EXCEPT !.task[u] = "done", !.visited = vis, !.frontier = fr]
  BY DEF Expand
<1>6. \A d \in Depths : fr[d] =
              IF d = crawl.level + 1 THEN crawl.frontier[d] \cup NewLinks(u) ELSE crawl.frontier[d]
  OBVIOUS
<1>7. crawl.task \in [Urls -> Stages] /\ "done" \in Stages
  BY <1>1 DEF Crawler, Stages
<1> HIDE DEF fr
<1>8. /\ crawl' \in Crawler /\ crawl'.task = [crawl.task EXCEPT ![u] = "done"]
      /\ crawl'.got = crawl.got /\ crawl'.emitted = crawl.emitted /\ crawl'.fetched = crawl.fetched
      /\ crawl'.pc = crawl.pc /\ crawl'.level = crawl.level /\ crawl'.skip = crawl.skip
      /\ crawl'.visited = vis /\ crawl'.frontier = fr
  BY <1>1, <1>4, <1>5, <1>7 DEF Crawler
<1>9. UNCHANGED <<source, site, doc, job>>
  BY DEF Expand
<1> QED  BY <1>2, <1>3, <1>6, <1>7, <1>8, <1>9

LEMMA ExpandRows ==
  ASSUME IInv, NEW u \in source.urls, Expand(u)
  PROVE  /\ pages' \in [Urls -> Page]
         /\ \A l \in Urls : \/ pages'[l] = pages[l]
                            \/ /\ l \in NewLinks(u) /\ pages'[l].known /\ pages'[l].depth = crawl.level + 1
                               /\ pages'[l].fetchedIn = 0 /\ pages'[l].hash = Gone
<1>1. source \in Sources /\ TypeOK /\ pages \in [Urls -> Page]
  BY TypedState DEF IInv, Typed
<1>2. NewLinks(u) \subseteq Urls /\ (NewLinks(u) # {} => crawl.level + 1 \in Depths)
  BY ExpandWorks
<1> DEFINE new == [NoPage EXCEPT !.known = TRUE, !.depth = crawl.level + 1]
<1>3. PICK kept \in SUBSET NewLinks(u) : pages' = [l \in Urls |-> IF l \in kept THEN new ELSE pages[l]]
  BY DEF Expand
<1>4. CASE kept = {}
  BY <1>1, <1>3, <1>4
<1>5. CASE kept # {}
  <2>1. /\ NoPage \in Page /\ NoPage.fetchedIn = 0 /\ NoPage.hash = Gone
        /\ crawl.level + 1 \in Depths
    BY <1>1, <1>2, <1>5, SourceFacts DEF Page, NoPage
  <2>2. new \in Page /\ new.known /\ new.depth = crawl.level + 1 /\ new.fetchedIn = 0 /\ new.hash = Gone
    BY <2>1 DEF Page
  <2> HIDE DEF new
  <2> QED  BY <1>1, <1>2, <1>3, <2>2
<1> QED  BY <1>4, <1>5

LEMMA ExpandStep ==
  ASSUME IInv, NEW u \in source.urls, Expand(u)
  PROVE  Holds'
<1>1. /\ source \in Sources /\ TypeOK /\ FrontierSound /\ FetchSound /\ EmitSound /\ IngestSound
      /\ SeriesSound /\ OnePutPerCanonical /\ HashMeansIngested
  BY DEF IInv
<1>2. /\ UNCHANGED <<source, site, doc, job>> /\ crawl' \in Crawler
      /\ u \in Urls /\ crawl.pc = "crawling" /\ crawl.level \in Depths /\ Met(u) /\ u \in Tasked
      /\ job.active /\ job.id > 0 /\ crawl.task[u] = "expand" /\ crawl'.task[u] = "done"
      /\ \A v \in Urls \ {u} : crawl'.task[v] = crawl.task[v]
      /\ crawl'.got = crawl.got /\ crawl'.emitted = crawl.emitted /\ crawl'.fetched = crawl.fetched
      /\ crawl'.pc = crawl.pc /\ crawl'.level = crawl.level /\ crawl'.skip = crawl.skip
      /\ NewLinks(u) \subseteq Urls \ crawl.visited
      /\ NewLinks(u) # {} => crawl.level + 1 \in Depths
      /\ crawl'.visited = crawl.visited \cup NewLinks(u)
      /\ \A d \in Depths : crawl'.frontier[d] =
           IF d = crawl.level + 1 THEN crawl.frontier[d] \cup NewLinks(u) ELSE crawl.frontier[d]
  BY ExpandWorks
<1>3. /\ pages' \in [Urls -> Page]
      /\ \A l \in Urls : \/ pages'[l] = pages[l]
                         \/ /\ l \in NewLinks(u) /\ pages'[l].known
                            /\ pages'[l].fetchedIn = 0 /\ pages'[l].hash = Gone
  BY ExpandRows
<1>4. /\ Canon' = Canon /\ Faults' = Faults /\ Seeds' = Seeds /\ Disallowed' = Disallowed
      /\ Depths' = Depths /\ Uncapped' = Uncapped /\ \A v \in Urls : Unshared(v)' <=> Unshared(v)
      /\ Page' = Page /\ Document' = Document /\ Crawler' = Crawler
  BY <1>2, SameSource
<1>5. TypeOK'
  BY <1>1, <1>2, <1>3, <1>4 DEF TypeOK
<1>6. crawl.level \in Nat /\ MaxDepth \in Nat /\ Depths = 0..MaxDepth /\ job.id \in Nat
      /\ crawl.skip \subseteq Urls /\ \A d \in Depths : crawl.frontier[d] \subseteq Urls
  BY <1>1, SourceFacts, CrawlerFacts, TypedState DEF Typed
<1>7. \A v \in Urls : Met(v)' <=> Met(v) \/ v \in NewLinks(u)
  BY <1>2, <1>4 DEF Met
<1>8. FrontierSound'
  <2>1. ASSUME NEW v \in Urls, v \in Seeds \/ pages'[v].known \/ v \in Tasked'
        PROVE  Met(v) \/ v \in NewLinks(u)
    <3>1. CASE v \in NewLinks(u)
      BY <3>1
    <3>2. CASE v \notin NewLinks(u)
      <4>1. v \in Seeds \/ pages[v].known \/ v \in Tasked
        BY <1>2, <1>3, <2>1, <3>2 DEF Tasked
      <4> QED  BY <1>1, <1>2, <4>1 DEF FrontierSound
    <3> QED  BY <3>1, <3>2
  <2>2. \A v \in Urls : Met(v) => v \in crawl.visited
    BY <1>1, <1>2 DEF FrontierSound
  <2>3. ASSUME NEW d \in Depths, d < crawl.level, NEW v \in crawl'.frontier[d]
        PROVE  GoneThrough(v)'
    <3>1. d # crawl.level + 1
      BY <1>6, <2>3
    <3>2. crawl'.frontier[d] = crawl.frontier[d]
      BY <1>2, <3>1
    <3>3. v \in crawl.frontier[d] /\ v \in Urls
      BY <1>6, <2>3, <3>2
    <3>4. GoneThrough(v)
      BY <1>1, <1>2, <2>3, <3>3 DEF FrontierSound
    <3> QED  BY <1>2, <3>3, <3>4 DEF GoneThrough
  <2>4. ASSUME NEW v \in crawl.skip PROVE job'.full /\ pages'[v].fetchedIn = job'.id
    <3>1. v \in Urls /\ Met(v) /\ v \notin NewLinks(u)
      BY <1>2, <1>6, <2>2, <2>4 DEF Met
    <3>2. job.full /\ pages[v].fetchedIn = job.id
      BY <1>1, <1>2, <2>4 DEF FrontierSound
    <3> QED  BY <1>2, <1>3, <3>1, <3>2
  <2>5. crawl'.pc = "crawling" /\ job'.active /\ crawl'.level \in Depths
    BY <1>2
  <2>6. \A v \in Urls : v \in Seeds' \/ pages'[v].known \/ v \in Tasked' => Met(v)'
    BY <1>4, <1>7, <2>1
  <2>7. \A v \in Urls : Met(v)' => v \in crawl'.visited
    BY <1>2, <1>7, <2>2
  <2> QED  BY <1>2, <1>4, <2>3, <2>4, <2>5, <2>6, <2>7 DEF FrontierSound
<1>9. FetchSound'
  <2>1. Tasked' = Tasked
    BY <1>2 DEF Tasked
  <2> QED  BY <1>1, <1>2, <2>1 DEF FetchSound
<1>10. EmitSound' /\ OnePutPerCanonical'
  <2>1. EmitSound'
    BY <1>1, <1>2, <1>4 DEF EmitSound
  <2>2. OnePutPerCanonical'
    BY <1>1, <1>2, <1>4 DEF OnePutPerCanonical
  <2> QED  BY <2>1, <2>2
<1>11. IngestSound' /\ HashMeansIngested'
  <2>1. IngestSound'
    BY <1>1, <1>2, <1>4 DEF IngestSound
  <2>2. HashMeansIngested'
    BY <1>1, <1>2, <1>3, <1>4 DEF HashMeansIngested
  <2> QED  BY <2>1, <2>2
<1>12. SeriesSound'
  <2>1. \A v \in Urls : pages'[v].fetchedIn <= job.id
    BY <1>1, <1>3, <1>6 DEF SeriesSound
  <2>2. \A v \in Urls : pages'[v].fetchedIn = job.id => pages[v].fetchedIn = job.id
    BY <1>2, <1>3, <1>6
  <2>3. \A v \in Urls : pages[v].known => pages'[v].known
    BY <1>3
  <2>4. ASSUME Faults \subseteq {"abort"}, Uncapped
        PROVE  /\ \A v \in crawl'.visited : v \in Seeds \/ pages'[v].known
               /\ \A v \in Urls : Unshared(v) =>
                    /\ doc[Canon[v]].status = "active" => v \in Seeds \/ pages'[v].known
                    /\ job.full /\ v \in job.present \ Disallowed
                         /\ (pages'[v].fetchedIn = job.id \/ crawl'.task[v] \in {"upsert", "expand", "done"})
                         => doc[Canon[v]].seenIn = job.id
    <3>1. \A v \in NewLinks(u) : pages'[v].known
      BY <1>2, <2>4 DEF Expand
    <3>2. \A v \in crawl'.visited : v \in Seeds \/ pages'[v].known
      BY <1>1, <1>2, <1>3, <2>4, <3>1, CrawlerFacts DEF SeriesSound
    <3>3. ASSUME NEW v \in Urls, Unshared(v), job.full, v \in job.present \ Disallowed,
                 pages'[v].fetchedIn = job.id \/ crawl'.task[v] \in {"upsert", "expand", "done"}
          PROVE  doc[Canon[v]].seenIn = job.id
      <4>1. pages[v].fetchedIn = job.id \/ crawl.task[v] \in {"upsert", "expand", "done"}
        BY <1>2, <2>2, <3>3
      <4> QED  BY <1>1, <2>4, <3>3, <4>1 DEF SeriesSound
    <3> QED  BY <1>1, <2>3, <2>4, <3>2, <3>3 DEF SeriesSound
  <2> QED  BY <1>1, <1>2, <1>4, <2>1, <2>4 DEF SeriesSound
<1> QED  BY <1>5, <1>8, <1>9, <1>10, <1>11, <1>12 DEF Holds

-----------------------------------------------------------------------------
(* The site, the jobs and the attempts.                                      *)

\* The crawler is unchanged, the rows too.
LEMMA CrawlQuiet ==
  ASSUME IInv, UNCHANGED <<source, pages, doc, crawl>>
  PROVE  FetchSound' /\ EmitSound' /\ OnePutPerCanonical' /\ IngestSound' /\ HashMeansIngested'
<1>1. /\ Canon' = Canon /\ Faults' = Faults /\ \A v \in Urls : Unshared(v)' <=> Unshared(v)
  BY SameSource
<1>2. FetchSound' /\ EmitSound' /\ OnePutPerCanonical'
  BY <1>1 DEF IInv, FetchSound, EmitSound, OnePutPerCanonical, Tasked
<1>3. IngestSound' /\ HashMeansIngested'
  BY <1>1 DEF IInv, IngestSound, HashMeansIngested
<1> QED  BY <1>2, <1>3

LEMMA SiteChangeStep ==
  ASSUME IInv, NEW u \in source.urls, NEW c \in source.contents \cup {Gone}, SiteChange(u, c)
  PROVE  Holds'
<1>1. /\ source \in Sources /\ TypeOK /\ FrontierSound /\ SeriesSound
      /\ UNCHANGED <<source, pages, doc, crawl>>
  BY DEF IInv, SiteChange
<1>2. /\ u \in Urls /\ c \in Contents \cup {Gone} /\ source.changes \in Nat
      /\ site.changes \in 0..source.changes /\ site.changes < source.changes
      /\ site.is \in [Urls -> Contents \cup {Gone}]
  BY <1>1, SourceFacts, TypedState DEF Typed, SiteChange
<1>3. site' = [is |-> [site.is EXCEPT ![u] = c], changes |-> site.changes + 1]
  BY DEF SiteChange
<1>4. site' \in [is: [Urls -> Contents \cup {Gone}], changes: 0..source.changes]
  BY <1>2, <1>3
<1> DEFINE P == IF c = Gone THEN job.present \ {u} ELSE job.present
<1>5. job' = [job EXCEPT !.present = P] /\ P \subseteq job.present /\ (c = Gone => u \notin P)
  BY DEF SiteChange
<1> HIDE DEF P
<1>6. /\ job' \in [id: 0..source.jobs, active: BOOLEAN, full: BOOLEAN, present: SUBSET Urls]
      /\ job'.id = job.id /\ job'.active = job.active /\ job'.full = job.full /\ job'.present = P
  BY <1>1, <1>5 DEF TypeOK
<1>7. TypeOK'
  BY <1>1, <1>4, <1>6, SameSource DEF TypeOK
<1>8. FrontierSound'
  BY <1>1, <1>6, SameSource DEF FrontierSound, Met, Tasked, GoneThrough
<1>9. FetchSound' /\ EmitSound' /\ OnePutPerCanonical' /\ IngestSound' /\ HashMeansIngested'
  BY <1>1, CrawlQuiet
<1>10. SeriesSound'
  <2>1. \A v \in P : site'.is[v] # Gone
    BY <1>1, <1>2, <1>3, <1>5, TypedState DEF Typed, SeriesSound
  <2>2. /\ Canon' = Canon /\ Faults' = Faults /\ Seeds' = Seeds /\ Disallowed' = Disallowed
        /\ Uncapped' = Uncapped /\ \A v \in Urls : Unshared(v)' <=> Unshared(v)
    BY <1>1, SameSource
  <2> QED  BY <1>1, <1>5, <1>6, <2>1, <2>2 DEF SeriesSound
<1> QED  BY <1>7, <1>8, <1>9, <1>10 DEF Holds

LEMMA EnqueueSyncStep ==
  ASSUME IInv, NEW full \in BOOLEAN, EnqueueSync(full)
  PROVE  Holds'
<1>1. /\ source \in Sources /\ TypeOK /\ FrontierSound /\ SeriesSound
      /\ UNCHANGED <<source, site, pages, doc, crawl>>
  BY DEF IInv, EnqueueSync
<1>2. job.id \in 0..source.jobs /\ source.jobs \in Nat /\ job.id < source.jobs /\ ~job.active
  BY <1>1, SourceFacts, TypedState DEF Typed, EnqueueSync
<1> DEFINE P == {u \in Urls : site.is[u] # Gone}
<1>3. job' = [id |-> job.id + 1, active |-> TRUE, full |-> full, present |-> P]
  BY DEF EnqueueSync
<1>4. job' \in [id: 0..source.jobs, active: BOOLEAN, full: BOOLEAN, present: SUBSET Urls]
  BY <1>2, <1>3
<1>5. crawl.pc = "idle" /\ crawl = Stopped
  BY <1>1, <1>2, CrawlerFacts DEF FrontierSound
<1>6. TypeOK'
  BY <1>1, <1>4, SameSource DEF TypeOK
<1>7. FrontierSound'
  BY <1>1, <1>5, SameSource DEF FrontierSound
<1>8. FetchSound' /\ EmitSound' /\ OnePutPerCanonical' /\ IngestSound' /\ HashMeansIngested'
  BY <1>1, CrawlQuiet
<1>9. SeriesSound'
  <2>1. \A v \in Urls : pages[v].fetchedIn < job'.id /\ pages[v].fetchedIn <= job'.id
    <3> SUFFICES ASSUME NEW v \in Urls PROVE pages[v].fetchedIn < job'.id /\ pages[v].fetchedIn <= job'.id
      OBVIOUS
    <3>1. pages[v].fetchedIn <= job.id /\ pages[v].fetchedIn \in 0..source.jobs
      BY <1>1, TypedState DEF SeriesSound, Typed, Page
    <3> QED  BY <1>2, <1>3, <3>1
  <2>2. \A v \in Urls : crawl'.task[v] = "none" /\ pages'[v].fetchedIn # job'.id
    BY <1>1, <1>3, <1>5, <2>1, <1>2 DEF Stopped, SeriesSound
  <2>3. /\ Canon' = Canon /\ Faults' = Faults /\ Seeds' = Seeds /\ Disallowed' = Disallowed
        /\ Uncapped' = Uncapped /\ \A v \in Urls : Unshared(v)' <=> Unshared(v)
    BY <1>1, SameSource
  <2>4. job'.id > 0 /\ \A v \in job'.present : site'.is[v] # Gone
    BY <1>1, <1>2, <1>3
  <2>5. \A v \in Urls : pages'[v].fetchedIn <= job'.id
    BY <1>1, <2>1
  <2>6. crawl'.pc # "crawling"
    BY <1>1, <1>5
  <2>7. ASSUME Faults \subseteq {"abort"}, Uncapped, NEW v \in Urls, Unshared(v),
               doc'[Canon[v]].status = "active"
        PROVE  v \in Seeds \/ pages'[v].known
    BY <1>1, <2>7 DEF SeriesSound
  <2> QED  BY <2>2, <2>3, <2>4, <2>5, <2>6, <2>7 DEF SeriesSound
<1> QED  BY <1>6, <1>7, <1>8, <1>9 DEF Holds

\* What holds of a crawler that has taken no page yet.
LEMMA NoneTasked ==
  ASSUME IInv, source' = source, crawl' \in Crawler, crawl'.task = [u \in Urls |-> "none"],
         crawl'.emitted = {}, crawl'.fetched = 0, pages' = pages,
         \A x \in Urls : doc[x].had \subseteq doc'[x].had
  PROVE  FetchSound' /\ EmitSound' /\ OnePutPerCanonical' /\ IngestSound' /\ HashMeansIngested'
<1>1. /\ Canon' = Canon /\ Faults' = Faults /\ \A v \in Urls : Unshared(v)' <=> Unshared(v)
  BY SameSource
<1>2. source \in Sources /\ Canon \in [Urls -> Urls] /\ source.urls \subseteq Urls /\ IsFiniteSet(Urls)
  BY SourceFacts DEF IInv
<1>3. FetchSound'
  <2>1. Tasked' = {}
    BY DEF Tasked
  <2>2. Cardinality({}) = 0
    BY FS_EmptySet
  <2> QED  BY <2>1, <2>2 DEF FetchSound
<1>4. EmitSound' /\ OnePutPerCanonical' /\ IngestSound'
  BY DEF EmitSound, OnePutPerCanonical, IngestSound
<1>5. HashMeansIngested'
  BY <1>1, <1>2 DEF IInv, HashMeansIngested
<1> QED  BY <1>3, <1>4, <1>5

LEMMA StartAttemptStep ==
  ASSUME IInv, StartAttempt
  PROVE  Holds'
<1>1. /\ source \in Sources /\ TypeOK /\ SeriesSound /\ UNCHANGED <<source, site, pages, doc, job>>
      /\ job.active
  BY DEF IInv, StartAttempt
<1>2. MaxDepth \in Nat /\ Seeds \subseteq Urls /\ Depths = 0..MaxDepth /\ 0 \in Depths
  BY <1>1, SourceFacts
<1> DEFINE vis == Seeds \cup {u \in Urls : pages[u].known}
           sk == {u \in Urls : pages[u].known /\ WithinSeries(u)}
           fr == [d \in Depths |-> {u \in Requeued : pages[u].depth = d}
                                        \cup (IF d = 0 THEN Seeds ELSE {})]
<1>3. crawl' = [Stopped EXCEPT !.pc = "crawling", !.visited = vis, !.skip = sk, !.frontier = fr]
  BY DEF StartAttempt
<1>4. vis \subseteq Urls /\ sk \subseteq Urls /\ fr \in [Depths -> SUBSET Urls]
  BY <1>2 DEF Requeued
<1>5. \A u \in Urls : u \in sk <=> pages[u].known /\ job.full /\ pages[u].fetchedIn = job.id
  BY DEF WithinSeries
<1>6. \A u \in Urls, d \in Depths :
        u \in fr[d] <=> (u \in Requeued /\ pages[u].depth = d) \/ (d = 0 /\ u \in Seeds)
  OBVIOUS
<1> HIDE DEF fr, sk
<1>7. Stopped \in Crawler /\ Stopped.task = [u \in Urls |-> "none"] /\ Stopped.level = 0
      /\ Stopped.emitted = {} /\ Stopped.fetched = 0
  BY <1>1, StoppedTyped DEF Stopped
<1>8. /\ crawl' \in Crawler /\ crawl'.pc = "crawling" /\ crawl'.level = 0
      /\ crawl'.task = [u \in Urls |-> "none"] /\ crawl'.emitted = {} /\ crawl'.fetched = 0
      /\ crawl'.visited = vis /\ crawl'.skip = sk /\ crawl'.frontier = fr
  BY <1>3, <1>4, <1>7 DEF Crawler
<1>9. /\ Canon' = Canon /\ Faults' = Faults /\ Seeds' = Seeds /\ Disallowed' = Disallowed
      /\ Depths' = Depths /\ Uncapped' = Uncapped /\ \A v \in Urls : Unshared(v)' <=> Unshared(v)
  BY <1>1, SameSource
<1>10. TypeOK'
  BY <1>1, <1>8, SameSource DEF TypeOK
<1>11. FrontierSound'
  <2>1. \A u \in Urls : Met(u)' <=> u \in sk \/ \E d \in Depths : u \in fr[d]
    BY <1>8, <1>9 DEF Met
  <2>2. ASSUME NEW u \in Urls, u \in Seeds \/ pages[u].known
        PROVE  u \in sk \/ \E d \in Depths : u \in fr[d]
    <3>1. CASE u \in Seeds
      BY <1>2, <1>6, <3>1
    <3>2. CASE u \notin Seeds /\ u \notin sk
      <4>1. pages[u].depth \in Depths
        BY <1>1, TypedState DEF Typed, Page
      <4>2. u \in Requeued
        BY <1>2, <1>5, <2>2, <3>2, <4>1 DEF Requeued, WithinSeries
      <4> QED  BY <1>6, <4>1, <4>2
    <3> QED  BY <3>1, <3>2
  <2>3. ASSUME NEW u \in Urls, u \in sk \/ \E d \in Depths : u \in fr[d]
        PROVE  u \in vis
    BY <1>5, <1>6, <2>3 DEF Requeued
  <2>4. Tasked' = {}
    BY <1>8 DEF Tasked
  <2>5. \A d \in Depths : ~(d < 0)
    BY <1>2
  <2>6. \A u \in sk : job.full /\ pages[u].fetchedIn = job.id
    BY <1>4, <1>5
  <2> QED  BY <1>1, <1>8, <1>9, <2>1, <2>2, <2>3, <2>4, <2>5, <2>6 DEF FrontierSound
<1>12. FetchSound' /\ EmitSound' /\ OnePutPerCanonical' /\ IngestSound' /\ HashMeansIngested'
  BY <1>1, <1>8, NoneTasked
<1>13. SeriesSound'
  BY <1>1, <1>8, <1>9 DEF SeriesSound
<1> QED  BY <1>10, <1>11, <1>12, <1>13 DEF Holds

\* The level is done: what was queued in it has been gone through.
LEMMA NextLevelStep ==
  ASSUME IInv, NextLevel
  PROVE  Holds'
<1>1. /\ source \in Sources /\ TypeOK /\ FrontierSound /\ SeriesSound
      /\ UNCHANGED <<source, site, pages, doc, job>> /\ crawl.pc = "crawling"
      /\ crawl.level \in Depths /\ LevelDone
  BY CrawlerFacts DEF IInv, NextLevel
<1>2. crawl \in Crawler /\ crawl.level + 1 \in 0..(MaxDepth + 1) /\ crawl.level \in Nat
      /\ MaxDepth \in Nat /\ Depths = 0..MaxDepth
  BY <1>1, SourceFacts, TypedState DEF Typed
<1> DEFINE n == crawl.level + 1
<1>3. n \in 0..(MaxDepth + 1) /\ crawl' = [crawl EXCEPT !.level = n]
  BY <1>2 DEF NextLevel
<1>4. \A d \in Depths : d < n => d < crawl.level \/ d = crawl.level
  BY <1>2
<1> HIDE DEF n
<1>5. /\ crawl' \in Crawler /\ crawl'.level = n /\ crawl'.pc = crawl.pc /\ crawl'.visited = crawl.visited
      /\ crawl'.skip = crawl.skip /\ crawl'.frontier = crawl.frontier /\ crawl'.task = crawl.task
      /\ crawl'.got = crawl.got /\ crawl'.emitted = crawl.emitted /\ crawl'.fetched = crawl.fetched
  BY <1>2, <1>3 DEF Crawler
<1>6. /\ Canon' = Canon /\ Faults' = Faults /\ Seeds' = Seeds /\ Disallowed' = Disallowed
      /\ Depths' = Depths /\ Uncapped' = Uncapped /\ \A v \in Urls : Unshared(v)' <=> Unshared(v)
  BY <1>1, SameSource
<1>7. TypeOK'
  BY <1>1, <1>5, SameSource DEF TypeOK
<1>8. \A u \in Urls : crawl.task[u] \in {"none", "done"} /\ u \notin Queued
  BY <1>1 DEF LevelDone
<1>9. FrontierSound'
  <2>1. ASSUME NEW d \in Depths, d < n, NEW u \in crawl.frontier[d]
        PROVE  GoneThrough(u)'
    <3>1. u \in Urls
      BY <1>1, <2>1, CrawlerFacts
    <3>2. GoneThrough(u)
      <4>1. CASE d < crawl.level
        BY <1>1, <2>1, <4>1 DEF FrontierSound
      <4>2. CASE d = crawl.level
        BY <1>1, <1>8, <2>1, <3>1, <4>2 DEF Queued, GoneThrough
      <4> QED  BY <1>4, <2>1, <4>1, <4>2
    <3> QED  BY <1>5, <3>2 DEF GoneThrough
  <2>2. \A u \in Urls : (Met(u)' <=> Met(u)) /\ (u \in Tasked' <=> u \in Tasked)
    BY <1>5, <1>6 DEF Met, Tasked
  <2>3. \A u \in Tasked' : crawl'.task[u] = "done"
    BY <1>5, <1>8 DEF Tasked
  <2> QED  BY <1>1, <1>5, <1>6, <2>1, <2>2, <2>3 DEF FrontierSound
<1>10. FetchSound' /\ EmitSound' /\ OnePutPerCanonical'
  BY <1>1, <1>5, <1>6 DEF IInv, FetchSound, EmitSound, OnePutPerCanonical, Tasked
<1>11. IngestSound' /\ HashMeansIngested'
  BY <1>1, <1>5, <1>6 DEF IInv, IngestSound, HashMeansIngested
<1>12. SeriesSound'
  BY <1>1, <1>5, <1>6 DEF SeriesSound
<1> QED  BY <1>7, <1>9, <1>10, <1>11, <1>12 DEF Holds

\* The crawler stops, documents are at most marked deleted, and a job may end.
LEMMA StopSteps ==
  ASSUME IInv, UNCHANGED <<source, site, pages>>, crawl' = Stopped,
         job' = job \/ job' = [job EXCEPT !.active = FALSE], doc' \in [Urls -> Document],
         \A x \in Urls : /\ doc'[x].had = doc[x].had /\ doc'[x].seenIn = doc[x].seenIn
                         /\ (doc'[x].status = "active" => doc[x].status = "active")
  PROVE  Holds'
<1>1. source \in Sources /\ TypeOK /\ SeriesSound
  BY DEF IInv
<1>2. /\ Stopped \in Crawler /\ Stopped.pc = "idle" /\ Stopped.emitted = {} /\ Stopped.fetched = 0
      /\ Stopped.task = [u \in Urls |-> "none"]
  BY <1>1, StoppedTyped
<1>3. /\ Canon' = Canon /\ Faults' = Faults /\ Seeds' = Seeds /\ Disallowed' = Disallowed
      /\ Stopped' = Stopped /\ Crawler' = Crawler
      /\ Uncapped' = Uncapped /\ \A v \in Urls : Unshared(v)' <=> Unshared(v)
  BY SameSource
<1>4. /\ job' \in [id: 0..source.jobs, active: BOOLEAN, full: BOOLEAN, present: SUBSET Urls]
      /\ job'.id = job.id /\ job'.full = job.full /\ job'.present = job.present
      /\ job'.active => job.active
  BY <1>1 DEF TypeOK
<1>5. TypeOK'
  BY <1>1, <1>2, <1>4, SameSource DEF TypeOK
<1>6. FrontierSound'
  BY <1>2, <1>3 DEF FrontierSound
<1>7. FetchSound' /\ EmitSound' /\ OnePutPerCanonical' /\ IngestSound' /\ HashMeansIngested'
  BY <1>2, NoneTasked
<1>8. Canon \in [Urls -> Urls]
  BY <1>1, SourceFacts
<1>9. SeriesSound'
  <2>1. \A v \in Urls : Canon[v] \in Urls
    BY <1>8
  <2>2. \A v \in Urls : /\ doc'[Canon[v]].seenIn = doc[Canon[v]].seenIn
                        /\ (doc'[Canon[v]].status = "active" => doc[Canon[v]].status = "active")
    BY <2>1
  <2>3. \A v \in Urls : crawl'.task[v] = "none"
    BY <1>2
  <2> QED  BY <1>1, <1>2, <1>3, <1>4, <2>2, <2>3 DEF SeriesSound
<1> QED  BY <1>5, <1>6, <1>7, <1>9 DEF Holds

\* The delete pass: what it removes was active and not seen by this job.
LEMMA FinishSweeps ==
  ASSUME IInv, Finish
  PROVE  /\ doc' \in [Urls -> Document]
         /\ \A x \in Urls : /\ doc'[x].had = doc[x].had /\ doc'[x].seenIn = doc[x].seenIn
                            /\ (doc'[x].status = "active" => doc[x].status = "active")
                            /\ (x \in Swept => job.full /\ doc[x].seenIn < job.id)
                            /\ (x \notin Swept => doc'[x] = doc[x])
<1>1. doc \in [Urls -> Document]
  BY TypedState DEF IInv, Typed
<1>2. doc' = [x \in Urls |-> IF x \in Swept THEN [doc[x] EXCEPT !.status = "deleted"] ELSE doc[x]]
  BY DEF Finish
<1>3. \A x \in Urls : x \in Swept => doc[x].status = "active" /\ job.full /\ doc[x].seenIn < job.id
  BY DEF Swept
<1>4. ASSUME NEW r \in Document
      PROVE  LET e == [r EXCEPT !.status = "deleted"]
             IN  e \in Document /\ e.had = r.had /\ e.seenIn = r.seenIn /\ e.status = "deleted"
  BY DEF Document
<1>5. \A x \in Urls : doc[x] \in Document
  BY <1>1
<1> HIDE DEF Swept
<1>6. \A x \in Urls : /\ doc'[x] \in Document /\ doc'[x].had = doc[x].had /\ doc'[x].seenIn = doc[x].seenIn
                      /\ (doc'[x].status = "active" => doc[x].status = "active")
                      /\ (x \notin Swept => doc'[x] = doc[x])
  BY <1>2, <1>3, <1>4, <1>5
<1>7. doc' \in [Urls -> Document]
  BY <1>2, <1>6
<1> QED  BY <1>3, <1>6, <1>7

\* When the last level is done, every page the crawl met has been gone through.
LEMMA FinishGoneThrough ==
  ASSUME IInv, Finish, NEW u \in Urls, u \in Seeds \/ pages[u].known
  PROVE  GoneThrough(u)
<1>1. source \in Sources /\ TypeOK /\ FrontierSound /\ crawl.pc = "crawling" /\ crawl.level > MaxDepth
  BY DEF IInv, Finish
<1>2. Met(u)
  BY <1>1 DEF FrontierSound
<1>3. \A d \in Depths : d < crawl.level
  BY <1>1, SourceFacts, CrawlerFacts
<1> QED  BY <1>1, <1>2, <1>3 DEF FrontierSound, Met, GoneThrough

LEMMA EndSteps ==
  ASSUME IInv, Finish \/ Abort \/ Discard
  PROVE  Holds'
<1>1. CASE Finish
  BY <1>1, FinishSweeps, StopSteps DEF Finish
<1>2. doc \in [Urls -> Document]
  BY TypedState DEF IInv, Typed
<1>3. CASE Abort
  BY <1>2, <1>3, StopSteps DEF Abort
<1>4. CASE Discard
  <2>1. crawl = Stopped
    BY <1>4 DEF Discard, IInv, FrontierSound
  <2> QED  BY <1>2, <1>4, <2>1, StopSteps DEF Discard
<1> QED  BY <1>1, <1>3, <1>4

-----------------------------------------------------------------------------
(* What a full sync comes by: the frontier of a crawl that is not aborted.   *)

\* The row of page u may be written at the depth of the level.
RowAt(u) ==
  /\ \A v \in Urls \ {u} : pages'[v] = pages[v]
  /\ pages'[u] = pages[u] \/ (pages'[u].known /\ pages'[u].depth = crawl.level)

LEMMA PageFetchedAt ==
  ASSUME IInv, NEW u \in Urls, NEW c, TryPageFetched(u, c)
  PROVE  RowAt(u)
<1>1. pages \in [Urls -> Page]
  BY TypedState DEF IInv, Typed
<1> DEFINE r == [known |-> TRUE, depth |-> crawl.level, fetchedIn |-> job.id,
                 hash |-> IF c = Gone THEN pages[u].hash ELSE c]
<1>2. r.known /\ r.depth = crawl.level
  OBVIOUS
<1>3. pages' = [pages EXCEPT ![u] = r] \/ UNCHANGED pages
  BY DEF TryPageFetched, PageFetched
<1> HIDE DEF r
<1> QED  BY <1>1, <1>2, <1>3 DEF RowAt

\* What a step at page u does to the frontier and to the rows: it is in no other level.
Advances(u) ==
  /\ AtStep(u) /\ u \in Urls /\ Kept(u) /\ crawl'.task[u] \in Stages \ {"none"} /\ RowAt(u)
  /\ UNCHANGED <<source, job>> /\ crawl.emitted \subseteq crawl'.emitted

LEMMA QueuedAdvances ==
  ASSUME IInv, NEW u \in source.urls,
         RobotsDisallow(u) \/ OverCap(u) \/ FetchFails(u) \/ FetchUnchanged(u) \/ Fetch(u)
  PROVE  /\ Advances(u) /\ crawl'.emitted = crawl.emitted
         /\ crawl.task[u] = "none" /\ crawl'.task[u] \in {"emit", "done"}
<1>1. crawl \in Crawler /\ pages \in [Urls -> Page]
  BY TypedState DEF IInv, Typed
<1>2. u \in Queued /\ UNCHANGED <<source, job>>
  BY DEF RobotsDisallow, OverCap, FetchFails, FetchUnchanged, Fetch, Admitted
<1>3. AtStep(u) /\ u \in Urls /\ crawl.task[u] = "none"
  BY <1>2, AtWork DEF AtStep
<1>4. RowAt(u)
  <2>1. CASE RobotsDisallow(u) \/ OverCap(u) \/ Fetch(u)
    BY <2>1 DEF RobotsDisallow, OverCap, Fetch, RowAt
  <2>2. CASE FetchFails(u) \/ FetchUnchanged(u)
    BY <1>3, <2>2, PageFetchedAt DEF FetchFails, FetchUnchanged
  <2> QED  BY <2>1, <2>2
<1>5. Kept(u) /\ crawl'.emitted = crawl.emitted /\ crawl'.task[u] \in {"emit", "done"}
  <2>1. CASE RobotsDisallow(u)
    BY <1>1, <1>3, <2>1 DEF RobotsDisallow, Goto, Kept, Crawler
  <2>2. CASE OverCap(u) \/ FetchFails(u) \/ FetchUnchanged(u)
    <3>1. crawl' = [crawl EXCEPT !.task[u] = "done", !.fetched = crawl.fetched + 1]
      BY <2>2 DEF OverCap, FetchFails, FetchUnchanged
    <3> QED  BY <1>1, <1>3, <3>1 DEF Kept, Crawler
  <2>3. CASE Fetch(u)
    <3>1. crawl' = [crawl EXCEPT !.task[u] = "emit", !.got[u] = site.is[u], !.fetched = crawl.fetched + 1]
      BY <2>3 DEF Fetch
    <3> QED  BY <1>1, <1>3, <3>1 DEF Kept, Crawler
  <2> QED  BY <2>1, <2>2, <2>3
<1> QED  BY <1>2, <1>3, <1>4, <1>5 DEF Advances, Stages

LEMMA TakenAdvances ==
  ASSUME IInv, NEW u \in source.urls, Emit(u) \/ Put(u) \/ PutFails(u) \/ Upsert(u)
  PROVE  /\ Advances(u)
         /\ Emit(u) => /\ crawl.task[u] = "emit" /\ crawl'.emitted = crawl.emitted \cup {Canon[u]}
                       /\ crawl'.task[u] = IF Canon[u] \in crawl.emitted THEN "upsert" ELSE "put"
         /\ ~Emit(u) => crawl'.emitted = crawl.emitted
         /\ Put(u) \/ PutFails(u) => crawl.task[u] = "put" /\ crawl'.task[u] = "upsert"
         /\ Upsert(u) => crawl.task[u] = "upsert" /\ crawl'.task[u] = "expand"
<1>1. crawl \in Crawler /\ pages \in [Urls -> Page]
  BY TypedState DEF IInv, Typed
<1>2. crawl.task[u] \in {"emit", "put", "upsert"} /\ UNCHANGED <<source, job>>
  BY DEF Emit, Put, PutFails, Upsert
<1>3. AtStep(u) /\ u \in Urls
  BY <1>2, AtWork DEF AtStep
<1>4. RowAt(u)
  <2>1. CASE Emit(u) \/ Put(u) \/ PutFails(u)
    BY <2>1 DEF Emit, Put, PutFails, RowAt
  <2>2. CASE Upsert(u)
    BY <1>3, <2>2, PageFetchedAt DEF Upsert, TryPageFetched
  <2> QED  BY <2>1, <2>2
<1>5. CASE Emit(u)
  <2> DEFINE stage == IF Canon[u] \in crawl.emitted THEN "upsert" ELSE "put"
             S == crawl.emitted \cup {Canon[u]}
  <2>1. crawl' = [crawl EXCEPT !.task[u] = stage, !.emitted = S] /\ crawl.task[u] = "emit"
    BY <1>5 DEF Emit
  <2>2. Kept(u) /\ crawl'.emitted = S /\ crawl'.task[u] = stage
    BY <1>1, <1>3, <2>1 DEF Kept, Crawler
  <2> QED  BY <1>2, <1>3, <1>4, <1>5, <2>1, <2>2 DEF Advances, Stages, Put, PutFails, Upsert
<1>6. CASE Put(u) \/ PutFails(u)
  <2>1. crawl' = [crawl EXCEPT !.task[u] = "upsert", !.sawDoc = TRUE] /\ crawl.task[u] = "put"
    BY <1>6 DEF Put, PutFails
  <2>2. Kept(u) /\ crawl'.emitted = crawl.emitted /\ crawl'.task[u] = "upsert"
    BY <1>1, <1>3, <2>1 DEF Kept, Crawler
  <2> QED  BY <1>2, <1>3, <1>4, <2>1, <2>2 DEF Advances, Stages, Emit, Upsert
<1>7. CASE Upsert(u)
  <2>1. crawl' = [crawl EXCEPT !.task[u] = "expand"] /\ crawl.task[u] = "upsert"
    BY <1>7 DEF Upsert, Goto
  <2>2. Kept(u) /\ crawl'.emitted = crawl.emitted /\ crawl'.task[u] = "expand"
    BY <1>1, <1>3, <2>1 DEF Kept, Crawler
  <2> QED  BY <1>2, <1>3, <1>4, <2>1, <2>2 DEF Advances, Stages, Emit, Put, PutFails
<1> QED  BY <1>5, <1>6, <1>7

\* A seed is taken at the first level, and every page at a level it stands in.
LEMMA TakenAtLevel ==
  ASSUME IInv, NEW u, AtStep(u), "abort" \notin Faults
  PROVE  WalkUnderWay /\ u \in crawl.frontier[crawl.level] /\ (u \in Seeds => crawl.level = 0)
<1>1. /\ u \in Urls /\ crawl.pc = "crawling" /\ crawl.level \in Depths /\ crawl.task[u] # "done"
      /\ (u \in Queued => u \in crawl.frontier[crawl.level])
  BY AtWork DEF AtStep, Queued
<1>2. WalkUnderWay
  BY <1>1 DEF IInv, WalkSound
<1>3. u \in crawl.frontier[crawl.level]
  <2>1. CASE u \in Queued
    BY <1>1, <2>1
  <2>2. CASE u \notin Queued
    BY <1>1, <1>2, <2>2 DEF WalkUnderWay, AtStep, Tasked
  <2> QED  BY <2>1, <2>2
<1>4. ASSUME u \in Seeds, crawl.level # 0
      PROVE  FALSE
  <2>1. 0 \in Depths /\ 0 < crawl.level
    BY <1>1, <1>4, SourceFacts DEF IInv
  <2>2. u \in crawl.frontier[0] /\ u \notin crawl.skip
    BY <1>2, <1>4 DEF WalkUnderWay
  <2>3. GoneThrough(u)
    BY <1>1, <2>1, <2>2 DEF IInv, FrontierSound
  <2> QED  BY <1>1, <2>2, <2>3 DEF GoneThrough
<1> QED  BY <1>2, <1>3, <1>4

LEMMA WalkKept ==
  ASSUME IInv, NEW u, Advances(u)
  PROVE  WalkSound'
<1>1. /\ source' = source /\ job' = job /\ Faults' = Faults /\ Seeds' = Seeds /\ Depths' = Depths
      /\ u \in Urls /\ AtStep(u)
  BY SameSource DEF Advances
<1>2. SUFFICES ASSUME "abort" \notin Faults
               PROVE  /\ \A v \in Seeds : pages'[v].depth = 0
                      /\ job.id > 0 /\ crawl'.pc = "crawling" /\ WalkUnderWay'
  BY <1>1 DEF WalkSound
<1>3. /\ WalkUnderWay /\ u \in crawl.frontier[crawl.level] /\ (u \in Seeds => crawl.level = 0)
      /\ \A v \in Seeds : pages[v].depth = 0
  BY <1>1, <1>2, TakenAtLevel DEF IInv, WalkSound
<1>4. crawl.pc = "crawling" /\ job.id > 0
  BY <1>1, AtWork DEF AtStep
<1>5. /\ crawl'.pc = crawl.pc /\ crawl'.level = crawl.level /\ crawl'.visited = crawl.visited
      /\ crawl'.skip = crawl.skip /\ crawl'.frontier = crawl.frontier
      /\ \A v \in Urls \ {u} : crawl'.task[v] = crawl.task[v]
      /\ \A v \in Urls \ {u} : pages'[v] = pages[v]
      /\ pages'[u] = pages[u] \/ (pages'[u].known /\ pages'[u].depth = crawl.level)
  BY DEF Advances, Kept, RowAt
<1>6. \A v \in Seeds : v \in Urls
  BY SourceFacts DEF IInv
<1>7. \A v \in Seeds : pages'[v].depth = 0
  BY <1>3, <1>5, <1>6
<1>8. \A v \in Urls : pages'[v].known => v \in crawl.frontier[pages'[v].depth]
  BY <1>3, <1>5 DEF WalkUnderWay
<1>9. \A v \in Tasked' : crawl'.task[v] # "done" => v \in crawl.frontier[crawl.level]
  BY <1>3, <1>5 DEF WalkUnderWay, Tasked
<1>10. WalkUnderWay'
  BY <1>1, <1>3, <1>5, <1>8, <1>9 DEF WalkUnderWay
<1> QED  BY <1>4, <1>5, <1>7, <1>10

\* A page there since a full job was created that is done with has been put.
Puts(u) ==
  /\ Lossless /\ u \in Stayed => /\ crawl'.task[u] # "done"
                                 /\ crawl'.task[u] \in {"upsert", "expand"} => Canon[u] \in crawl'.emitted
  /\ Lossless => \A x \in crawl'.emitted :
                   \/ doc'[x].status = "active" /\ doc'[x].seenIn = job.id
                   \/ \E v \in Urls : crawl'.task[v] = "put" /\ Canon[v] = x

LEMMA SameWalks ==
  ASSUME source' = source, job'.id = job.id, job'.full = job.full, job'.present \subseteq job.present
  PROVE  /\ Stayed' \subseteq Stayed /\ (Lossless' <=> Lossless)
         /\ \A d \in Depths : Trails(d)' \subseteq Trails(d)
<1>1. Disallowed' = Disallowed /\ Uncapped' = Uncapped /\ Faults' = Faults /\ Seeds' = Seeds /\ Links' = Links
  BY SameSource
<1>2. Stayed' \subseteq Stayed
  BY <1>1 DEF Stayed
<1>3. ASSUME NEW d \in Depths, NEW t \in Trails(d)'
      PROVE  t \in Trails(d)
  <2>1. t \in [0..d -> Stayed'] /\ t[0] \in Seeds /\ \A i \in 1..d : t[i] \in Links[t[i - 1]]
    BY <1>1, <1>3 DEF Trails
  <2>2. t \in [0..d -> Stayed]
    BY <1>2, <2>1
  <2> QED  BY <2>1, <2>2 DEF Trails
<1> QED  BY <1>1, <1>2, <1>3 DEF Lossless

LEMMA CoverKept ==
  ASSUME IInv, NEW u, Advances(u), Puts(u)
  PROVE  CoverSound'
<1>1. /\ source' = source /\ job' = job /\ Canon' = Canon /\ Links' = Links /\ Depths' = Depths
      /\ MaxDepth' = MaxDepth /\ u \in Urls /\ crawl.pc = "crawling"
  BY SameSource, AtWork DEF Advances, AtStep
<1>2. Stayed' \subseteq Stayed /\ (Lossless' <=> Lossless) /\ \A d \in Depths : Trails(d)' \subseteq Trails(d)
  BY <1>1, SameWalks
<1>3. SUFFICES ASSUME Lossless
               PROVE  CoverSound'
  BY <1>2 DEF CoverSound
<1>4. /\ crawl'.visited = crawl.visited /\ crawl'.frontier = crawl.frontier /\ crawl'.level = crawl.level
      /\ \A v \in Urls \ {u} : crawl'.task[v] = crawl.task[v]
      /\ crawl.emitted \subseteq crawl'.emitted
  BY DEF Advances, Kept
<1>5. CoverSound
  BY DEF IInv
<1>6. Stayed \subseteq Urls
  BY TypedState DEF IInv, Typed, Stayed
<1>7. \A v \in Stayed : crawl'.task[v] \in {"upsert", "expand", "done"} => Canon[v] \in crawl'.emitted
  BY <1>1, <1>3, <1>4, <1>5, <1>6 DEF CoverSound, Puts
<1>8. ASSUME NEW v \in Stayed, crawl'.task[v] = "done"
      PROVE  crawl.task[v] = "done"
  BY <1>3, <1>4, <1>6, <1>8 DEF Puts
<1>9. \A x \in crawl'.emitted : \/ doc'[x].status = "active" /\ doc'[x].seenIn = job.id
                                \/ \E v \in Urls : crawl'.task[v] = "put" /\ Canon[v] = x
  BY <1>3 DEF Puts
<1>10. \A v \in Stayed, d \in Depths :
         crawl'.task[v] = "done" /\ v \in crawl.frontier[d] /\ d < MaxDepth =>
           \A w \in Links[v] : /\ w \in crawl.visited
                               /\ job.id = 1 => \E e \in 0..(d + 1) : w \in crawl.frontier[e]
  BY <1>1, <1>3, <1>5, <1>8 DEF CoverSound
<1>11. job.id = 1 => \A d \in Depths : d <= crawl.level =>
                       \A t \in Trails(d) : \E e \in 0..d : t[d] \in crawl.frontier[e]
  BY <1>1, <1>3, <1>5 DEF CoverSound
<1> QED  BY <1>1, <1>2, <1>4, <1>7, <1>9, <1>10, <1>11 DEF CoverSound

\* Emitted before the step and not being put by the page of the step: put before.
LEMMA EmittedStays ==
  ASSUME IInv, NEW u \in Urls, crawl.pc = "crawling", Lossless, NEW x \in crawl.emitted,
         \A v \in Urls \ {u} : crawl'.task[v] = crawl.task[v],
         crawl.task[u] # "put" \/ Canon[u] # x,
         doc'[x] = doc[x]
  PROVE  \/ doc'[x].status = "active" /\ doc'[x].seenIn = job.id
         \/ \E v \in Urls : crawl'.task[v] = "put" /\ Canon[v] = x
<1>1. \/ doc[x].status = "active" /\ doc[x].seenIn = job.id
      \/ \E v \in Urls : crawl.task[v] = "put" /\ Canon[v] = x
  BY DEF IInv, CoverSound
<1> QED  BY <1>1

LEMMA QueuedPuts ==
  ASSUME IInv, NEW u \in source.urls,
         RobotsDisallow(u) \/ OverCap(u) \/ FetchFails(u) \/ FetchUnchanged(u) \/ Fetch(u)
  PROVE  Puts(u)
<1>1. /\ Advances(u) /\ crawl'.emitted = crawl.emitted
      /\ crawl.task[u] = "none" /\ crawl'.task[u] \in {"emit", "done"}
  BY QueuedAdvances
<1>2. u \in Urls /\ crawl.pc = "crawling" /\ \A v \in Urls \ {u} : crawl'.task[v] = crawl.task[v]
  BY <1>1, AtWork DEF Advances, AtStep, Kept
<1>3. doc' = doc
  BY DEF RobotsDisallow, OverCap, FetchFails, FetchUnchanged, Fetch
<1>4. ASSUME Lossless, u \in Stayed
      PROVE  Fetch(u)
  <2>1. ~RobotsDisallow(u)
    BY <1>4 DEF RobotsDisallow, Stayed
  <2>2. ~OverCap(u)
    <3>1. SUFFICES ASSUME OverCap(u) PROVE FALSE
      OBVIOUS
    <3>2. u \notin Tasked
      BY <1>1 DEF Tasked
    <3>3. crawl.fetched + 1 <= Cardinality(source.urls) /\ crawl.fetched + 1 \in 0..Cardinality(Urls)
      BY <3>2, CountOne
    <3>4. MaxPages \in Nat /\ Cardinality(source.urls) \in Nat /\ crawl.fetched \in Nat
      BY SourceFacts, CrawlerFacts, CountTasked DEF IInv
    <3> QED  BY <1>4, <3>1, <3>3, <3>4 DEF OverCap, Lossless, Uncapped
  <2>3. ~FetchFails(u)
    BY <1>4 DEF FetchFails, Lossless, Stayed, IInv, SeriesSound
  <2>4. ~FetchUnchanged(u)
    BY <1>4 DEF FetchUnchanged, Unchanged, Lossless
  <2> QED  BY <2>1, <2>2, <2>3, <2>4
<1>5. Fetch(u) => crawl'.task[u] = "emit"
  <2>1. crawl \in Crawler
    BY TypedState DEF IInv, Typed
  <2> QED  BY <1>2, <2>1 DEF Fetch, Crawler
<1> QED  BY <1>1, <1>2, <1>3, <1>4, <1>5, EmittedStays DEF Puts

LEMMA TakenPuts ==
  ASSUME IInv, NEW u \in source.urls, Emit(u) \/ Put(u) \/ PutFails(u) \/ Upsert(u)
  PROVE  Puts(u)
<1>1. /\ Advances(u)
      /\ Emit(u) => /\ crawl.task[u] = "emit" /\ crawl'.emitted = crawl.emitted \cup {Canon[u]}
                    /\ crawl'.task[u] = IF Canon[u] \in crawl.emitted THEN "upsert" ELSE "put"
      /\ ~Emit(u) => crawl'.emitted = crawl.emitted
      /\ Put(u) \/ PutFails(u) => crawl.task[u] = "put" /\ crawl'.task[u] = "upsert"
      /\ Upsert(u) => crawl.task[u] = "upsert" /\ crawl'.task[u] = "expand"
  BY TakenAdvances
<1>2. u \in Urls /\ crawl.pc = "crawling" /\ \A v \in Urls \ {u} : crawl'.task[v] = crawl.task[v]
  BY <1>1, AtWork DEF Advances, AtStep, Kept
<1>3. /\ doc \in [Urls -> Document] /\ Canon[u] \in Urls
      /\ crawl.task[u] = "put" => Canon[u] \in crawl.emitted
  BY <1>2, SourceFacts, TypedState DEF IInv, Typed, EmitSound
<1>4. CASE Emit(u)
  <2>1. doc' = doc
    BY <1>4 DEF Emit
  <2>2. CASE Canon[u] \in crawl.emitted
    BY <1>1, <1>2, <1>4, <2>1, <2>2, EmittedStays DEF Puts
  <2>3. CASE Canon[u] \notin crawl.emitted
    BY <1>1, <1>2, <1>4, <2>1, <2>3, EmittedStays DEF Puts
  <2> QED  BY <2>2, <2>3
<1>5. CASE Put(u)
  <2> DEFINE r == [status |-> "active", hash |-> crawl.got[u], seenIn |-> job.id,
                   had |-> doc[Canon[u]].had \cup {crawl.got[u]}]
  <2>1. doc' = [doc EXCEPT ![Canon[u]] = r] /\ r.status = "active" /\ r.seenIn = job.id
    BY <1>5 DEF Put
  <2>2. ~Emit(u)
    BY <1>1, <1>5
  <2> HIDE DEF r
  <2>3. doc'[Canon[u]] = r /\ \A x \in Urls \ {Canon[u]} : doc'[x] = doc[x]
    BY <1>3, <2>1
  <2>4. crawl.emitted \subseteq Urls
    BY CrawlerFacts DEF IInv
  <2>5. ASSUME Lossless, NEW x \in crawl.emitted
        PROVE  \/ doc'[x].status = "active" /\ doc'[x].seenIn = job.id
               \/ \E v \in Urls : crawl'.task[v] = "put" /\ Canon[v] = x
    <3>1. CASE x = Canon[u]
      BY <2>1, <2>3, <3>1
    <3>2. CASE x # Canon[u]
      BY <1>2, <2>3, <2>4, <2>5, <3>2, EmittedStays
    <3> QED  BY <3>1, <3>2
  <2> QED  BY <1>1, <1>3, <1>5, <2>2, <2>5 DEF Puts
<1>6. CASE PutFails(u)
  BY <1>6 DEF PutFails, Puts, Lossless
<1>7. CASE Upsert(u)
  <2>1. doc' = doc /\ ~Emit(u)
    BY <1>1, <1>7 DEF Upsert
  <2>2. Lossless /\ u \in Stayed => Canon[u] \in crawl.emitted
    BY <1>1, <1>2, <1>7 DEF IInv, CoverSound
  <2> QED  BY <1>1, <1>2, <1>7, <2>1, <2>2, EmittedStays DEF Puts
<1> QED  BY <1>4, <1>5, <1>6, <1>7

LEMMA ProcessWalks ==
  ASSUME IInv, NEW u \in source.urls, Process(u), ~Expand(u)
  PROVE  WalkSound' /\ CoverSound'
<1>1. Advances(u) /\ Puts(u)
  BY QueuedAdvances, TakenAdvances, QueuedPuts, TakenPuts DEF Process
<1> QED  BY <1>1, WalkKept, CoverKept

LEMMA ExpandWalks ==
  ASSUME IInv, NEW u \in source.urls, Expand(u)
  PROVE  WalkSound' /\ CoverSound'
<1>1. source \in Sources /\ TypeOK /\ FrontierSound /\ CoverSound
  BY DEF IInv
<1>2. /\ UNCHANGED <<source, doc, job>>
      /\ u \in Urls /\ crawl.pc = "crawling" /\ crawl.level \in Depths /\ Met(u) /\ u \in Tasked
      /\ job.id > 0 /\ crawl.task[u] = "expand" /\ crawl'.task[u] = "done"
      /\ \A v \in Urls \ {u} : crawl'.task[v] = crawl.task[v]
      /\ crawl'.emitted = crawl.emitted
      /\ crawl'.pc = crawl.pc /\ crawl'.level = crawl.level /\ crawl'.skip = crawl.skip
      /\ NewLinks(u) \subseteq Urls \ crawl.visited
      /\ NewLinks(u) # {} => crawl.level + 1 \in Depths
      /\ crawl'.visited = crawl.visited \cup NewLinks(u)
      /\ \A d \in Depths : crawl'.frontier[d] =
           IF d = crawl.level + 1 THEN crawl.frontier[d] \cup NewLinks(u) ELSE crawl.frontier[d]
  BY ExpandWorks
<1>3. \A l \in Urls : \/ pages'[l] = pages[l]
                      \/ l \in NewLinks(u) /\ pages'[l].known /\ pages'[l].depth = crawl.level + 1
  BY ExpandRows
<1>4. /\ Canon' = Canon /\ Faults' = Faults /\ Seeds' = Seeds /\ Links' = Links /\ Depths' = Depths
      /\ MaxDepth' = MaxDepth
  BY <1>2, SameSource
<1>5. /\ MaxDepth \in Nat /\ Depths = 0..MaxDepth /\ crawl.level \in Nat /\ 0 \in Depths /\ Seeds \subseteq Urls
      /\ Links \in [Urls -> SUBSET source.urls] /\ source.urls \subseteq Urls
      /\ pages \in [Urls -> Page] /\ \A d \in Depths : crawl.frontier[d] \subseteq Urls
  BY <1>1, SourceFacts, CrawlerFacts, TypedState DEF Typed
<1>6. \A d \in Depths : crawl.frontier[d] \subseteq crawl'.frontier[d]
  BY <1>2
<1>7. \A v \in Urls : Met(v) => v \in crawl.visited
  BY <1>1, <1>2 DEF FrontierSound
<1>8. ASSUME "abort" \notin Faults
      PROVE  /\ \A v \in Seeds : pages'[v].depth = 0
             /\ WalkUnderWay'
  <2>1. WalkUnderWay /\ \A v \in Seeds : pages[v].depth = 0
    BY <1>2, <1>8 DEF IInv, WalkSound
  <2>2. \A v \in Seeds : v \in crawl.visited
    BY <1>5, <1>7, <2>1 DEF WalkUnderWay, Met
  <2>3. \A v \in Seeds : pages'[v].depth = 0
    BY <1>2, <1>3, <1>5, <2>1, <2>2
  <2>4. \A v \in NewLinks(u) : crawl.level + 1 \in Depths /\ v \in crawl'.frontier[crawl.level + 1]
    BY <1>2
  <2>5. ASSUME NEW v \in Urls, pages'[v].known
        PROVE  v \in crawl'.frontier[pages'[v].depth]
    <3>1. CASE pages'[v] = pages[v]
      <4>1. v \in crawl.frontier[pages[v].depth] /\ pages[v].depth \in Depths
        BY <1>5, <2>1, <2>5, <3>1 DEF WalkUnderWay, Page
      <4> QED  BY <1>6, <3>1, <4>1
    <3>2. CASE pages'[v] # pages[v]
      BY <1>3, <2>4, <3>2
    <3> QED  BY <3>1, <3>2
  <2>6. \A v \in crawl'.visited : \E d \in Depths : v \in crawl'.frontier[d]
    BY <1>2, <1>6, <2>1, <2>4 DEF WalkUnderWay
  <2>7. \A v \in Tasked' : crawl'.task[v] # "done" => v \in crawl'.frontier[crawl'.level]
    BY <1>2, <1>6, <2>1 DEF WalkUnderWay, Tasked
  <2>8. job.id = 1 => \A d \in Depths : d > crawl.level + 1 => crawl'.frontier[d] = {}
    <3> SUFFICES ASSUME job.id = 1, NEW d \in Depths, d > crawl.level + 1 PROVE crawl'.frontier[d] = {}
      OBVIOUS
    <3>1. d # crawl.level + 1
      BY <1>5
    <3>2. crawl'.frontier[d] = crawl.frontier[d]
      BY <1>2, <3>1
    <3> QED  BY <2>1, <3>2 DEF WalkUnderWay
  <2>9. Seeds \subseteq crawl'.frontier[0] /\ crawl'.skip = {}
    BY <1>2, <1>5, <1>6, <2>1 DEF WalkUnderWay
  <2> QED  BY <1>2, <1>4, <2>3, <2>5, <2>6, <2>7, <2>8, <2>9 DEF WalkUnderWay
<1>9. WalkSound'
  BY <1>2, <1>4, <1>8 DEF WalkSound
<1>10. Stayed' \subseteq Stayed /\ (Lossless' <=> Lossless) /\ \A d \in Depths : Trails(d)' \subseteq Trails(d)
  BY <1>2, SameWalks
<1>11. ASSUME Lossless
       PROVE  CoverSound'
  <2>1. WalkUnderWay
    BY <1>2, <1>11 DEF IInv, WalkSound, Lossless
  <2>2. Stayed \subseteq Urls
    BY TypedState DEF IInv, Typed, Stayed
  <2>3. \A v \in Stayed : crawl'.task[v] \in {"upsert", "expand", "done"} => Canon[v] \in crawl'.emitted
    BY <1>1, <1>2, <1>11, <2>2 DEF CoverSound
  <2>4. \A x \in crawl'.emitted : \/ doc'[x].status = "active" /\ doc'[x].seenIn = job.id
                                  \/ \E v \in Urls : crawl'.task[v] = "put" /\ Canon[v] = x
    BY <1>2, <1>11, EmittedStays
  <2>5. ASSUME NEW v \in Stayed, NEW d \in Depths, crawl'.task[v] = "done", v \in crawl'.frontier[d],
               d < MaxDepth, NEW w \in Links[v]
        PROVE  /\ w \in crawl'.visited
               /\ job.id = 1 => \E e \in 0..(d + 1) : w \in crawl'.frontier[e]
    <3>1. v \in Urls /\ v \in Tasked
      BY <1>2, <2>2, <2>5 DEF Tasked
    <3>2. v \in crawl.visited
      BY <1>1, <1>2, <1>7, <3>1 DEF FrontierSound
    <3>3. v \in crawl.frontier[d]
      BY <1>2, <2>5, <3>2
    <3>4. \A e \in 0..(d + 1) : e \in Depths
      BY <1>5, <2>5
    <3>5. CASE v # u
      <4>1. crawl.task[v] = "done"
        BY <1>2, <2>5, <3>1, <3>5
      <4>2. /\ w \in crawl.visited
            /\ job.id = 1 => \E e \in 0..(d + 1) : w \in crawl.frontier[e]
        BY <1>1, <1>2, <1>11, <2>5, <3>3, <4>1 DEF CoverSound
      <4> QED  BY <1>2, <1>6, <3>4, <4>2
    <3>6. CASE v = u
      <4>1. crawl.level <= d
        <5>1. SUFFICES ASSUME d < crawl.level PROVE FALSE
          BY <1>5, <2>5
        <5>2. GoneThrough(u)
          BY <1>1, <1>2, <3>3, <3>6, <5>1 DEF FrontierSound
        <5> QED  BY <1>2, <2>1, <5>2 DEF GoneThrough, WalkUnderWay
      <4>2. crawl.level < MaxDepth /\ crawl.level + 1 \in 0..(d + 1)
        BY <1>5, <2>5, <4>1
      <4>3. w \in crawl.visited \/ w \in NewLinks(u)
        BY <2>5, <3>6, <4>2 DEF NewLinks
      <4>4. ASSUME job.id = 1, w \in crawl.visited
            PROVE  \E e \in 0..(d + 1) : w \in crawl.frontier[e]
        <5>1. PICK e \in Depths : w \in crawl.frontier[e]
          BY <2>1, <4>4 DEF WalkUnderWay
        <5>2. ~(e > crawl.level + 1)
          BY <2>1, <4>4, <5>1 DEF WalkUnderWay
        <5>3. e \in 0..(d + 1)
          BY <1>5, <2>5, <4>1, <5>2
        <5> QED  BY <5>1, <5>3
      <4> QED  BY <1>2, <1>6, <3>4, <4>2, <4>3, <4>4
    <3> QED  BY <3>5, <3>6
  <2>6. ASSUME job.id = 1, NEW d \in Depths, d <= crawl.level, NEW t \in Trails(d)
        PROVE  \E e \in 0..d : t[d] \in crawl'.frontier[e]
    <3>1. PICK e \in 0..d : t[d] \in crawl.frontier[e]
      BY <1>1, <1>2, <1>11, <2>6 DEF CoverSound
    <3>2. e \in Depths
      BY <1>5, <2>6, <3>1
    <3> QED  BY <1>6, <3>1, <3>2
  <2> QED  BY <1>2, <1>4, <1>10, <2>3, <2>4, <2>5, <2>6 DEF CoverSound
<1> QED  BY <1>9, <1>10, <1>11 DEF CoverSound

\* The crawler stands still, and no page joins those present since the job was created.
LEMMA QuietWalks ==
  ASSUME IInv, UNCHANGED <<source, pages, doc, crawl>>, job'.id = job.id, job'.active = job.active,
         job'.full = job.full, job'.present \subseteq job.present
  PROVE  WalkSound' /\ CoverSound'
<1>1. /\ Canon' = Canon /\ Faults' = Faults /\ Seeds' = Seeds /\ Links' = Links /\ Depths' = Depths
      /\ MaxDepth' = MaxDepth
  BY SameSource
<1>2. Stayed' \subseteq Stayed /\ (Lossless' <=> Lossless) /\ \A d \in Depths : Trails(d)' \subseteq Trails(d)
  BY SameWalks
<1>3. WalkUnderWay => WalkUnderWay'
  BY <1>1 DEF WalkUnderWay, Tasked
<1>4. WalkSound'
  BY <1>1, <1>3 DEF IInv, WalkSound
<1>5. CoverSound'
  BY <1>1, <1>2 DEF IInv, CoverSound
<1> QED  BY <1>4, <1>5

LEMMA EnqueueSyncWalks ==
  ASSUME IInv, NEW full \in BOOLEAN, EnqueueSync(full)
  PROVE  WalkSound' /\ CoverSound'
<1>1. /\ source \in Sources /\ TypeOK /\ FrontierSound /\ SeriesSound /\ WalkSound
      /\ UNCHANGED <<source, pages, crawl>> /\ ~job.active /\ job'.id = job.id + 1
  BY DEF IInv, EnqueueSync
<1>2. job.id \in Nat /\ \A u \in Urls : pages[u].fetchedIn \in Nat /\ pages[u].fetchedIn <= job.id
  BY <1>1, SourceFacts, TypedState DEF Typed, Page, SeriesSound
<1>3. Faults' = Faults /\ Seeds' = Seeds
  BY <1>1, SameSource
<1>4. crawl'.pc # "crawling"
  BY <1>1, CrawlerFacts DEF FrontierSound
<1>5. WalkSound'
  BY <1>1, <1>2, <1>3, <1>4 DEF WalkSound
<1>6. CoverSound'
  BY <1>4 DEF CoverSound
<1> QED  BY <1>5, <1>6

\* The seeds and the recorded pages are the frontier of an attempt that is the job's first.
LEMMA StartAttemptWalks ==
  ASSUME IInv, StartAttempt
  PROVE  WalkSound' /\ CoverSound'
<1>1. /\ source \in Sources /\ TypeOK /\ SeriesSound /\ WalkSound
      /\ UNCHANGED <<source, pages, doc, job>> /\ job.active /\ crawl.pc = "idle"
  BY DEF IInv, StartAttempt
<1>2. /\ MaxDepth \in Nat /\ Seeds \subseteq Urls /\ Depths = 0..MaxDepth /\ 0 \in Depths
      /\ pages \in [Urls -> Page] /\ job.present \subseteq Urls
  BY <1>1, SourceFacts, TypedState DEF Typed
<1> DEFINE vis == Seeds \cup {u \in Urls : pages[u].known}
           sk == {u \in Urls : pages[u].known /\ WithinSeries(u)}
           fr == [d \in Depths |-> {u \in Requeued : pages[u].depth = d}
                                        \cup (IF d = 0 THEN Seeds ELSE {})]
<1>3. crawl' = [Stopped EXCEPT !.pc = "crawling", !.visited = vis, !.skip = sk, !.frontier = fr]
  BY DEF StartAttempt
<1>4. vis \subseteq Urls /\ sk \subseteq Urls /\ fr \in [Depths -> SUBSET Urls]
  BY <1>2 DEF Requeued
<1>5. \A u \in Urls : u \in sk <=> pages[u].known /\ job.full /\ pages[u].fetchedIn = job.id
  BY DEF WithinSeries
<1>6. \A u \in Urls : u \in vis <=> u \in Seeds \/ pages[u].known
  BY <1>2
<1>7. \A u \in Urls, d \in Depths :
        u \in fr[d] <=> (u \in Requeued /\ pages[u].depth = d) \/ (d = 0 /\ u \in Seeds)
  OBVIOUS
<1> HIDE DEF fr, sk, vis
<1>8. Stopped \in Crawler /\ Stopped.task = [u \in Urls |-> "none"] /\ Stopped.level = 0
      /\ Stopped.emitted = {}
  BY <1>1, StoppedTyped DEF Stopped
<1>9. /\ crawl'.pc = "crawling" /\ crawl'.level = 0
      /\ crawl'.task = [u \in Urls |-> "none"] /\ crawl'.emitted = {}
      /\ crawl'.visited = vis /\ crawl'.skip = sk /\ crawl'.frontier = fr
  BY <1>3, <1>4, <1>8 DEF Crawler
<1>10. /\ Canon' = Canon /\ Faults' = Faults /\ Seeds' = Seeds /\ Links' = Links /\ Depths' = Depths
       /\ MaxDepth' = MaxDepth
  BY <1>1, SameSource
<1>11. \A u \in Urls : crawl'.task[u] = "none"
  BY <1>9
<1>12. \A u \in Seeds : u \in fr[0]
  BY <1>2, <1>7
<1>13. ASSUME "abort" \notin Faults
       PROVE  WalkUnderWay'
  <2>1. /\ \A u \in Seeds : pages[u].depth = 0
        /\ \A u \in Urls : pages[u].fetchedIn # job.id /\ (job.id = 1 => ~pages[u].known)
    BY <1>1, <1>13 DEF WalkSound
  <2>2. sk = {}
    BY <1>4, <1>5, <2>1
  <2>3. ASSUME NEW u \in Urls, pages[u].known
        PROVE  pages[u].depth \in Depths /\ u \in fr[pages[u].depth]
    <3>1. pages[u].depth \in Depths /\ pages[u].depth <= MaxDepth
      BY <1>2 DEF Page
    <3>2. CASE u \in Seeds
      BY <1>12, <2>1, <3>1, <3>2
    <3>3. CASE u \notin Seeds
      <4>1. u \in Requeued
        BY <2>1, <2>3, <3>1, <3>3 DEF Requeued, WithinSeries
      <4> QED  BY <1>7, <3>1, <4>1
    <3> QED  BY <3>2, <3>3
  <2>4. \A u \in vis : \E d \in Depths : u \in fr[d]
    BY <1>2, <1>4, <1>6, <1>12, <2>3
  <2>5. Tasked' = {}
    BY <1>11 DEF Tasked
  <2>6. ASSUME job.id = 1, NEW d \in Depths, d > 0 + 1
        PROVE  fr[d] = {}
    <3>1. d # 0 /\ fr[d] \subseteq Urls
      BY <1>2, <1>4, <2>6
    <3>2. Requeued = {}
      BY <2>1, <2>6 DEF Requeued
    <3> QED  BY <1>7, <3>1, <3>2
  <2> QED  BY <1>1, <1>9, <1>10, <1>12, <2>2, <2>3, <2>4, <2>5, <2>6 DEF WalkUnderWay
<1>14. WalkSound'
  BY <1>1, <1>9, <1>10, <1>13 DEF WalkSound
<1>15. CoverSound'
  <2>1. \A u \in Stayed' : crawl'.task[u] = "none"
    BY <1>1, <1>2, <1>11 DEF Stayed
  <2>2. \A d \in Depths : d <= 0 => \A t \in Trails(d)' : \E e \in 0..d : t[d] \in fr[e]
    <3>1. \A t \in Trails(0)' : t[0] \in Seeds
      BY <1>10 DEF Trails
    <3>2. \A d \in Depths : d <= 0 => d = 0 /\ 0 \in 0..0
      BY <1>2
    <3> QED  BY <1>12, <3>1, <3>2
  <2> QED  BY <1>9, <1>10, <2>1, <2>2 DEF CoverSound
<1> QED  BY <1>14, <1>15

\* The crawler stops: after an abort, or with its job.
LEMMA EndWalks ==
  ASSUME IInv, Finish \/ Abort \/ Discard
  PROVE  WalkSound' /\ CoverSound'
<1>1. /\ source \in Sources /\ WalkSound /\ UNCHANGED <<source, pages>>
      /\ job'.id = job.id /\ ("abort" \in Faults \/ ~job'.active)
  <2>1. TypeOK
    BY DEF IInv
  <2> QED  BY <2>1 DEF IInv, Finish, Abort, Discard, TypeOK
<1>2. crawl'.pc = "idle"
  BY <1>1, StoppedTyped DEF Finish, Abort, Discard
<1>3. Faults' = Faults /\ Seeds' = Seeds
  BY <1>1, SameSource
<1>4. WalkSound'
  BY <1>1, <1>2, <1>3 DEF WalkSound
<1>5. CoverSound'
  BY <1>2 DEF CoverSound
<1> QED  BY <1>4, <1>5

\* A walk one link longer than the level that is done ends in the next one: the page before its
\* last has been gone through, so the frontier has what it links to.
LEMMA NextLevelWalks ==
  ASSUME IInv, NextLevel
  PROVE  WalkSound' /\ CoverSound'
<1>1. /\ source \in Sources /\ TypeOK /\ FrontierSound /\ WalkSound /\ CoverSound
      /\ UNCHANGED <<source, site, pages, doc, job>> /\ crawl.pc = "crawling"
      /\ crawl.level \in Depths /\ LevelDone /\ crawl \in Crawler
  BY CrawlerFacts, TypedState DEF IInv, NextLevel, Typed
<1>2. /\ crawl.level \in Nat /\ MaxDepth \in Nat /\ Depths = 0..MaxDepth
      /\ \A d \in Depths : crawl.frontier[d] \subseteq Urls
      /\ Stayed \subseteq Urls
  BY <1>1, SourceFacts, CrawlerFacts, TypedState DEF Typed, Stayed
<1>3. crawl' = [crawl EXCEPT !.level = crawl.level + 1]
  BY DEF NextLevel
<1>4. /\ crawl'.level = crawl.level + 1 /\ crawl'.pc = crawl.pc /\ crawl'.visited = crawl.visited
      /\ crawl'.skip = crawl.skip /\ crawl'.frontier = crawl.frontier /\ crawl'.task = crawl.task
      /\ crawl'.emitted = crawl.emitted
  BY <1>1, <1>3 DEF Crawler
<1>5. /\ Canon' = Canon /\ Faults' = Faults /\ Seeds' = Seeds /\ Links' = Links /\ Depths' = Depths
      /\ MaxDepth' = MaxDepth
  BY <1>1, SameSource
<1>6. Stayed' = Stayed /\ (Lossless' <=> Lossless) /\ \A d \in Depths : Trails(d)' = Trails(d)
  BY <1>1, <1>5, SameSource DEF Stayed, Lossless, Trails
<1>7. \A u \in Urls : crawl.task[u] \in {"none", "done"} /\ u \notin Queued
  BY <1>1 DEF LevelDone
<1>8. ASSUME "abort" \notin Faults
      PROVE  WalkUnderWay /\ WalkUnderWay'
  <2>1. WalkUnderWay
    BY <1>1, <1>8 DEF WalkSound
  <2>2. \A u \in Tasked' : crawl'.task[u] = "done"
    BY <1>4, <1>7 DEF Tasked
  <2>3. ASSUME job.id = 1, NEW d \in Depths, d > crawl'.level + 1
        PROVE  crawl.frontier[d] = {}
    <3>1. d > crawl.level + 1
      BY <1>2, <1>4, <2>3
    <3> QED  BY <2>1, <2>3, <3>1 DEF WalkUnderWay
  <2> QED  BY <1>1, <1>4, <1>5, <2>1, <2>2, <2>3 DEF WalkUnderWay
<1>9. WalkSound'
  BY <1>1, <1>4, <1>5, <1>8 DEF WalkSound
<1>10. ASSUME Lossless, job.id = 1, NEW d \in Depths, d <= crawl.level + 1, NEW t \in Trails(d)
       PROVE  \E e \in 0..d : t[d] \in crawl.frontier[e]
  <2>1. CASE d <= crawl.level
    BY <1>1, <1>10, <2>1 DEF CoverSound
  <2>2. CASE d = crawl.level + 1
    <3>1. /\ t \in [0..d -> Stayed] /\ t[0] \in Seeds
          /\ \A i \in 1..d : t[i] \in Links[t[i - 1]]
      BY <1>10 DEF Trails
    <3> DEFINE s == [i \in 0..crawl.level |-> t[i]]
    <3>2. s \in Trails(crawl.level)
      <4>1. s \in [0..crawl.level -> Stayed] /\ s[0] = t[0]
        BY <1>2, <2>2, <3>1
      <4>2. \A i \in 1..crawl.level : s[i] \in Links[s[i - 1]]
        <5> SUFFICES ASSUME NEW i \in 1..crawl.level PROVE s[i] \in Links[s[i - 1]]
          OBVIOUS
        <5>1. i \in 1..d /\ i \in 0..crawl.level /\ i - 1 \in 0..crawl.level
          BY <1>2, <2>2
        <5> QED  BY <3>1, <5>1
      <4> QED  BY <3>1, <4>1, <4>2 DEF Trails
    <3>3. s[crawl.level] = t[crawl.level] /\ t[crawl.level] \in Stayed /\ t[d] \in Links[t[crawl.level]]
      <4>1. crawl.level \in 0..crawl.level /\ crawl.level \in 0..d /\ d \in 1..d /\ d - 1 = crawl.level
        BY <1>2, <2>2
      <4> QED  BY <3>1, <4>1
    <3> HIDE DEF s
    <3>4. crawl.level <= crawl.level
      BY <1>2
    <3>5. PICK e \in 0..crawl.level : t[crawl.level] \in crawl.frontier[e]
      BY <1>1, <1>10, <3>2, <3>3, <3>4 DEF CoverSound
    <3>6. e \in Depths /\ e < MaxDepth /\ (e < crawl.level \/ e = crawl.level)
      BY <1>2, <1>10, <2>2
    <3>7. GoneThrough(t[crawl.level])
      <4>1. CASE e < crawl.level
        BY <1>1, <3>5, <3>6, <4>1 DEF FrontierSound
      <4>2. CASE e = crawl.level
        BY <1>1, <1>2, <1>7, <3>3, <3>5, <4>2 DEF Queued, GoneThrough
      <4> QED  BY <3>6, <4>1, <4>2
    <3>8. crawl.task[t[crawl.level]] = "done"
      BY <1>8, <1>10, <3>7 DEF GoneThrough, WalkUnderWay, Lossless
    <3>9. \E f \in 0..(e + 1) : t[d] \in crawl.frontier[f]
      BY <1>1, <1>10, <3>3, <3>5, <3>6, <3>8 DEF CoverSound
    <3>10. \A f \in 0..(e + 1) : f \in 0..d
      BY <1>2, <2>2
    <3> QED  BY <3>9, <3>10
  <2> QED  BY <1>2, <1>10, <2>1, <2>2
<1>11. CoverSound'
  <2> SUFFICES ASSUME Lossless PROVE CoverSound'
    BY <1>6 DEF CoverSound
  <2>1. \A u \in Stayed : crawl'.task[u] \in {"upsert", "expand", "done"} => Canon[u] \in crawl'.emitted
    BY <1>1, <1>4 DEF CoverSound
  <2>2. \A x \in crawl'.emitted : \/ doc'[x].status = "active" /\ doc'[x].seenIn = job'.id
                                  \/ \E v \in Urls : crawl'.task[v] = "put" /\ Canon[v] = x
    BY <1>1, <1>4 DEF CoverSound
  <2>3. \A u \in Stayed, d \in Depths :
         crawl'.task[u] = "done" /\ u \in crawl'.frontier[d] /\ d < MaxDepth =>
           \A v \in Links[u] : /\ v \in crawl'.visited
                               /\ job.id = 1 => \E e \in 0..(d + 1) : v \in crawl'.frontier[e]
    BY <1>1, <1>4 DEF CoverSound
  <2>4. job.id = 1 => \A d \in Depths : d <= crawl'.level =>
                       \A t \in Trails(d) : \E e \in 0..d : t[d] \in crawl'.frontier[e]
    BY <1>4, <1>10
  <2> QED  BY <1>1, <1>4, <1>5, <1>6, <2>1, <2>2, <2>3, <2>4 DEF CoverSound
<1> QED  BY <1>9, <1>11

\* Every step that can change a walk.
LEMMA StepWalks ==
  ASSUME IInv, Next
  PROVE  WalkSound' /\ CoverSound'
<1>1. ASSUME NEW u \in source.urls, NEW c \in source.contents \cup {Gone}, SiteChange(u, c)
      PROVE  WalkSound' /\ CoverSound'
  <2> DEFINE P == IF c = Gone THEN job.present \ {u} ELSE job.present
  <2>1. job' = [job EXCEPT !.present = P] /\ P \subseteq job.present
    BY <1>1 DEF SiteChange
  <2> HIDE DEF P
  <2>2. job'.id = job.id /\ job'.active = job.active /\ job'.full = job.full /\ job'.present = P
    BY <2>1 DEF IInv, TypeOK
  <2> QED  BY <1>1, <2>1, <2>2, QuietWalks DEF SiteChange
<1>2. CASE \E full \in BOOLEAN : EnqueueSync(full)
  BY <1>2, EnqueueSyncWalks
<1>3. CASE StartAttempt \/ NextLevel \/ Finish \/ Abort \/ Discard
  BY <1>3, StartAttemptWalks, NextLevelWalks, EndWalks
<1>4. ASSUME NEW u \in source.urls, Process(u)
      PROVE  WalkSound' /\ CoverSound'
  BY <1>4, ProcessWalks, ExpandWalks
<1> QED  BY <1>1, <1>2, <1>3, <1>4 DEF Next

-----------------------------------------------------------------------------
(* The theorems.                                                             *)

LEMMA InitHolds == Init => IInv
<1> SUFFICES ASSUME Init PROVE IInv
  OBVIOUS
<1>1. /\ Gone \notin Contents /\ IsFiniteSet(Urls) /\ source.urls \subseteq Urls /\ 0 \in Depths
      /\ source.jobs \in Nat /\ source.changes \in Nat /\ source.contents \subseteq Contents
      /\ Canon \in [Urls -> Urls] /\ source \in Sources
  BY SourceFacts DEF Init
<1>2. Stopped \in Crawler /\ Stopped.pc = "idle" /\ Stopped.emitted = {} /\ Stopped.fetched = 0
      /\ Stopped.task = [u \in Urls |-> "none"]
  BY <1>1, StoppedTyped
<1>3. NoPage \in Page /\ NoPage.hash = Gone /\ NoPage.fetchedIn = 0
  BY <1>1 DEF NoPage, Page
<1>4. NoDoc \in Document /\ NoDoc.status = "absent"
  BY <1>1 DEF NoDoc, Document
<1>5. site \in [is: [Urls -> Contents \cup {Gone}], changes: 0..source.changes]
  BY <1>1 DEF Init
<1>6. TypeOK
  BY <1>1, <1>2, <1>3, <1>4, <1>5 DEF Init, TypeOK
<1>7. FrontierSound
  BY <1>2 DEF Init, FrontierSound
<1>8. FetchSound
  <2>1. Tasked = {}
    BY <1>2 DEF Init, Tasked
  <2>2. Cardinality({}) = 0
    BY FS_EmptySet
  <2> QED  BY <1>2, <2>1, <2>2 DEF Init, FetchSound
<1>9. EmitSound /\ IngestSound /\ OnePutPerCanonical /\ HashMeansIngested
  BY <1>2, <1>3 DEF Init, EmitSound, IngestSound, OnePutPerCanonical, HashMeansIngested
<1>10. SeriesSound
  BY <1>1, <1>2, <1>3, <1>4 DEF Init, SeriesSound
<1>11. WalkSound /\ CoverSound
  <2>1. /\ crawl.pc # "crawling" /\ ~job.active /\ \A u \in Urls : pages[u].depth = 0 /\ ~pages[u].known
        /\ Seeds \subseteq Urls
    BY <1>1, <1>2, SourceFacts DEF Init, NoPage
  <2> QED  BY <2>1 DEF WalkSound, CoverSound
<1> QED  BY <1>1, <1>6, <1>7, <1>8, <1>9, <1>10, <1>11 DEF IInv

LEMMA StepHolds == IInv /\ [Next]_vars => IInv'
<1> SUFFICES ASSUME IInv, [Next]_vars PROVE IInv'
  OBVIOUS
<1>1. source' = source
  BY DEF Next, vars, SiteChange, EnqueueSync, StartAttempt, NextLevel, Finish, Abort, Discard, Process,
     RobotsDisallow, OverCap, FetchFails, FetchUnchanged, Fetch, Emit, Put, PutFails, Upsert, Expand
<1>2. Holds'
  <2>1. CASE \E u \in source.urls, c \in source.contents \cup {Gone} : SiteChange(u, c)
    BY <2>1, SiteChangeStep
  <2>2. CASE \E full \in BOOLEAN : EnqueueSync(full)
    BY <2>2, EnqueueSyncStep
  <2>3. CASE StartAttempt \/ NextLevel \/ Finish \/ Abort \/ Discard
    BY <2>3, StartAttemptStep, NextLevelStep, EndSteps
  <2>4. CASE \E u \in source.urls : Process(u)
    BY <2>4, TakeSteps, AnswerSteps, FetchStep, EmitStep, PutStep, PutFailsStep, UpsertStep, ExpandStep
       DEF Process
  <2>5. CASE UNCHANGED vars
    <3>1. UNCHANGED <<source, site, pages, doc, job, crawl>>
      BY <2>5 DEF vars
    <3>2. TypeOK' /\ FrontierSound' /\ SeriesSound'
      <4>1. TypeOK'
        BY <3>1, SameSource DEF IInv, TypeOK
      <4>2. FrontierSound'
        BY <3>1, SameSource DEF IInv, FrontierSound, Met, Tasked, GoneThrough
      <4>3. SeriesSound'
        BY <3>1, SameSource DEF IInv, SeriesSound
      <4> QED  BY <4>1, <4>2, <4>3
    <3> QED  BY <3>1, <3>2, CrawlQuiet DEF Holds
  <2> QED  BY <2>1, <2>2, <2>3, <2>4, <2>5 DEF Next
<1>3. WalkSound' /\ CoverSound'
  <2>1. CASE UNCHANGED vars
    BY <2>1, QuietWalks DEF vars
  <2> QED  BY <2>1, StepWalks
<1> QED  BY <1>1, <1>2, <1>3 DEF IInv, Holds

\* The inductive invariant holds: the frontier, the count of fetches, the emitted set and the
\* rows and documents of a series are consistent in every state (crawl.go run, process, finish).
THEOREM Invariance == Spec => []IInv
<1> QED  BY InitHolds, StepHolds, PTL DEF Spec

\* Site, rows, documents, job and crawler stay within their types.
THEOREM TypeCorrect == Spec => []TypeOK
<1>1. IInv => TypeOK
  BY DEF IInv
<1> QED  BY <1>1, Invariance, PTL

\* Two URLs of one canonical URL are never put at the same time (crawl.go emit).
THEOREM OnePutPerCanonicalAlways == Spec => []OnePutPerCanonical
<1>1. IInv => OnePutPerCanonical
  BY DEF IInv
<1> QED  BY <1>1, Invariance, PTL

\* A page recorded with a content hash has had that content ingested (crawl.go process).
THEOREM HashMeansIngestedAlways == Spec => []HashMeansIngested
<1>1. IInv => HashMeansIngested
  BY DEF IInv
<1> QED  BY <1>1, Invariance, PTL

\* Only the end of an attempt that went through the frontier takes documents out of the index.
LEMMA OnlyFinishDeletes ==
  ASSUME IInv, [Next]_vars, NEW x \in Urls, doc[x].status = "active", doc'[x].status # "active"
  PROVE  Finish /\ x \in Swept
<1>1. doc \in [Urls -> Document] /\ Canon \in [Urls -> Urls] /\ source.urls \subseteq Urls
  BY SourceFacts, TypedState DEF IInv, Typed
<1>2. \A u \in source.urls : ~Put(u)
  <2> SUFFICES ASSUME NEW u \in source.urls, Put(u) PROVE FALSE
    OBVIOUS
  <2> DEFINE r == [status |-> "active", hash |-> crawl.got[u], seenIn |-> job.id,
                   had |-> doc[Canon[u]].had \cup {crawl.got[u]}]
  <2>1. doc' = [doc EXCEPT ![Canon[u]] = r] /\ r.status = "active"
    BY DEF Put
  <2> HIDE DEF r
  <2>2. doc'[x] = doc[x] \/ doc'[x] = r
    BY <1>1, <2>1
  <2> QED  BY <2>1, <2>2
<1>3. doc' # doc
  OBVIOUS
<1>4. Finish
  BY <1>2, <1>3 DEF Next, vars, SiteChange, EnqueueSync, StartAttempt, NextLevel, Abort, Discard, Process,
     RobotsDisallow, OverCap, FetchFails, FetchUnchanged, Fetch, Emit, PutFails, Upsert, Expand
<1> QED  BY <1>4, FinishSweeps

\* Documents are deleted only when every page the crawl knows was gone through by this attempt
\* or fetched by an earlier one of its series (crawl.go run, finish).
THEOREM SweepsAfterFullPassAlways == Spec => SweepsAfterFullPass
<1> DEFINE A == (\E x \in Urls : doc[x].status = "active" /\ doc'[x].status = "deleted")
                  => \A u \in Urls : pages[u].known => GoneThrough(u)
<1>1. IInv /\ [Next]_vars => [A]_vars
  BY OnlyFinishDeletes, FinishGoneThrough
<1> QED  BY <1>1, Invariance, PTL DEF Spec, SweepsAfterFullPass

\* The delete pass removes no document of a page that was on the site since the job was
\* created, whatever was aborted and resumed in between (crawl.go run, finish).
THEOREM PresentNotSweptAlways == Spec => PresentNotSwept
<1> DEFINE A == \A u \in IF Faults \subseteq {"abort"} /\ Uncapped THEN job.present \ Disallowed ELSE {} :
                  Unshared(u) /\ doc[Canon[u]].status = "active" => doc'[Canon[u]].status = "active"
<1>1. IInv /\ [Next]_vars => [A]_vars
  <2> SUFFICES ASSUME IInv, [Next]_vars, Faults \subseteq {"abort"}, Uncapped,
                      NEW u \in job.present \ Disallowed, Unshared(u), doc[Canon[u]].status = "active",
                      doc'[Canon[u]].status # "active"
               PROVE  FALSE
    OBVIOUS
  <2>1. /\ source \in Sources /\ TypeOK /\ FrontierSound /\ SeriesSound
        /\ u \in Urls /\ Canon[u] \in Urls /\ job.id \in Nat
    BY SourceFacts, TypedState DEF IInv, Typed
  <2>2. Finish /\ job.full /\ doc[Canon[u]].seenIn < job.id
    BY <2>1, OnlyFinishDeletes, FinishSweeps
  <2>3. u \in Seeds \/ pages[u].known
    BY <2>1 DEF SeriesSound
  <2>4. GoneThrough(u)
    BY <2>1, <2>2, <2>3, FinishGoneThrough
  <2>5. pages[u].fetchedIn = job.id \/ crawl.task[u] = "done"
    BY <2>1, <2>2, <2>4 DEF GoneThrough, FrontierSound, Finish
  <2>6. doc[Canon[u]].seenIn = job.id
    BY <2>1, <2>2, <2>5 DEF SeriesSound
  <2> QED  BY <2>1, <2>2, <2>6
<1> QED  BY <1>1, Invariance, PTL DEF Spec, PresentNotSwept

\* A full sync that completes in one attempt has seen the document of every page it has to come
\* by: seeds, recorded pages and their links, and in the first sync all there is within
\* max_depth (crawl.go run, process, finish).
THEOREM FullSyncCoversAlways == Spec => FullSyncCovers
<1> DEFINE A == Finish /\ Lossless =>
                  \A u \in Stayed : Reachable(u) => doc'[Canon[u]].status = "active"
                                                    /\ doc'[Canon[u]].seenIn = job.id
<1>1. IInv /\ [Next]_vars => [A]_vars
  <2> SUFFICES ASSUME IInv, Finish, Lossless, NEW u \in Stayed, Reachable(u)
               PROVE  doc'[Canon[u]].status = "active" /\ doc'[Canon[u]].seenIn = job.id
    OBVIOUS
  <2>1. /\ source \in Sources /\ TypeOK /\ FrontierSound /\ CoverSound /\ crawl.pc = "crawling"
        /\ WalkUnderWay
    BY DEF IInv, WalkSound, Lossless, Finish
  <2>2. /\ MaxDepth \in Nat /\ crawl.level \in Nat /\ Depths = 0..MaxDepth /\ crawl.level > MaxDepth
        /\ Stayed \subseteq Urls /\ pages \in [Urls -> Page] /\ Canon[u] \in Urls
        /\ job.id \in Nat /\ Seeds \subseteq Urls
    BY <2>1, SourceFacts, CrawlerFacts, TypedState DEF Typed, Stayed, Finish
  <2>3. ASSUME NEW v \in Urls, Met(v)
        PROVE  crawl.task[v] = "done"
    <3>1. PICK d \in Depths : v \in crawl.frontier[d]
      BY <2>1, <2>3 DEF Met, WalkUnderWay
    <3>2. d < crawl.level
      BY <2>2
    <3> QED  BY <2>1, <3>1, <3>2 DEF FrontierSound, GoneThrough, WalkUnderWay
  <2>4. Met(u)
    <3>1. CASE u \in Seeds \/ pages[u].known
      BY <2>1, <2>2, <3>1 DEF FrontierSound
    <3>2. ASSUME NEW v \in Stayed, pages[v].known, pages[v].depth < MaxDepth, u \in Links[v]
          PROVE  Met(u)
      <4>1. v \in Urls /\ pages[v].depth \in Depths /\ v \in crawl.frontier[pages[v].depth]
        BY <2>1, <2>2, <3>2 DEF WalkUnderWay, Page
      <4>2. crawl.task[v] = "done"
        BY <2>3, <4>1 DEF Met
      <4>3. u \in crawl.visited
        BY <2>1, <3>2, <4>1, <4>2 DEF CoverSound
      <4> QED  BY <2>1, <4>3 DEF WalkUnderWay, Met
    <3>3. ASSUME job.id = 1, NEW d \in Depths, NEW t \in Trails(d), u = t[d]
          PROVE  Met(u)
      <4>1. d <= crawl.level /\ \A e \in 0..d : e \in Depths
        BY <2>2
      <4> QED  BY <2>1, <3>3, <4>1 DEF CoverSound, Met
    <3> QED  BY <3>1, <3>2, <3>3 DEF Reachable
  <2>5. Canon[u] \in crawl.emitted
    BY <2>1, <2>2, <2>3, <2>4 DEF CoverSound
  <2>6. \A v \in Urls : crawl.task[v] # "put"
    BY <2>1, <2>2 DEF FrontierSound, Tasked
  <2>7. doc[Canon[u]].status = "active" /\ doc[Canon[u]].seenIn = job.id
    BY <2>1, <2>5, <2>6 DEF CoverSound
  <2>8. Canon[u] \notin Swept
    BY <2>2, <2>7, FinishSweeps
  <2> QED  BY <2>2, <2>7, <2>8, FinishSweeps
<1> QED  BY <1>1, Invariance, PTL DEF Spec, FullSyncCovers

-----------------------------------------------------------------------------
(* What the crawl and the sink promise each other.                           *)

\* No document was seen by a job that is not there yet.
SeenBound == \A x \in Urls : doc[x].seenIn <= job.id

LEMMA PutWrites ==
  ASSUME IInv, NEW u \in source.urls, Put(u)
  PROVE  /\ Canon[u] \in Urls /\ doc'[Canon[u]].status = "active" /\ doc'[Canon[u]].seenIn = job.id
         /\ \A x \in Urls \ {Canon[u]} : doc'[x] = doc[x]
<1>1. doc \in [Urls -> Document] /\ Canon[u] \in Urls
  BY SourceFacts, TypedState DEF IInv, Typed
<1> DEFINE r == [status |-> "active", hash |-> crawl.got[u], seenIn |-> job.id,
                 had |-> doc[Canon[u]].had \cup {crawl.got[u]}]
<1>2. doc' = [doc EXCEPT ![Canon[u]] = r] /\ r.status = "active" /\ r.seenIn = job.id
  BY DEF Put
<1> HIDE DEF r
<1> QED  BY <1>1, <1>2

\* The steps that write no document and leave the job and the place of the crawl alone.
AtPage(u) == RobotsDisallow(u) \/ OverCap(u) \/ FetchFails(u) \/ FetchUnchanged(u) \/ Fetch(u)
             \/ Emit(u) \/ PutFails(u) \/ Upsert(u) \/ Expand(u)

LEMMA PageSteps ==
  ASSUME IInv, NEW u \in source.urls, AtPage(u)
  PROVE  UNCHANGED <<source, doc, job>> /\ crawl'.pc = crawl.pc /\ crawl'.level = crawl.level
<1>1. crawl \in Crawler
  BY TypedState DEF IInv, Typed
<1> QED  BY <1>1 DEF AtPage, Crawler, Goto, RobotsDisallow, OverCap, FetchFails, FetchUnchanged, Fetch,
            Emit, PutFails, Upsert, Expand

LEMMA SeenBoundStep == IInv /\ SeenBound /\ [Next]_vars => SeenBound'
<1> SUFFICES ASSUME IInv, SeenBound, [Next]_vars, NEW x \in Urls PROVE doc'[x].seenIn <= job'.id
  BY DEF SeenBound
<1>1. /\ job \in [id: 0..source.jobs, active: BOOLEAN, full: BOOLEAN, present: SUBSET Urls]
      /\ job.id \in Nat /\ doc[x].seenIn \in Nat /\ doc[x].seenIn <= job.id
  BY SourceFacts DEF IInv, TypeOK, Document, SeenBound
<1>2. CASE \E u \in source.urls, c \in source.contents \cup {Gone} : SiteChange(u, c)
  BY <1>1, <1>2 DEF SiteChange
<1>3. CASE \E full \in BOOLEAN : EnqueueSync(full)
  <2>1. doc' = doc /\ job'.id = job.id + 1
    BY <1>3 DEF EnqueueSync
  <2> QED  BY <1>1, <2>1
<1>4. CASE StartAttempt \/ NextLevel \/ Abort \/ Discard \/ UNCHANGED vars
  BY <1>1, <1>4 DEF StartAttempt, NextLevel, Abort, Discard, vars
<1>5. CASE Finish
  <2>1. doc'[x].seenIn = doc[x].seenIn /\ job'.id = job.id
    BY <1>1, <1>5, FinishSweeps DEF Finish
  <2> QED  BY <1>1, <2>1
<1>6. ASSUME NEW u \in source.urls, Process(u)
      PROVE  doc'[x].seenIn <= job'.id
  <2>1. CASE Put(u)
    <3>1. job' = job /\ (doc'[x].seenIn = job.id \/ doc'[x] = doc[x])
      BY <2>1, PutWrites DEF Put
    <3> QED  BY <1>1, <3>1
  <2>2. CASE AtPage(u)
    BY <1>1, <2>2, PageSteps
  <2> QED  BY <1>6, <2>1, <2>2 DEF Process, AtPage
<1> QED  BY <1>2, <1>3, <1>4, <1>5, <1>6 DEF Next

LEMMA SeenBounded == Spec => []SeenBound
<1>1. Init => SeenBound
  BY DEF Init, SeenBound, NoDoc
<1> QED  BY <1>1, Invariance, SeenBoundStep, PTL DEF Spec

LEMMA SameWalk ==
  ASSUME source' = source, doc' = doc, job'.id = job.id, job'.full = job.full,
         crawl'.pc = crawl.pc, crawl'.level = crawl.level
  PROVE  UNCHANGED Contract!vars
BY SameSource DEF Contract!vars, Phase, Live, Seen

LEMMA PhaseIs ==
  ASSUME IInv
  PROVE  /\ crawl.pc = "idle" => Phase = "idle"
         /\ crawl.pc = "crawling" /\ crawl.level \in Depths => Phase = "enumerating"
         /\ crawl.pc = "crawling" /\ crawl.level \notin Depths => Phase = "enumerated"
         /\ Live \subseteq Urls /\ Seen \subseteq Live
<1>1. crawl.level <= MaxDepth <=> crawl.level \in Depths
  BY CrawlerFacts DEF IInv
<1> QED  BY <1>1 DEF Phase, Live, Seen

\* A Put makes the page's document active, and one that the job has seen.
LEMMA PutKeepsContract ==
  ASSUME IInv, NEW u \in source.urls, Put(u)
  PROVE  \E x \in Urls : Contract!Put(x)
<1>1. /\ Canon[u] \in Urls /\ doc'[Canon[u]].status = "active" /\ doc'[Canon[u]].seenIn = job.id
      /\ \A x \in Urls \ {Canon[u]} : doc'[x] = doc[x]
  BY PutWrites
<1>2. source' = source /\ job' = job
  BY DEF Put
<1>3. crawl'.pc = crawl.pc /\ crawl'.level = crawl.level
  <2>1. crawl \in Crawler
    BY TypedState DEF IInv, Typed
  <2> QED  BY <2>1 DEF Put, Crawler
<1>4. Phase' = Phase
  BY <1>2, <1>3, SameSource DEF Phase
<1>5. Phase = "enumerating"
  <2>1. u \in Queued \/ crawl.task[u] \in {"emit", "put", "upsert", "expand"}
    BY DEF Put
  <2>2. crawl.pc = "crawling" /\ crawl.level \in Depths
    BY <2>1, AtWork
  <2> QED  BY <2>2, PhaseIs
<1>6. Live' = Live \cup {Canon[u]}
  BY <1>1 DEF Live
<1>7. Seen' = Seen \cup {Canon[u]}
  BY <1>1, <1>2, <1>6 DEF Seen, Live
<1> QED  BY <1>1, <1>2, <1>4, <1>5, <1>6, <1>7 DEF Contract!Put

\* The delete pass leaves the documents as they are, or those alone that the job has seen.
LEMMA FinishKeepsContract ==
  ASSUME IInv, IInv', SeenBound, Finish
  PROVE  Contract!Complete
<1>1. /\ \A x \in Urls : doc'[x].seenIn = doc[x].seenIn /\ (x \notin Swept => doc'[x] = doc[x])
      /\ job.id \in Nat /\ \A x \in Urls : doc[x].seenIn \in Nat
      /\ job'.id = job.id /\ job'.full = job.full
  <2>1. job \in [id: 0..source.jobs, active: BOOLEAN, full: BOOLEAN, present: SUBSET Urls]
    BY DEF IInv, TypeOK
  <2>2. job'.id = job.id /\ job'.full = job.full
    BY <2>1 DEF Finish
  <2>3. job.id \in Nat /\ \A x \in Urls : doc[x].seenIn \in Nat
    BY SourceFacts, TypedState DEF IInv, Typed, Document
  <2> QED  BY <2>2, <2>3, FinishSweeps
<1>2. crawl'.pc = "idle" /\ crawl.pc = "crawling" /\ crawl.level \notin Depths
  BY SourceFacts, CrawlerFacts, StoppedTyped DEF IInv, Finish
<1>3. Phase = "enumerated" /\ Phase' = "idle"
  BY <1>2, PhaseIs DEF Phase
<1>4. CASE Swept = {}
  <2>1. \A x \in Urls : doc'[x] = doc[x]
    BY <1>1, <1>4
  <2>2. Live' = Live /\ Seen' = Seen
    BY <1>1, <2>1 DEF Live, Seen
  <2> QED  BY <1>1, <1>3, <2>2 DEF Contract!Complete
<1>5. CASE Swept # {}
  <2>1. job.full /\ Swept = {x \in Live : doc[x].seenIn < job.id}
    BY <1>5 DEF Swept, Live
  <2>2. \A x \in Swept : doc'[x].status # "active"
    <3>1. \A x \in Swept : x \in Urls /\ doc[x] \in Document
      BY TypedState DEF Swept, IInv, Typed
    <3>2. ASSUME NEW x \in Swept PROVE doc'[x].status = "deleted"
      <4>1. doc'[x] = [doc[x] EXCEPT !.status = "deleted"]
        BY <3>1 DEF Finish
      <4> QED  BY <3>1, <4>1 DEF Document
    <3> QED  BY <3>2
  <2>3. Live' = Live \ Swept
    BY <1>1, <2>2 DEF Live, Swept
  <2>4. Seen = Live \ Swept
    <3>1. \A x \in Live : doc[x].seenIn = job.id <=> ~(doc[x].seenIn < job.id)
      BY <1>1 DEF Live, SeenBound
    <3> QED  BY <2>1, <3>1 DEF Seen
  <2>5. Seen' = Seen
    BY <1>1, <2>3, <2>4 DEF Seen, Live
  <2> QED  BY <1>1, <1>3, <2>1, <2>3, <2>4, <2>5 DEF Contract!Complete
<1> QED  BY <1>4, <1>5

\* A new job has seen nothing yet.
LEMMA EnqueueKeepsContract ==
  ASSUME IInv, SeenBound, NEW full \in BOOLEAN, EnqueueSync(full)
  PROVE  Contract!NewJob
<1>1. source' = source /\ doc' = doc /\ crawl' = crawl /\ job'.id = job.id + 1 /\ job'.full = full
  BY DEF EnqueueSync
<1>2. job.id \in Nat /\ \A x \in Urls : doc[x].seenIn \in Nat /\ doc[x].seenIn <= job.id
  BY SourceFacts, TypedState DEF IInv, Typed, Document, SeenBound
<1>3. Seen' = {}
  <2>1. \A x \in Urls : doc'[x].seenIn # job'.id
    BY <1>1, <1>2
  <2> QED  BY <2>1 DEF Seen, Live
<1>4. Phase = "idle"
  <2>1. crawl.pc = "idle"
    BY CrawlerFacts DEF IInv, FrontierSound, EnqueueSync
  <2> QED  BY <2>1, PhaseIs
<1>5. Phase' = Phase /\ Live' = Live
  BY <1>1, SameSource DEF Phase, Live
<1> QED  BY <1>1, <1>3, <1>4, <1>5 DEF Contract!NewJob

\* An attempt begins, is done with a level, or is cut off.
LEMMA AttemptKeepsContract ==
  ASSUME IInv, IInv', StartAttempt \/ NextLevel \/ Abort \/ Discard
  PROVE  Contract!Begin \/ Contract!Enumerated \/ Contract!End \/ UNCHANGED Contract!vars
<1>1. /\ source \in Sources /\ crawl \in Crawler /\ source' = source /\ doc' = doc
      /\ job \in [id: 0..source.jobs, active: BOOLEAN, full: BOOLEAN, present: SUBSET Urls]
      /\ crawl.level \in Nat /\ MaxDepth \in Nat /\ Depths = 0..MaxDepth
  BY SourceFacts, CrawlerFacts DEF IInv, TypeOK, StartAttempt, NextLevel, Abort, Discard
<1>2. job'.id = job.id /\ job'.full = job.full
  BY <1>1 DEF StartAttempt, NextLevel, Abort, Discard
<1>3. Live' = Live /\ Seen' = Seen
  BY <1>1, <1>2 DEF Live, Seen
<1>4. CASE StartAttempt
  <2>1. Stopped \in Crawler /\ Stopped.level = 0
    BY <1>1, StoppedTyped DEF Stopped
  <2>2. crawl.pc = "idle" /\ crawl'.pc = "crawling" /\ crawl'.level = 0
    BY <1>4, <2>1 DEF StartAttempt, Crawler
  <2>3. Phase = "idle" /\ Phase' = "enumerating"
    BY <1>1, <2>2, SameSource, PhaseIs DEF Phase
  <2> QED  BY <1>2, <1>3, <2>3 DEF Contract!Begin
<1>5. CASE NextLevel
  <2>1. /\ crawl.pc = "crawling" /\ crawl.level <= MaxDepth /\ crawl'.pc = "crawling"
        /\ crawl'.level = crawl.level + 1
    BY <1>1, <1>5 DEF NextLevel, Crawler
  <2>2. Phase = "enumerating" /\ Phase' \in {"enumerating", "enumerated"}
    BY <1>1, <2>1, SameSource DEF Phase
  <2> QED  BY <1>2, <1>3, <2>2 DEF Contract!Enumerated, Contract!vars
<1>6. CASE Abort
  <2>1. crawl.pc = "crawling" /\ crawl'.pc = "idle"
    BY <1>1, <1>6, StoppedTyped DEF Abort
  <2>2. Phase # "idle" /\ Phase' = "idle"
    BY <2>1 DEF Phase
  <2> QED  BY <1>2, <1>3, <2>2 DEF Contract!End
<1>7. CASE Discard
  <2>1. crawl' = crawl
    BY <1>7 DEF Discard
  <2> QED  BY <1>1, <1>2, <2>1, SameWalk
<1> QED  BY <1>4, <1>5, <1>6, <1>7

\* Every step keeps it: the crawl completes only after its last level, and the delete pass is
\* that of a full sync and spares what an attempt of the job has put (crawl.go run, finish;
\* sink.go Complete).
THEOREM ImplementsSyncContract == Spec => ContractSpec
<1>1. Init => Contract!Init
  <2> SUFFICES ASSUME Init PROVE Contract!Init
    OBVIOUS
  <2>1. Stopped.pc = "idle" /\ source \in Sources
    BY DEF Init, Stopped
  <2>2. \A x \in Urls : doc[x].status = "absent"
    BY DEF Init, NoDoc
  <2> QED  BY <2>1, <2>2 DEF Init, Contract!Init, Phase, Live, Seen
<1>2. IInv /\ IInv' /\ SeenBound /\ [Next]_vars
        => [Contract!Next]_<<Phase, job.full, Live, Seen>>
  <2> SUFFICES ASSUME IInv, IInv', SeenBound, [Next]_vars
               PROVE  Contract!Next \/ UNCHANGED Contract!vars
    BY DEF Contract!vars
  <2>1. CASE \E u \in source.urls, c \in source.contents \cup {Gone} : SiteChange(u, c)
    <3>1. job \in [id: 0..source.jobs, active: BOOLEAN, full: BOOLEAN, present: SUBSET Urls]
      BY DEF IInv, TypeOK
    <3>2. source' = source /\ doc' = doc /\ crawl' = crawl /\ job'.id = job.id /\ job'.full = job.full
      BY <2>1, <3>1 DEF SiteChange
    <3> QED  BY <3>2, SameWalk
  <2>2. CASE \E full \in BOOLEAN : EnqueueSync(full)
    BY <2>2, EnqueueKeepsContract DEF Contract!Next
  <2>3. CASE StartAttempt \/ NextLevel \/ Abort \/ Discard
    BY <2>3, AttemptKeepsContract DEF Contract!Next
  <2>4. CASE Finish
    BY <2>4, FinishKeepsContract DEF Contract!Next
  <2>5. ASSUME NEW u \in source.urls, Process(u)
        PROVE  Contract!Next \/ UNCHANGED Contract!vars
    <3>1. CASE Put(u)
      BY <3>1, PutKeepsContract DEF Contract!Next
    <3>2. CASE AtPage(u)
      BY <3>2, PageSteps, SameWalk
    <3> QED  BY <2>5, <3>1, <3>2 DEF Process, AtPage
  <2>6. CASE UNCHANGED vars
    BY <2>6, SameWalk DEF vars
  <2> QED  BY <2>1, <2>2, <2>3, <2>4, <2>5, <2>6 DEF Next
<1> QED  BY <1>1, <1>2, Invariance, SeenBounded, PTL DEF Spec, ContractSpec, Contract!Spec, Contract!vars
=============================================================================
