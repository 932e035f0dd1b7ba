------------------------ MODULE DocumentStore_proofs ------------------------
(***************************************************************************)
(* Proofs about DocumentStore for every set of documents, contents,        *)
(* models and workers and every bound.  IInv is the inductive invariant:   *)
(* its part PutsSound carries the wholeness of the stored versions through *)
(* the stages of Sink.Put, and SeriesOrdered the order of the delete       *)
(* boundaries through retries and rescues.                                 *)
(*                                                                         *)
(* The second half is about the sources whose documents these are:         *)
(* SourceLifecycle, taken as an instance.                                  *)
(***************************************************************************)
EXTENDS DocumentStore, SourceRows, TLAPS

USE DEF Null

\* Chunks of a whole version are chunk rows.
LEMMA WholeType ==
  ASSUME NEW h \in Hashes, NEW m \in Models
  PROVE  Whole(h, m) \subseteq Chunk
BY ConstantsAssumption DEF Whole, Chunk, Vec

\* The rows and idle records have their types.
LEMMA IdleType ==
  /\ Idle \in Attempt /\ Idle.since = 0 /\ Idle.pc = "idle"
  /\ NoPut \in PutCall /\ NoPut.pc = "none"
  /\ NoSweep \in GcCall
  /\ Absent \in DocRow /\ Absent.status = "absent" /\ Absent.cur = NoHash
<1>1. (CHOOSE m \in Models : TRUE) \in Models
  BY ConstantsAssumption
<1> QED
  BY <1>1, ConstantsAssumption
  DEF Idle, NoPut, NoSweep, Absent, DocRow, Attempt, PutCall, GcCall, Time, PutPC, GcPC

\* The updates of a documents row keep its type.
LEMMA DocRowType ==
  ASSUME NEW r \in DocRow, now \in Time
  PROVE  /\ SoftDeleteRow(r) \in DocRow
         /\ Touched(r) \in DocRow
         /\ [r EXCEPT !.seen = now] \in DocRow
         /\ \A h \in Hashes : [status |-> "active", cur |-> h, seen |-> now,
                               deletedAt |-> r.deletedAt] \in DocRow
BY DEF SoftDeleteRow, Touched, DocRow

\* Reused vectors are right: stored versions are whole, so a stored chunk with the
\* configured model has the vector of its own text by that model (embedcache.Lookup).
LEMMA HitsAreWhole ==
  ASSUME TypeOK, VersionsWhole, NEW h \in Hashes, NEW m \in Models
  PROVE  CacheHits(h, m) \subseteq Whole(h, m)
<1> SUFFICES ASSUME NEW c \in CacheHits(h, m)
             PROVE  c \in Whole(h, m)
  OBVIOUS
<1>1. PICK d \in Docs, g \in Hashes : ver[d][g] # NoVersion /\ c \in ver[d][g].chunks
  BY DEF CacheHits, StoredChunks
<1>2. PICK k \in Models : ver[d][g].chunks = Whole(g, k)
  BY <1>1 DEF VersionsWhole
<1>3. PICK t \in TextOf[g] : c = [text |-> t, model |-> k, vec |-> [of |-> t, by |-> k]]
  BY <1>1, <1>2 DEF Whole
<1>4. c.model = m /\ c.text \in TextOf[h]
  BY DEF CacheHits
<1> QED
  BY <1>3, <1>4 DEF Whole

\* Embedding the misses completes a set of right vectors (Sink.Put, step 5).
LEMMA MissesComplete ==
  ASSUME NEW h \in Hashes, NEW m \in Models, NEW hits, hits \subseteq Whole(h, m)
  PROVE  hits \cup Misses(h, m, hits) = Whole(h, m)
BY DEF Whole, Misses

\* Replacing one call in flight keeps the type of put.
LEMMA PutType ==
  ASSUME put \in [Workers -> [Docs -> PutCall]], NEW w \in Workers, NEW d \in Docs, NEW p \in PutCall
  PROVE  [put EXCEPT ![w][d] = p] \in [Workers -> [Docs -> PutCall]]
OBVIOUS

\* A call in flight carries a content hash.
LEMMA InFlightType ==
  ASSUME TypeOK, NEW w \in Workers, NEW d \in Docs, put[w][d].pc # "none"
  PROVE  put[w][d] \in [pc: PutPC \ {"none"}, hash: Hashes, chunks: SUBSET Chunk]
BY DEF TypeOK, PutCall, NoPut

\* Its next stage has the type of a call.
LEMMA AdvanceType ==
  ASSUME TypeOK, NEW w \in Workers, NEW d \in Docs, put[w][d].pc # "none",
         NEW pc \in PutPC \ {"none"}, NEW C \in SUBSET Chunk, Advance(w, d, pc, C)
  PROVE  put' \in [Workers -> [Docs -> PutCall]]
<1>1. put[w][d].hash \in Hashes
  BY InFlightType
<1>2. [pc |-> pc, hash |-> put[w][d].hash, chunks |-> C] \in PutCall
  BY <1>1 DEF PutCall
<1> QED
  BY <1>2, PutType DEF TypeOK, Advance

-----------------------------------------------------------------------------
(* Type correctness.                                                       *)

\* Every action keeps the columns and the calls in flight in their domains.
LEMMA TypeStep == TypeOK /\ [Next]_vars => TypeOK'
<1> SUFFICES ASSUME TypeOK, [Next]_vars PROVE TypeOK'
  OBVIOUS
<1> USE ConstantsAssumption
<1>1. CASE Tick
  BY <1>1 DEF TypeOK, Tick, Time
<1>2. ASSUME NEW full \in BOOLEAN, EnqueueSync(full) PROVE TypeOK'
  BY <1>2 DEF TypeOK, EnqueueSync, JobRow, Time
<1>3. ASSUME NEW w \in Workers, NEW m \in Models, StartAttempt(w, m) PROVE TypeOK'
  BY <1>3 DEF TypeOK, StartAttempt, SeenSince, Attempt, JobRow
<1>4. ASSUME NEW w \in Workers, FailAttempt(w) PROVE TypeOK'
  BY <1>4, IdleType DEF TypeOK, FailAttempt
<1>5. ASSUME NEW w \in Workers, Complete(w) PROVE TypeOK'
  <2>1. doc' \in [Docs -> DocRow]
    <3>1. \A d \in Docs : doc[d] \in DocRow /\ SoftDeleteRow(doc[d]) \in DocRow
      BY DocRowType DEF TypeOK
    <3>2. doc' = doc \/ SoftDeleteUnseen(exec[w].since)
      BY <1>5 DEF Complete
    <3>3. CASE SoftDeleteUnseen(exec[w].since)
      BY <3>1, <3>3 DEF SoftDeleteUnseen
    <3> QED
      BY <3>2, <3>3 DEF TypeOK
  <2>2. job' \in JobRow
    BY <1>5 DEF TypeOK, Complete, JobRow
  <2> QED
    BY <1>5, <2>1, <2>2, IdleType DEF TypeOK, Complete
<1>6. CASE DiscardJob
  BY <1>6 DEF TypeOK, DiscardJob, JobRow
<1>7. ASSUME NEW w \in Workers, NEW d \in Docs, SinkStep(w, d) PROVE TypeOK'
  <2>1. CASE ParseFails(w, d)
    BY <2>1 DEF TypeOK, ParseFails, Attempt
  <2>2. ASSUME NEW h \in Hashes, TouchIfUnchanged(w, d, h) PROVE TypeOK'
    <3>1. exec' \in [Workers -> Attempt]
      <4>1. exec' = [exec EXCEPT ![w] = [exec[w] EXCEPT !.sawDoc = TRUE]]
        BY <2>2 DEF TouchIfUnchanged
      <4>2. [exec[w] EXCEPT !.sawDoc = TRUE] \in Attempt
        BY DEF TypeOK, Attempt
      <4> QED
        BY <4>1, <4>2 DEF TypeOK
    <3>2. UNCHANGED <<now, ver, gc>>
      BY <2>2 DEF TouchIfUnchanged
    <3>3. CASE doc[d].cur = h
      <4>1. doc' = [doc EXCEPT ![d] = Touched(doc[d])] /\ Ingested(w, d) /\ UNCHANGED put
        BY <2>2, <3>3 DEF TouchIfUnchanged
      <4>2. Touched(doc[d]) \in DocRow
        BY DocRowType DEF TypeOK
      <4>3. doc' \in [Docs -> DocRow]
        BY <4>1, <4>2 DEF TypeOK
      <4>4. job' \in JobRow
        BY <4>1 DEF TypeOK, Ingested, JobRow
      <4> QED
        BY <3>1, <3>2, <4>1, <4>3, <4>4 DEF TypeOK
    <3>4. CASE doc[d].cur # h
      <4>1. /\ put' = [put EXCEPT ![w][d] = [pc |-> "lookup", hash |-> h, chunks |-> {}]]
            /\ UNCHANGED <<doc, job>>
        BY <2>2, <3>4 DEF TouchIfUnchanged
      <4>2. [pc |-> "lookup", hash |-> h, chunks |-> {}] \in PutCall
        BY DEF PutPC, PutCall
      <4>3. put' \in [Workers -> [Docs -> PutCall]]
        BY <4>1, <4>2, PutType DEF TypeOK
      <4> QED
        BY <3>1, <3>2, <4>1, <4>3 DEF TypeOK
    <3> QED
      BY <3>3, <3>4
  <2>3. CASE Lookup(w, d)
    <3>1. CacheHits(put[w][d].hash, exec[w].model) \subseteq Chunk
      BY DEF TypeOK, CacheHits, StoredChunks, VersionRow
    <3>2. put' \in [Workers -> [Docs -> PutCall]]
      BY <2>3, <3>1, AdvanceType DEF Lookup, InFlight, PutPC
    <3> QED
      BY <2>3, <3>2 DEF TypeOK, Lookup
  <2>4. CASE Embed(w, d)
    <3>1. put[w][d].hash \in Hashes /\ put[w][d].chunks \subseteq Chunk
      BY <2>4, InFlightType DEF Embed, InFlight
    <3>2. exec[w].model \in Models
      BY DEF TypeOK, Attempt
    <3>3. Misses(put[w][d].hash, exec[w].model, put[w][d].chunks) \subseteq Chunk
      BY <3>1, <3>2 DEF Misses, Chunk, Vec
    <3>4. put' \in [Workers -> [Docs -> PutCall]]
      BY <2>4, <3>1, <3>3, AdvanceType DEF Embed, InFlight, PutPC
    <3> QED
      BY <2>4, <3>4 DEF TypeOK, Embed
  <2>5. CASE PutRead(w, d)
    <3>1. put[w][d].chunks \subseteq Chunk
      BY <2>5, InFlightType DEF PutRead, InFlight
    <3>2. put' \in [Workers -> [Docs -> PutCall]]
      BY <2>5, <3>1, AdvanceType DEF PutRead, InFlight, PutPC
    <3> QED
      BY <2>5, <3>2 DEF TypeOK, PutRead
  <2>6. CASE PutTouch(w, d)
    BY <2>6, IdleType, DocRowType DEF TypeOK, PutTouch, Leave
  <2>7. CASE PutCommit(w, d)
    <3>1. put[w][d].hash \in Hashes /\ put[w][d].chunks \subseteq Chunk
      BY <2>7, InFlightType DEF PutCommit, InFlight
    <3>2. [created |-> now, chunks |-> put[w][d].chunks] \in VersionRow
      BY <3>1 DEF TypeOK, VersionRow
    <3>3. ver' \in [Docs -> [Hashes -> VersionRow \cup {NoVersion}]]
      BY <2>7, <3>1, <3>2 DEF TypeOK, PutCommit, VersionsAfterPut
    <3>4. doc' \in [Docs -> DocRow]
      BY <2>7, <3>1, DocRowType DEF TypeOK, PutCommit
    <3>5. job' \in JobRow
      BY <2>7 DEF TypeOK, PutCommit, Ingested, JobRow
    <3>6. put' \in [Workers -> [Docs -> PutCall]]
      BY <2>7, PutType, IdleType DEF TypeOK, PutCommit, Leave
    <3> QED
      BY <2>7, <3>3, <3>4, <3>5, <3>6 DEF TypeOK, PutCommit
  <2>8. CASE PutFails(w, d)
    BY <2>8, IdleType DEF TypeOK, PutFails, Leave
  <2> QED
    BY <1>7, <2>1, <2>2, <2>3, <2>4, <2>5, <2>6, <2>7, <2>8 DEF SinkStep
<1>8. ASSUME NEW d \in Docs, SoftDelete(d) PROVE TypeOK'
  BY <1>8, DocRowType DEF TypeOK, SoftDelete, JobRow
<1>9. CASE DeleteSource
  BY <1>9, IdleType DEF TypeOK, DeleteSource, JobRow, GcCall
<1>10. CASE GCStep
  <2>1. CASE GCStart
    <3>1. gc' = [pc |-> "versions", cutoff |-> now - Retention, versions |-> {}, docs |-> {}]
      BY <2>1 DEF GCStart, NoSweep
    <3>2. now - Retention \in Int
      BY DEF TypeOK, Time
    <3> QED
      BY <2>1, <3>1, <3>2 DEF TypeOK, GCStart, GcPC, GcCall
  <2>2. CASE GCPickVersions
    BY <2>2 DEF TypeOK, GCPickVersions, OldVersions, GcPC, GcCall
  <2>3. CASE GCDeleteVersions
    <3>1. gc' \in GcCall
      BY <2>3, IdleType DEF TypeOK, GCDeleteVersions, GcPC, GcCall
    <3>2. ver' \in [Docs -> [Hashes -> VersionRow \cup {NoVersion}]]
      <4>1. \/ UNCHANGED ver
            \/ ver' = [d \in Docs |-> [h \in Hashes |->
                          IF <<d, h>> \in gc.versions THEN NoVersion ELSE ver[d][h]]]
        BY <2>3 DEF GCDeleteVersions
      <4> DEFINE R == VersionRow \cup {NoVersion}
      <4>2. NoVersion \in R /\ ver \in [Docs -> [Hashes -> R]]
        BY DEF TypeOK
      <4> HIDE DEF R
      <4>3. ver' \in [Docs -> [Hashes -> R]]
        <5>1. CASE UNCHANGED ver
          BY <4>2, <5>1
        <5>2. CASE ver' = [d \in Docs |-> [h \in Hashes |->
                             IF <<d, h>> \in gc.versions THEN NoVersion ELSE ver[d][h]]]
          BY <4>2, <5>2
        <5> QED
          BY <4>1, <5>1, <5>2
      <4> QED
        BY <4>3 DEF R
    <3> QED
      BY <2>3, <3>1, <3>2 DEF TypeOK, GCDeleteVersions
  <2>4. CASE GCPickDocs
    BY <2>4 DEF TypeOK, GCPickDocs, ExpiredDocs, GcPC, GcCall
  <2>5. CASE GCDeleteDocs
    BY <2>5, IdleType DEF TypeOK, GCDeleteDocs, GcPC, GcCall
  <2>6. CASE GCFail
    BY <2>6, IdleType DEF TypeOK, GCFail
  <2> QED
    BY <1>10, <2>1, <2>2, <2>3, <2>4, <2>5, <2>6 DEF GCStep
<1>11. CASE UNCHANGED vars
  BY <1>11 DEF TypeOK, vars
<1> QED
  BY <1>1, <1>2, <1>3, <1>4, <1>5, <1>6, <1>7, <1>8, <1>9, <1>10, <1>11 DEF Next, JobStep

\* Every reachable state is well typed (the statements and calls keep the columns
\* and local variables in their domains).
THEOREM TypeCorrect == Spec => []TypeOK
<1>1. Init => TypeOK
  <2> SUFFICES ASSUME Init PROVE TypeOK
    OBVIOUS
  <2>1. job \in JobRow
    BY ConstantsAssumption DEF Init, JobRow, Time
  <2>2. now \in Time
    BY ConstantsAssumption DEF Init, Time
  <2> QED
    BY <2>1, <2>2, IdleType DEF Init, TypeOK, PutCall
<1> QED
  BY <1>1, TypeStep, PTL DEF Spec

-----------------------------------------------------------------------------
(* The inductive invariant, part by part.                                  *)

\* The steps that write version rows.
LEMMA VersionWriters ==
  ASSUME [Next]_vars
  PROVE  \/ UNCHANGED ver
         \/ \E w \in Workers, d \in Docs : PutCommit(w, d)
         \/ DeleteSource \/ GCDeleteVersions \/ GCDeleteDocs
BY DEF Next, JobStep, SinkStep, GCStep, vars, Tick, EnqueueSync, StartAttempt, FailAttempt,
       Complete, DiscardJob, ParseFails, TouchIfUnchanged, Lookup, Embed, PutRead, PutTouch,
       PutFails, SoftDelete, GCStart, GCPickVersions, GCPickDocs, GCFail

\* The writers other than a commit only remove rows.
LEMMA OthersRemove ==
  ASSUME DeleteSource \/ GCDeleteVersions \/ GCDeleteDocs, NEW d \in Docs, NEW h \in Hashes
  PROVE  ver'[d][h] = ver[d][h] \/ ver'[d][h] = NoVersion
<1>1. CASE DeleteSource
  BY <1>1 DEF DeleteSource
<1>2. CASE GCDeleteVersions
  <2>1. \/ UNCHANGED ver
        \/ ver' = [e \in Docs |-> [g \in Hashes |->
                      IF <<e, g>> \in gc.versions THEN NoVersion ELSE ver[e][g]]]
    BY <1>2 DEF GCDeleteVersions
  <2>2. CASE ver' = [e \in Docs |-> [g \in Hashes |->
                      IF <<e, g>> \in gc.versions THEN NoVersion ELSE ver[e][g]]]
    BY <2>2
  <2> QED
    BY <2>1, <2>2
<1>3. CASE GCDeleteDocs
  BY <1>3 DEF GCDeleteDocs
<1> QED
  BY <1>1, <1>2, <1>3

\* What a commit writes is whole: PutsSound at stage "commit".
LEMMA VersionsWholeStep == IInv /\ [Next]_vars => VersionsWhole'
<1> SUFFICES ASSUME IInv, [Next]_vars, NEW d \in Docs, NEW h \in Hashes, ver'[d][h] # NoVersion
             PROVE  \E m \in Models : ver'[d][h].chunks = Whole(h, m)
  BY DEF VersionsWhole, Whole
<1> USE DEF IInv
<1>1. CASE ver'[d][h] = ver[d][h]
  BY <1>1 DEF VersionsWhole
<1>2. CASE ver'[d][h] # ver[d][h]
  <2>1. ASSUME NEW w \in Workers, NEW e \in Docs, PutCommit(w, e)
        PROVE  \E m \in Models : ver'[d][h].chunks = Whole(h, m)
    <3>1. put[w][e].hash \in Hashes /\ put[w][e].pc = "commit"
      BY <2>1, InFlightType DEF PutCommit, InFlight
    <3>2. ver' = [ver EXCEPT ![e][put[w][e].hash] = [created |-> now, chunks |-> put[w][e].chunks]]
      BY <1>2, <2>1 DEF PutCommit, VersionsAfterPut
    <3>3. d = e /\ h = put[w][e].hash /\ ver'[d][h].chunks = put[w][e].chunks
      BY <1>2, <3>1, <3>2 DEF TypeOK
    <3>4. put[w][e].chunks = Whole(put[w][e].hash, exec[w].model)
      BY <3>1 DEF PutsSound
    <3>5. exec[w].model \in Models
      BY DEF TypeOK, Attempt
    <3> QED
      BY <3>3, <3>4, <3>5
  <2> QED
    BY <1>2, <2>1, OthersRemove, VersionWriters
<1> QED
  BY <1>1, <1>2

\* A stored version never changes: a commit reuses it as it is, and the other writers
\* only remove rows.
LEMMA VersionsKept ==
  ASSUME TypeOK, [Next]_vars, NEW d \in Docs, NEW h \in Hashes,
         ver[d][h] # NoVersion, ver'[d][h] # NoVersion
  PROVE  ver'[d][h] = ver[d][h]
<1>1. ASSUME NEW w \in Workers, NEW e \in Docs, PutCommit(w, e)
      PROVE  ver'[d][h] = ver[d][h]
  <2>1. put[w][e].hash \in Hashes
    BY <1>1, InFlightType DEF PutCommit, InFlight
  <2>2. CASE ver[e][put[w][e].hash] # NoVersion
    BY <1>1, <2>2 DEF PutCommit, VersionsAfterPut
  <2>3. CASE ver[e][put[w][e].hash] = NoVersion
    BY <1>1, <2>1, <2>3 DEF TypeOK, PutCommit, VersionsAfterPut
  <2> QED
    BY <2>2, <2>3
<1> QED
  BY <1>1, OthersRemove, VersionWriters

\* The steps that write document rows.
LEMMA DocWriters ==
  ASSUME [Next]_vars
  PROVE  \/ UNCHANGED doc
         \/ \E w \in Workers, d \in Docs, h \in Hashes : TouchIfUnchanged(w, d, h) /\ doc[d].cur = h
         \/ \E w \in Workers, d \in Docs : PutTouch(w, d) \/ PutCommit(w, d)
         \/ \E w \in Workers : Complete(w) /\ SoftDeleteUnseen(exec[w].since)
         \/ \E d \in Docs : SoftDelete(d)
         \/ DeleteSource \/ GCDeleteDocs
<1>1. ASSUME NEW w \in Workers, NEW d \in Docs, NEW h \in Hashes, TouchIfUnchanged(w, d, h)
      PROVE  UNCHANGED doc \/ doc[d].cur = h
  BY <1>1 DEF TouchIfUnchanged
<1>2. ASSUME NEW w \in Workers, Complete(w)
      PROVE  UNCHANGED doc \/ SoftDeleteUnseen(exec[w].since)
  BY <1>2 DEF Complete
<1>3. ASSUME NEW w \in Workers, NEW d \in Docs,
             ParseFails(w, d) \/ Lookup(w, d) \/ Embed(w, d) \/ PutRead(w, d) \/ PutFails(w, d)
      PROVE  UNCHANGED doc
  BY <1>3 DEF ParseFails, Lookup, Embed, PutRead, PutFails
<1>4. ASSUME NEW w \in Workers, FailAttempt(w) PROVE UNCHANGED doc
  BY <1>4 DEF FailAttempt
<1>5. ASSUME NEW w \in Workers, NEW m \in Models, StartAttempt(w, m) PROVE UNCHANGED doc
  BY <1>5 DEF StartAttempt
<1>6. ASSUME NEW full \in BOOLEAN, EnqueueSync(full) PROVE UNCHANGED doc
  BY <1>6 DEF EnqueueSync
<1>7. CASE Tick \/ DiscardJob \/ GCStart \/ GCPickVersions \/ GCDeleteVersions \/ GCPickDocs \/ GCFail
      \/ UNCHANGED vars
  BY <1>7 DEF Tick, DiscardJob, GCStart, GCPickVersions, GCDeleteVersions, GCPickDocs, GCFail, vars
<1> QED
  BY <1>1, <1>2, <1>3, <1>4, <1>5, <1>6, <1>7 DEF Next, JobStep, SinkStep, GCStep

\* A step other than a commit or a removal keeps a row's identity and current version.
LEMMA RowKept ==
  ASSUME IInv, [Next]_vars, NEW d \in Docs
  PROVE  \/ doc'[d].cur = doc[d].cur /\ (doc'[d].status = "absent" <=> doc[d].status = "absent")
         \/ \E w \in Workers : PutCommit(w, d)
         \/ doc'[d] = Absent /\ \A h \in Hashes : ver'[d][h] = NoVersion
<1> USE DEF IInv
<1>0. doc[d] \in DocRow
  BY DEF TypeOK
<1>1. ASSUME NEW w \in Workers, NEW e \in Docs, NEW h \in Hashes,
             TouchIfUnchanged(w, e, h), doc[e].cur = h
      PROVE  doc'[d].cur = doc[d].cur /\ (doc'[d].status = "absent" <=> doc[d].status = "absent")
  <2>1. doc' = [doc EXCEPT ![e] = Touched(doc[e])]
    BY <1>1 DEF TouchIfUnchanged
  <2>2. doc[e].status # "absent"
    BY <1>1, ConstantsAssumption DEF CurrentStored
  <2> QED
    BY <1>0, <2>1, <2>2 DEF TypeOK, Touched, DocRow
<1>2. ASSUME NEW w \in Workers, NEW e \in Docs, PutTouch(w, e)
      PROVE  doc'[d].cur = doc[d].cur /\ (doc'[d].status = "absent" <=> doc[d].status = "absent")
  BY <1>0, <1>2 DEF TypeOK, PutTouch, DocRow
<1>3. ASSUME NEW w \in Workers, NEW e \in Docs, PutCommit(w, e), e # d
      PROVE  doc'[d] = doc[d]
  BY <1>3 DEF TypeOK, PutCommit
<1>4. ASSUME NEW w \in Workers, SoftDeleteUnseen(exec[w].since)
      PROVE  doc'[d].cur = doc[d].cur /\ (doc'[d].status = "absent" <=> doc[d].status = "absent")
  BY <1>0, <1>4 DEF SoftDeleteUnseen, Unseen, SoftDeleteRow, DocRow
<1>5. ASSUME NEW e \in Docs, SoftDelete(e)
      PROVE  doc'[d].cur = doc[d].cur /\ (doc'[d].status = "absent" <=> doc[d].status = "absent")
  BY <1>0, <1>5 DEF TypeOK, SoftDelete, SoftDeleteRow, DocRow
<1>6. CASE DeleteSource
  BY <1>6 DEF DeleteSource
<1>7. CASE GCDeleteDocs
  BY <1>7 DEF GCDeleteDocs
<1> QED
  BY <1>1, <1>2, <1>3, <1>4, <1>5, <1>6, <1>7, DocWriters

\* The current version is stored: a commit stores what it points at, and the
\* collector's delete fails on a version that is pointed at (the foreign key).
LEMMA CurrentStoredStep == IInv /\ [Next]_vars => CurrentStored'
<1> SUFFICES ASSUME IInv, [Next]_vars, NEW d \in Docs
             PROVE  /\ doc'[d].status = "absent" <=> doc'[d].cur = NoHash
                    /\ doc'[d].cur # NoHash => ver'[d][doc'[d].cur] # NoVersion
  BY DEF CurrentStored
<1> USE DEF IInv
<1>1. ASSUME NEW w \in Workers, PutCommit(w, d)
      PROVE  /\ doc'[d].status = "active" /\ doc'[d].cur \in Hashes
             /\ ver'[d][doc'[d].cur] # NoVersion
  <2>1. put[w][d].hash \in Hashes /\ put[w][d].chunks \subseteq Chunk
    BY <1>1, InFlightType DEF PutCommit, InFlight
  <2>2. doc'[d].status = "active" /\ doc'[d].cur = put[w][d].hash
    BY <1>1 DEF TypeOK, PutCommit
  <2>3. [created |-> now, chunks |-> put[w][d].chunks] # NoVersion
    BY <2>1, ConstantsAssumption DEF TypeOK, VersionRow
  <2>4. ver'[d][put[w][d].hash] # NoVersion
    BY <1>1, <2>1, <2>3 DEF TypeOK, PutCommit, VersionsAfterPut
  <2> QED
    BY <2>1, <2>2, <2>4
<1>2. CASE doc'[d] = Absent
  BY <1>2, IdleType
<1>3. CASE /\ doc'[d].cur = doc[d].cur /\ (doc'[d].status = "absent" <=> doc[d].status = "absent")
           /\ doc'[d] # Absent
           /\ ~\E w \in Workers : PutCommit(w, d)
  <2>1. doc[d].cur # NoHash => doc[d].cur \in Hashes
    BY DEF TypeOK, DocRow
  <2>2. SUFFICES ASSUME doc[d].cur # NoHash PROVE ver'[d][doc[d].cur] # NoVersion
    BY <1>3 DEF CurrentStored
  <2>3. ver[d][doc[d].cur] # NoVersion
    BY <2>2 DEF CurrentStored
  <2>4. ASSUME NEW w \in Workers, NEW e \in Docs, PutCommit(w, e)
        PROVE  ver'[d][doc[d].cur] # NoVersion
    <3>1. e # d
      BY <1>3, <2>4
    <3> QED
      BY <2>1, <2>2, <2>3, <2>4, <3>1 DEF TypeOK, PutCommit, VersionsAfterPut
  <2>5. CASE DeleteSource
    BY <1>3, <2>5 DEF DeleteSource
  <2>6. CASE GCDeleteVersions
    <3>1. CASE UNCHANGED ver
      BY <2>3, <3>1
    <3>2. CASE ForeignKeyHolds /\ ver' = [e \in Docs |-> [g \in Hashes |->
                      IF <<e, g>> \in gc.versions THEN NoVersion ELSE ver[e][g]]]
      <4>1. <<d, doc[d].cur>> \notin gc.versions
        BY <3>2 DEF ForeignKeyHolds
      <4> QED
        BY <2>1, <2>2, <2>3, <3>2, <4>1
    <3> QED
      BY <2>6, <3>1, <3>2 DEF GCDeleteVersions
  <2>7. CASE GCDeleteDocs
    <3>1. d \notin gc.docs
      BY <1>3, <2>7 DEF GCDeleteDocs
    <3> QED
      BY <2>3, <2>7, <3>1 DEF GCDeleteDocs
  <2> QED
    BY <2>3, <2>4, <2>5, <2>6, <2>7, VersionWriters
<1> QED
  BY <1>1, <1>2, <1>3, RowKept, ConstantsAssumption

\* What a call in flight may carry, given its attempt.
Sound(p, x) ==
  /\ x.pc = "idle" => p.pc = "none"
  /\ p.pc = "embed" => p.chunks \subseteq Whole(p.hash, x.model)
  /\ p.pc \in {"read", "touch", "commit"} => p.chunks = Whole(p.hash, x.model)

\* The stages of Put keep what it carries right.
LEMMA PutsSoundStep == IInv /\ [Next]_vars => PutsSound'
<1> SUFFICES ASSUME IInv, [Next]_vars, NEW v \in Workers, NEW e \in Docs
             PROVE  Sound(put'[v][e], exec'[v])
  BY DEF PutsSound, Sound, Whole
<1> USE DEF IInv
<1>0. /\ Sound(put[v][e], exec[v]) /\ exec[v].model \in Models
      /\ \A w \in Workers : exec[w] \in Attempt
      /\ exec \in [Workers -> Attempt] /\ put \in [Workers -> [Docs -> PutCall]]
  BY DEF PutsSound, Sound, TypeOK, Attempt
<1>1. ASSUME UNCHANGED <<exec, put>> PROVE Sound(put'[v][e], exec'[v])
  BY <1>0, <1>1
<1>2. ASSUME NEW w \in Workers, NEW m \in Models, StartAttempt(w, m)
      PROVE  Sound(put'[v][e], exec'[v])
  <2>1. CASE v = w
    <3>1. put'[v][e].pc = "none" /\ exec'[v].pc = "running"
      BY <1>0, <1>2, <2>1 DEF StartAttempt, Sound
    <3> QED
      BY <3>1 DEF Sound
  <2>2. CASE v # w
    BY <1>0, <1>2, <2>2 DEF StartAttempt
  <2> QED
    BY <2>1, <2>2
<1>3. ASSUME NEW w \in Workers, FailAttempt(w) \/ Complete(w)
      PROVE  Sound(put'[v][e], exec'[v])
  <2>1. CASE v = w
    <3>1. put'[v][e].pc = "none"
      BY <1>0, <1>3, <2>1, IdleType DEF FailAttempt, Complete
    <3> QED
      BY <3>1 DEF Sound
  <2>2. CASE v # w
    BY <1>0, <1>3, <2>2 DEF FailAttempt, Complete
  <2> QED
    BY <2>1, <2>2
<1>4. ASSUME NEW w \in Workers, NEW d \in Docs, ParseFails(w, d)
      PROVE  Sound(put'[v][e], exec'[v])
  BY <1>0, <1>4 DEF ParseFails, Sound, Attempt
<1>5. ASSUME NEW w \in Workers, NEW d \in Docs, NEW h \in Hashes, TouchIfUnchanged(w, d, h)
      PROVE  Sound(put'[v][e], exec'[v])
  <2>1. exec'[v].pc = exec[v].pc /\ exec'[v].model = exec[v].model
    BY <1>0, <1>5 DEF TouchIfUnchanged, Attempt
  <2>2. CASE put'[v][e] = put[v][e]
    BY <1>0, <2>1, <2>2 DEF Sound
  <2>3. CASE put'[v][e] # put[v][e]
    <3>1. put' = [put EXCEPT ![w][d] = [pc |-> "lookup", hash |-> h, chunks |-> {}]]
      BY <1>5, <2>3 DEF TouchIfUnchanged
    <3>2. v = w /\ e = d /\ put'[v][e].pc = "lookup"
      BY <1>0, <2>3, <3>1
    <3>3. exec[w].pc = "running"
      BY <1>5 DEF TouchIfUnchanged, InFlight
    <3> QED
      BY <2>1, <3>2, <3>3 DEF Sound
  <2> QED
    BY <2>2, <2>3
<1>6. ASSUME NEW w \in Workers, NEW d \in Docs, Lookup(w, d)
      PROVE  Sound(put'[v][e], exec'[v])
  <2>1. CASE v = w /\ e = d
    <3>1. put[w][d].hash \in Hashes
      BY <1>6, InFlightType DEF Lookup, InFlight
    <3>2. put'[v][e] = [pc |-> "embed", hash |-> put[w][d].hash,
                        chunks |-> CacheHits(put[w][d].hash, exec[w].model)]
      BY <1>0, <1>6, <2>1 DEF Lookup, Advance
    <3>3. exec'[v] = exec[w] /\ exec[w].pc = "running"
      BY <1>6, <2>1 DEF Lookup, InFlight
    <3> QED
      BY <1>0, <2>1, <3>1, <3>2, <3>3, HitsAreWhole DEF Sound
  <2>2. CASE ~(v = w /\ e = d)
    BY <1>0, <1>6, <2>2 DEF Lookup, Advance
  <2> QED
    BY <2>1, <2>2
<1>7. ASSUME NEW w \in Workers, NEW d \in Docs, Embed(w, d)
      PROVE  Sound(put'[v][e], exec'[v])
  <2>1. CASE v = w /\ e = d
    <3>1. put[w][d].hash \in Hashes /\ put[w][d].pc = "embed" /\ exec[w].pc = "running"
      BY <1>7, InFlightType DEF Embed, InFlight
    <3>2. put'[v][e] = [pc |-> "read", hash |-> put[w][d].hash,
                        chunks |-> put[w][d].chunks
                                     \cup Misses(put[w][d].hash, exec[w].model, put[w][d].chunks)]
      BY <1>0, <1>7, <2>1 DEF Embed, Advance
    <3>3. exec'[v] = exec[w]
      BY <1>7, <2>1 DEF Embed
    <3>4. put[w][d].chunks \subseteq Whole(put[w][d].hash, exec[w].model)
      BY <1>0, <2>1, <3>1 DEF Sound
    <3>5. put'[v][e].chunks = Whole(put[w][d].hash, exec[w].model)
      BY <1>0, <2>1, <3>1, <3>2, <3>4, MissesComplete
    <3> QED
      BY <3>1, <3>2, <3>3, <3>5 DEF Sound
  <2>2. CASE ~(v = w /\ e = d)
    BY <1>0, <1>7, <2>2 DEF Embed, Advance
  <2> QED
    BY <2>1, <2>2
<1>8. ASSUME NEW w \in Workers, NEW d \in Docs, PutRead(w, d)
      PROVE  Sound(put'[v][e], exec'[v])
  <2>1. CASE v = w /\ e = d
    <3>1. put[w][d].pc = "read" /\ exec[w].pc = "running" /\ exec'[v] = exec[w]
      BY <1>8, <2>1 DEF PutRead, InFlight
    <3>2. /\ put'[v][e].pc \in {"touch", "commit"} /\ put'[v][e].hash = put[w][d].hash
          /\ put'[v][e].chunks = put[w][d].chunks
      BY <1>0, <1>8, <2>1 DEF PutRead, Advance
    <3> QED
      BY <1>0, <2>1, <3>1, <3>2 DEF Sound
  <2>2. CASE ~(v = w /\ e = d)
    BY <1>0, <1>8, <2>2 DEF PutRead, Advance
  <2> QED
    BY <2>1, <2>2
<1>9. ASSUME NEW w \in Workers, NEW d \in Docs, PutTouch(w, d) \/ PutCommit(w, d) \/ PutFails(w, d)
      PROVE  Sound(put'[v][e], exec'[v])
  <2>1. put' = [put EXCEPT ![w][d] = NoPut] /\ exec' = exec
    BY <1>9 DEF PutTouch, PutCommit, PutFails, Leave
  <2>2. CASE v = w /\ e = d
    <3>1. put'[v][e].pc = "none"
      BY <1>0, <2>1, <2>2, IdleType
    <3> QED
      BY <3>1 DEF Sound
  <2>3. CASE ~(v = w /\ e = d)
    BY <1>0, <2>1, <2>3
  <2> QED
    BY <2>2, <2>3
<1>10. ASSUME NEW full \in BOOLEAN, EnqueueSync(full) PROVE UNCHANGED <<exec, put>>
  BY <1>10 DEF EnqueueSync
<1>11. ASSUME NEW d \in Docs, SoftDelete(d) PROVE UNCHANGED <<exec, put>>
  BY <1>11 DEF SoftDelete
<1>12. CASE Tick \/ DiscardJob \/ DeleteSource \/ GCStep \/ UNCHANGED vars
  <2>1. UNCHANGED <<exec, put>>
    BY <1>12 DEF Tick, DiscardJob, DeleteSource, GCStep, GCStart, GCPickVersions, GCDeleteVersions,
                 GCPickDocs, GCDeleteDocs, GCFail, vars
  <2> QED
    BY <1>1, <2>1
<1> QED
  BY <1>1, <1>2, <1>3, <1>4, <1>5, <1>6, <1>7, <1>8, <1>9, <1>10, <1>11, <1>12
  DEF Next, JobStep, SinkStep

\* What the current job requires of the row of a document it ingested.
Fresh(r, since) == r.status # "deleted" /\ (r.status = "active" => r.seen >= since)

\* Delete boundaries never overtake what the current job ingested.
LEMMA SeriesOrderedStep == IInv /\ [Next]_vars => SeriesOrdered'
<1> SUFFICES ASSUME IInv, [Next]_vars
             PROVE  /\ job'.since <= now'
                    /\ \A w \in Workers : exec'[w].since <= job'.since
                    /\ \A d \in job'.ingested : Fresh(doc'[d], job'.since)
  BY DEF SeriesOrdered, Fresh
<1> USE DEF IInv
<1>0. /\ now \in Int /\ job.since \in Int /\ job.since <= now /\ 0 <= job.since
      /\ \A w \in Workers : exec[w].since \in Int /\ exec[w].since <= job.since
      /\ \A d \in job.ingested : Fresh(doc[d], job.since)
      /\ \A d \in Docs : doc[d] \in DocRow /\ doc[d].seen \in Int
      /\ job.ingested \subseteq Docs
  BY ConstantsAssumption DEF TypeOK, JobRow, Attempt, DocRow, Time, SeriesOrdered, Fresh
<1>a. exec \in [Workers -> Attempt] /\ doc \in [Docs -> DocRow] /\ job \in JobRow
  BY DEF TypeOK
\* The clock and the attempts.
<1>1. CASE job'.since = job.since
  <2>1. now <= now'
    <3>1. CASE Tick
      BY <1>0, <3>1 DEF Tick
    <3>2. CASE UNCHANGED now
      BY <1>0, <3>2
    <3> QED
      BY <3>1, <3>2 DEF Next, JobStep, SinkStep, GCStep, vars, EnqueueSync, StartAttempt, FailAttempt,
         Complete, DiscardJob, ParseFails, TouchIfUnchanged, Lookup, Embed, PutRead, PutTouch,
         PutCommit, PutFails, SoftDelete, DeleteSource, GCStart, GCPickVersions, GCDeleteVersions,
         GCPickDocs, GCDeleteDocs, GCFail
  <2>2. now' \in Int
    BY TypeStep DEF TypeOK, Time
  <2>3. ASSUME NEW v \in Workers PROVE exec'[v].since <= job.since
    <3>1. ASSUME NEW w \in Workers, NEW m \in Models, StartAttempt(w, m)
          PROVE  exec'[v].since <= job.since
      BY <1>0, <1>a, <3>1 DEF StartAttempt, SeenSince
    <3>2. ASSUME NEW w \in Workers, FailAttempt(w) \/ Complete(w)
          PROVE  exec'[v].since <= job.since
      BY <1>0, <1>a, <3>2, IdleType DEF FailAttempt, Complete
    <3>3. ASSUME NEW w \in Workers, NEW d \in Docs, SinkStep(w, d)
          PROVE  exec'[v].since <= job.since
      <4>1. exec' = exec \/ exec' = [exec EXCEPT ![w] = [exec[w] EXCEPT !.sawDoc = TRUE]]
        BY <3>3 DEF SinkStep, ParseFails, TouchIfUnchanged, Lookup, Embed, PutRead, PutTouch,
                    PutCommit, PutFails
      <4> QED
        BY <1>0, <1>a, <4>1 DEF Attempt
    <3>4. CASE UNCHANGED exec
      BY <1>0, <3>4
    <3> QED
      BY <3>1, <3>2, <3>3, <3>4 DEF Next, JobStep, GCStep, vars, Tick, EnqueueSync, DiscardJob,
         SoftDelete, DeleteSource, GCStart, GCPickVersions, GCDeleteVersions, GCPickDocs,
         GCDeleteDocs, GCFail
  <2>4. ASSUME NEW e \in job'.ingested PROVE Fresh(doc'[e], job.since)
    \* A row that is written is either fresh at once, or was and is not swept.
    <3>1. ASSUME NEW w \in Workers, NEW d \in Docs, NEW h \in Hashes, TouchIfUnchanged(w, d, h)
          PROVE  Fresh(doc'[e], job.since)
      <4>1. CASE doc[d].cur = h
        <5>1. doc' = [doc EXCEPT ![d] = Touched(doc[d])] /\ Ingested(w, d)
          BY <3>1, <4>1 DEF TouchIfUnchanged
        <5>2. Touched(doc[d]).status = "active" /\ Touched(doc[d]).seen = now
          BY <1>0 DEF Touched, DocRow
        <5>3. e \in job.ingested \cup {d}
          BY <1>a, <5>1 DEF Ingested, JobRow
        <5> QED
          BY <1>0, <1>a, <5>1, <5>2, <5>3 DEF Fresh
      <4>2. CASE doc[d].cur # h
        BY <1>0, <3>1, <4>2 DEF TouchIfUnchanged
      <4> QED
        BY <4>1, <4>2
    <3>2. ASSUME NEW w \in Workers, NEW d \in Docs, PutTouch(w, d)
          PROVE  Fresh(doc'[e], job.since)
      BY <1>0, <1>a, <3>2 DEF PutTouch, Fresh, DocRow
    <3>3. ASSUME NEW w \in Workers, NEW d \in Docs, PutCommit(w, d)
          PROVE  Fresh(doc'[e], job.since)
      <4>1. e \in job.ingested \cup {d}
        BY <1>a, <3>3 DEF PutCommit, Ingested, JobRow
      <4>2. doc'[d].status = "active" /\ doc'[d].seen = now
        BY <1>a, <3>3 DEF PutCommit
      <4>3. e # d => doc'[e] = doc[e]
        BY <1>a, <3>3 DEF PutCommit
      <4> QED
        BY <1>0, <4>1, <4>2, <4>3 DEF Fresh
    <3>4. ASSUME NEW w \in Workers, Complete(w)
          PROVE  Fresh(doc'[e], job.since)
      <4>1. e \in job.ingested
        BY <1>a, <3>4 DEF Complete, JobRow
      <4>2. e \notin Unseen(exec[w].since)
        BY <1>0, <4>1 DEF Unseen, Fresh
      <4> QED
        BY <1>0, <3>4, <4>1, <4>2 DEF Complete, SoftDeleteUnseen
    <3>5. ASSUME NEW d \in Docs, SoftDelete(d)
          PROVE  Fresh(doc'[e], job.since)
      BY <1>0, <1>a, <3>5 DEF SoftDelete, JobRow
    <3>6. CASE DeleteSource
      BY <1>a, <3>6 DEF DeleteSource, JobRow
    <3>7. CASE GCDeleteDocs
      BY <1>0, <1>a, <3>7, IdleType DEF GCDeleteDocs, Fresh
    <3>8. CASE UNCHANGED doc /\ job'.ingested = job.ingested
      BY <1>0, <3>8
    <3>9. ASSUME NEW full \in BOOLEAN, EnqueueSync(full)
          PROVE  Fresh(doc'[e], job.since)
      BY <3>9 DEF EnqueueSync
    <3>10. CASE DiscardJob
      BY <1>0, <1>a, <3>10 DEF DiscardJob, JobRow
    <3> QED
      BY <3>1, <3>2, <3>3, <3>4, <3>5, <3>6, <3>7, <3>8, <3>9, <3>10
      DEF Next, JobStep, SinkStep, GCStep, vars, Tick, StartAttempt, FailAttempt,
         ParseFails, Lookup, Embed, PutRead, PutFails, GCStart, GCPickVersions,
         GCDeleteVersions, GCPickDocs, GCFail
  <2> QED
    BY <1>0, <1>1, <2>1, <2>2, <2>3, <2>4
<1>2. CASE job'.since # job.since
  <2>1. PICK full \in BOOLEAN : EnqueueSync(full)
    <3>1. ASSUME NEW w \in Workers, NEW d \in Docs, SinkStep(w, d) PROVE job'.since = job.since
      BY <1>a, <3>1 DEF SinkStep, ParseFails, TouchIfUnchanged, Lookup, Embed, PutRead, PutTouch,
         PutCommit, PutFails, Ingested, JobRow
    <3>2. ASSUME NEW w \in Workers, Complete(w) PROVE job'.since = job.since
      BY <1>a, <3>2 DEF Complete, JobRow
    <3>3. ASSUME NEW d \in Docs, SoftDelete(d) PROVE job'.since = job.since
      BY <1>a, <3>3 DEF SoftDelete, JobRow
    <3>4. CASE DeleteSource \/ DiscardJob
      BY <1>2, <1>a, <3>4 DEF DeleteSource, DiscardJob, JobRow
    <3>5. CASE UNCHANGED job
      BY <1>2, <3>5
    <3> QED
      BY <1>2, <3>1, <3>2, <3>3, <3>4, <3>5 DEF Next, JobStep, GCStep, vars, Tick, StartAttempt,
         FailAttempt, GCStart, GCPickVersions, GCDeleteVersions, GCPickDocs, GCDeleteDocs, GCFail
  <2> QED
    BY <1>0, <2>1 DEF EnqueueSync
<1> QED
  BY <1>1, <1>2

-----------------------------------------------------------------------------
(* The theorems.                                                           *)

\* The inductive invariant holds in every reachable state: stored versions are whole,
\* current versions are stored, the calls in flight carry right vectors, and no delete
\* boundary lies after what the current job has ingested.
THEOREM Invariance == Spec => []IInv
<1>1. Init => IInv
  <2> SUFFICES ASSUME Init PROVE IInv
    OBVIOUS
  <2>1. TypeOK
    <3>1. job \in JobRow /\ now \in Time
      BY ConstantsAssumption DEF Init, JobRow, Time
    <3> QED
      BY <3>1, IdleType DEF Init, TypeOK, PutCall
  <2>2. VersionsWhole /\ CurrentStored
    BY IdleType DEF Init, VersionsWhole, CurrentStored
  <2>3. PutsSound
    BY IdleType DEF Init, PutsSound
  <2>4. SeriesOrdered
    BY IdleType DEF Init, SeriesOrdered
  <2> QED
    BY <2>1, <2>2, <2>3, <2>4 DEF IInv
<1>2. IInv /\ [Next]_vars => IInv'
  BY TypeStep, VersionsWholeStep, CurrentStoredStep, PutsSoundStep, SeriesOrderedStep DEF IInv
<1> QED
  BY <1>1, <1>2, PTL DEF Spec

\* A live document always has a whole current version (put.go, gc.go): what is stored
\* is whole, and what an active row points at is stored.
THEOREM LiveIsWholeAlways == Spec => []LiveIsWhole
<1>1. IInv => LiveIsWhole
  <2> SUFFICES ASSUME IInv, NEW d \in Docs, doc[d].status = "active"
               PROVE  /\ doc[d].cur \in Hashes
                      /\ ver[d][doc[d].cur] # NoVersion
                      /\ \E m \in Models : ver[d][doc[d].cur].chunks = Whole(doc[d].cur, m)
    BY DEF LiveIsWhole
  <2>1. doc[d].cur \in Hashes /\ ver[d][doc[d].cur] # NoVersion
    BY DEF IInv, TypeOK, CurrentStored, DocRow
  <2> QED
    BY <2>1 DEF IInv, VersionsWhole
<1> QED
  BY <1>1, Invariance, PTL

\* No delete pass removes what the current job has ingested, through any number of
\* retries, rescues and stale attempts of earlier jobs (sink.go Complete).
THEOREM IngestedNotSweptAlways == Spec => []IngestedNotSwept
<1>1. IInv => IngestedNotSwept
  BY DEF IInv, SeriesOrdered, IngestedNotSwept
<1> QED
  BY <1>1, Invariance, PTL

\* Stored versions are immutable (put.go, Invariant 2).
THEOREM VersionsImmutableAlways == Spec => VersionsImmutable
<1>1. TypeOK /\ [Next]_vars =>
        [\A d \in Docs, h \in Hashes :
           ver[d][h] # NoVersion /\ ver'[d][h] # NoVersion => ver'[d][h] = ver[d][h]]_vars
  BY VersionsKept
<1> QED
  BY <1>1, TypeCorrect, PTL DEF Spec, VersionsImmutable

-----------------------------------------------------------------------------
(* DocumentStore implements LiveIndex.                                     *)

\* Under the invariant a query sees an active row's current version, and only that.
LEMMA LiveValue ==
  ASSUME IInv, NEW d \in Docs
  PROVE  /\ doc[d].status = "active" =>
              /\ doc[d].cur \in Hashes /\ ver[d][doc[d].cur] # NoVersion
              /\ Live[d] = [hash |-> doc[d].cur, chunks |-> ver[d][doc[d].cur].chunks]
         /\ doc[d].status # "active" => Live[d] = Hidden
BY DEF IInv, TypeOK, CurrentStored, DocRow, Live

\* A step that neither commits nor restores a document makes none visible.
LEMMA NoneAppears ==
  ASSUME IInv, [Next]_vars, NEW e \in Docs,
         ~\E w \in Workers, d \in Docs, h \in Hashes : TouchIfUnchanged(w, d, h) /\ doc[d].cur = h,
         ~\E w \in Workers, d \in Docs : PutCommit(w, d),
         doc'[e].status = "active"
  PROVE  doc[e].status = "active" /\ doc'[e].cur = doc[e].cur
<1>0. doc \in [Docs -> DocRow]
  BY DEF IInv, TypeOK
<1>1. ASSUME NEW w \in Workers, NEW d \in Docs, PutTouch(w, d)
      PROVE  doc[e].status = "active" /\ doc'[e].cur = doc[e].cur
  BY <1>0, <1>1 DEF PutTouch, DocRow
<1>2. ASSUME NEW w \in Workers, SoftDeleteUnseen(exec[w].since)
      PROVE  doc[e].status = "active" /\ doc'[e].cur = doc[e].cur
  BY <1>0, <1>2 DEF SoftDeleteUnseen, SoftDeleteRow, DocRow
<1>3. ASSUME NEW d \in Docs, SoftDelete(d)
      PROVE  doc[e].status = "active" /\ doc'[e].cur = doc[e].cur
  BY <1>0, <1>3 DEF SoftDelete, SoftDeleteRow, DocRow
<1>4. CASE DeleteSource \/ GCDeleteDocs
  BY <1>4, IdleType DEF DeleteSource, GCDeleteDocs
<1> QED
  BY <1>1, <1>2, <1>3, <1>4, DocWriters

\* Every step publishes one whole version, hides documents, or changes nothing a
\* query can see.
LEMMA IndexStep == IInv /\ IInv' /\ [Next]_vars => [Index!Next]_Live
<1> SUFFICES ASSUME IInv, IInv', [Next]_vars PROVE Index!Next
  OBVIOUS
<1>l. /\ Live = [d \in Docs |-> Live[d]] /\ Live' = [d \in Docs |-> Live'[d]]
      /\ DOMAIN Live = Docs
  BY DEF Live
<1>v. ASSUME NEW d \in Docs
      PROVE  /\ doc'[d].status = "active" =>
                   /\ doc'[d].cur \in Hashes /\ ver'[d][doc'[d].cur] # NoVersion
                   /\ Live'[d] = [hash |-> doc'[d].cur, chunks |-> ver'[d][doc'[d].cur].chunks]
             /\ doc'[d].status # "active" => Live'[d] = Hidden
  BY DEF IInv, TypeOK, CurrentStored, DocRow, Live
\* A document is published and the others are left alone.
<1>1. ASSUME NEW d \in Docs, doc'[d].status = "active",
             \A e \in Docs \ {d} : doc'[e] = doc[e] /\ ver'[e] = ver[e]
      PROVE  Index!Next
  <2>1. PICK m \in Models : ver'[d][doc'[d].cur].chunks = Whole(doc'[d].cur, m)
    BY <1>1, <1>v DEF IInv, VersionsWhole, Whole
  <2>2. Live'[d] = [hash |-> doc'[d].cur, chunks |-> Index!Whole(doc'[d].cur, m)]
    BY <1>1, <1>v, <2>1 DEF Whole, Index!Whole
  <2>3. \A e \in Docs \ {d} : Live'[e] = Live[e]
    BY <1>1 DEF Live
  <2>4. Live' = [Live EXCEPT ![d] = [hash |-> doc'[d].cur, chunks |-> Index!Whole(doc'[d].cur, m)]]
    BY <1>l, <2>2, <2>3
  <2> QED
    BY <1>1, <1>v, <2>4 DEF Index!Next, Index!Publish
<1>2. ASSUME NEW w \in Workers, NEW d \in Docs, NEW h \in Hashes,
             TouchIfUnchanged(w, d, h), doc[d].cur = h
      PROVE  Index!Next
  <2>1. doc' = [doc EXCEPT ![d] = Touched(doc[d])] /\ ver' = ver
    BY <1>2 DEF TouchIfUnchanged
  <2>2. doc'[d].status = "active"
    BY <2>1 DEF IInv, TypeOK, Touched, DocRow
  <2>3. \A e \in Docs \ {d} : doc'[e] = doc[e] /\ ver'[e] = ver[e]
    BY <2>1 DEF IInv, TypeOK
  <2> QED
    BY <1>1, <2>2, <2>3
<1>3. ASSUME NEW w \in Workers, NEW d \in Docs, PutCommit(w, d)
      PROVE  Index!Next
  <2>1. doc'[d].status = "active" /\ \A e \in Docs \ {d} : doc'[e] = doc[e]
    BY <1>3 DEF IInv, TypeOK, PutCommit
  <2>2. \A e \in Docs \ {d} : ver'[e] = ver[e]
    BY <1>3 DEF IInv, TypeOK, PutCommit, VersionsAfterPut
  <2> QED
    BY <1>1, <2>1, <2>2
<1>4. CASE /\ ~\E w \in Workers, d \in Docs, h \in Hashes : TouchIfUnchanged(w, d, h) /\ doc[d].cur = h
           /\ ~\E w \in Workers, d \in Docs : PutCommit(w, d)
  <2> DEFINE S == {e \in Docs : doc'[e].status # "active"}
  <2>1. ASSUME NEW e \in Docs \ S PROVE Live'[e] = Live[e]
    <3>1. doc[e].status = "active" /\ doc'[e].cur = doc[e].cur
      BY <1>4, <2>1, NoneAppears
    <3>2. ver'[e][doc[e].cur] = ver[e][doc[e].cur]
      <4>1. doc[e].cur \in Hashes /\ ver[e][doc[e].cur] # NoVersion
        BY <3>1, LiveValue
      <4>2. ver'[e][doc[e].cur] # NoVersion
        BY <2>1, <3>1, <1>v
      <4> QED
        BY <4>1, <4>2, VersionsKept DEF IInv
    <3> QED
      <4>1. Live[e] = [hash |-> doc[e].cur, chunks |-> ver[e][doc[e].cur].chunks]
        BY <3>1, LiveValue
      <4>2. Live'[e] = [hash |-> doc'[e].cur, chunks |-> ver'[e][doc'[e].cur].chunks]
        BY <2>1, <1>v
      <4> QED
        BY <3>1, <3>2, <4>1, <4>2
  <2>2. \A e \in S : Live'[e] = Index!Hidden
    BY <1>v DEF Hidden, Index!Hidden
  <2>3. Live' = [e \in Docs |-> IF e \in S THEN Index!Hidden ELSE Live[e]]
    BY <1>l, <2>1, <2>2
  <2> QED
    BY <2>3 DEF Index!Next, Index!Hide
<1> QED
  BY <1>2, <1>3, <1>4

\* What retrieval sees of the database is a behaviour of LiveIndex: versions appear
\* whole and one at a time (the live_chunks view over put.go's transaction).
THEOREM ImplementsLiveIndex == Spec => IndexSpec
<1>1. Init => Index!Init
  BY IdleType DEF Init, Index!Init, Live, Hidden, Index!Hidden
<1> QED
  BY <1>1, IndexStep, Invariance, PTL DEF Spec, IndexSpec, Index!Spec

-----------------------------------------------------------------------------
(* The sources whose documents these are, and the jobs that sync and       *)
(* delete them.                                                            *)

L == INSTANCE SourceLifecycle

\* The inductive invariant of SourceLifecycle: its promises hold each by itself.
SourcesInv == L!TypeOK /\ OpenRowHasJob /\ RemovalIsOwed

\* A sweep keeps the rows of sources, sync jobs and the collection well formed.
LEMMA SweptTyped ==
  ASSUME L!TypeOK, NEW s \in Sources
  PROVE  /\ L!Swept(s) \in [status: {"none", "active", "paused", "deleting"}, cron: L!Crons,
                            due: BOOLEAN, runs: 0..(FullEvery - 1)]
         /\ L!Swept(s).status = src[s].status
         /\ L!SyncAfterSweep(s) \in [river: {"none", "active", "done"}, row: {"none", "open"},
                                     full: BOOLEAN]
         /\ L!SyncAfterSweep(s).row = "open" /\ OpenRowHasJob => L!SyncAfterSweep(s).river # "none"
<1>1. src[s] \in [status: {"none", "active", "paused", "deleting"}, cron: L!Crons,
                  due: BOOLEAN, runs: 0..(FullEvery - 1)]
  BY DEF L!TypeOK
<1>2. sync[s] \in [river: {"none", "active", "done"}, row: {"none", "open"}, full: BOOLEAN]
  BY DEF L!TypeOK
<1>3. (src[s].runs + 1) % FullEvery \in 0..(FullEvery - 1)
  BY <1>1, SourcesAssumption
<1>4. L!Swept(s) \in [status: {"none", "active", "paused", "deleting"}, cron: L!Crons,
                      due: BOOLEAN, runs: 0..(FullEvery - 1)]
      /\ L!Swept(s).status = src[s].status
  BY <1>1, <1>3 DEF L!Swept
<1>5. L!SyncAfterSweep(s) \in [river: {"none", "active", "done"}, row: {"none", "open"},
                               full: BOOLEAN]
  BY <1>2 DEF L!SyncAfterSweep, L!Enqueued, L!FullRun
<1>6. L!SyncAfterSweep(s).row = "open" /\ OpenRowHasJob => L!SyncAfterSweep(s).river # "none"
  BY <1>2 DEF L!SyncAfterSweep, L!Enqueued, L!FullRun, OpenRowHasJob
<1> QED
  BY <1>4, <1>5, <1>6

\* The requests of the sources API preserve the invariant.
LEMMA RequestsKeep ==
  ASSUME SourcesInv, NEW s \in Sources, L!Request(s) \/ L!EnqueueDelete(s)
  PROVE  SourcesInv'
<1> USE SourcesAssumption DEF SourcesInv, L!TypeOK, OpenRowHasJob, RemovalIsOwed
<1>1. CASE \E cron \in L!Crons : L!Create(s, cron)
  BY <1>1 DEF L!Create
<1>2. CASE \E status \in L!Settable \cup {src[s].status}, cron \in L!Crons :
               L!Update(s, status, cron)
  <2>1. PICK status \in L!Settable \cup {src[s].status}, cron \in L!Crons :
          L!Update(s, status, cron)
    BY <1>2
  <2>2. status \in {"none", "active", "paused", "deleting"}
    BY <2>1 DEF L!Settable
  <2>3. src' = [src EXCEPT ![s].status = status, ![s].cron = cron]
        /\ lapsed' = (IF status = "deleting" THEN lapsed ELSE lapsed \ {s})
        /\ UNCHANGED <<sync, del, collect, api, content, faults>>
    BY <2>1 DEF L!Update
  <2>4. L!TypeOK'
    <3> DEFINE Row == [status: {"none", "active", "paused", "deleting"}, cron: L!Crons,
                       due: BOOLEAN, runs: 0..(FullEvery - 1)]
    <3>1. src \in [Sources -> Row]
      OBVIOUS
    <3>2. [src[s] EXCEPT !.status = status, !.cron = cron] \in Row
      BY <2>1, <2>2, <3>1
    <3>3. src' = [src EXCEPT ![s] = [src[s] EXCEPT !.status = status, !.cron = cron]]
      BY <2>3, <3>1
    <3>4. src' \in [Sources -> Row]
      <4> HIDE DEF Row
      <4> QED
        BY <3>1, <3>2, <3>3
    <3> QED
      BY <2>3, <3>4
  <2>5. \A r \in Sources : src'[r].status = "deleting" =>
          src[r].status = "deleting" /\ (r \in lapsed => r \in lapsed')
    <3>1. src[s].status # "deleting" => status # "deleting"
      BY <2>1 DEF L!Settable
    <3> QED
      BY <2>3, <3>1
  <2> QED
    BY <2>3, <2>4, <2>5
<1>3. CASE L!MarkDeleting(s)
  BY <1>3 DEF L!MarkDeleting
<1>4. CASE L!DeleteAborts(s)
  BY <1>4 DEF L!DeleteAborts, L!Fault, L!Lapse
<1>5. CASE \E full \in BOOLEAN : L!SyncRequest(s, full)
  BY <1>5 DEF L!SyncRequest, L!Enqueued
<1>6. CASE L!EnqueueDelete(s)
  BY <1>6 DEF L!EnqueueDelete, L!DeleteJob, L!Lapse
<1> QED
  BY <1>1, <1>2, <1>3, <1>4, <1>5, <1>6 DEF L!Request, L!ValidCreate, L!Crons

\* The worker's steps, the ends of jobs and the clock preserve the invariant.
LEMMA JobsKeep ==
  ASSUME SourcesInv, NEW s \in Sources,
         \/ L!Worker(s) \/ L!ComesDue(s) \/ L!SyncEndsUnmirrored(s)
         \/ L!DeleteDiscarded(s) \/ L!DeleteCancelled(s) \/ L!CleanDelete(s)
  PROVE  SourcesInv'
<1> USE SourcesAssumption DEF SourcesInv, L!TypeOK, OpenRowHasJob, RemovalIsOwed
<1>1. CASE L!ContentWritten(s)
  BY <1>1 DEF L!ContentWritten, L!Lapse
<1>2. CASE L!SyncEnds(s)
  BY <1>2 DEF L!SyncEnds, L!NoSync
<1>3. CASE L!DeleteRuns(s)
  BY <1>3 DEF L!DeleteRuns
<1>4. CASE L!ComesDue(s)
  <2>1. src' = [src EXCEPT ![s].due = TRUE]
        /\ UNCHANGED <<sync, del, collect, api, content, faults, lapsed>>
    BY <1>4 DEF L!ComesDue
  <2>2. \A r \in Sources : src'[r].status = src[r].status
    BY <2>1
  <2>3. L!TypeOK'
    BY <2>1
  <2> QED
    BY <2>1, <2>2, <2>3
<1>5. CASE L!SyncEndsUnmirrored(s)
  BY <1>5 DEF L!SyncEndsUnmirrored, L!Fault
<1>6. CASE L!DeleteDiscarded(s)
  BY <1>6 DEF L!DeleteDiscarded, L!Fault, L!Lapse
<1>7. CASE L!CleanDelete(s)
  BY <1>7 DEF L!CleanDelete
<1>8. CASE L!DeleteCancelled(s)
  BY <1>8 DEF L!DeleteCancelled, L!Lapse
<1> QED
  BY <1>1, <1>2, <1>3, <1>4, <1>5, <1>6, <1>7, <1>8 DEF L!Worker

\* The scheduler's sweep preserves the invariant.
LEMMA SweepKeeps ==
  ASSUME SourcesInv, L!Sweep
  PROVE  SourcesInv'
<1>1. \A s \in Sources : src'[s] = L!Swept(s) /\ sync'[s] = L!SyncAfterSweep(s)
  BY DEF L!Sweep
<1>2. L!TypeOK'
  BY SweptTyped DEF SourcesInv, L!TypeOK, L!Sweep, L!GcAfterSweep
<1>3. OpenRowHasJob'
  BY <1>1, SweptTyped DEF SourcesInv, OpenRowHasJob
<1>4. RemovalIsOwed'
  BY <1>1, SweptTyped DEF SourcesInv, RemovalIsOwed, L!Sweep
<1> QED
  BY <1>2, <1>3, <1>4 DEF SourcesInv

\* The reconciler and the collection preserve the invariant.
LEMMA PeriodicKeep ==
  ASSUME SourcesInv,
         L!Reconcile \/ L!GcRuns \/ L!GcFails \/ L!GcCancelled \/ L!CleanGc \/ L!GcComesDue
  PROVE  SourcesInv'
<1> USE DEF SourcesInv, L!TypeOK, OpenRowHasJob, RemovalIsOwed
<1>1. CASE L!Reconcile
  BY <1>1 DEF L!Reconcile, L!NoSync
<1>2. CASE L!GcRuns \/ L!GcCancelled \/ L!CleanGc \/ L!GcComesDue
  BY <1>2 DEF L!GcRuns, L!GcCancelled, L!CleanGc, L!GcComesDue
<1>3. CASE L!GcFails
  BY <1>3, SourcesAssumption DEF L!GcFails, L!Fault
<1> QED
  BY <1>1, <1>2, <1>3

\* SourcesInv is inductive.
LEMMA SourcesInvariance == L!Spec => []SourcesInv
<1>1. L!Init => SourcesInv
  BY SourcesAssumption
  DEF L!Init, SourcesInv, L!TypeOK, OpenRowHasJob, RemovalIsOwed, L!NoSource, L!NoSync, L!Crons
<1>2. SourcesInv /\ [L!Next]_L!vars => SourcesInv'
  <2> SUFFICES ASSUME SourcesInv, [L!Next]_L!vars
               PROVE  SourcesInv'
    OBVIOUS
  <2>1. CASE UNCHANGED L!vars
    BY <2>1 DEF L!vars, SourcesInv, L!TypeOK, OpenRowHasJob, RemovalIsOwed
  <2>2. CASE L!Next
    BY <2>2, RequestsKeep, JobsKeep, SweepKeeps, PeriodicKeep DEF L!Next
  <2> QED
    BY <2>1, <2>2
<1> QED
  BY <1>1, <1>2, PTL DEF L!Spec

\* Rows of sources, sync, delete and collection jobs are well formed in every state: a patch
\* sets no system status, and the run counter wraps (service.go Update, scheduler.go).
THEOREM SourcesTypeCorrect == L!Spec => []L!TypeOK
BY SourcesInvariance, PTL DEF SourcesInv

\* Every open jobs row of a sync has its River job, so nothing blocks a sweep that the
\* reconciler cannot heal (pool.go EnqueueJob, scheduler.go enqueueMirrored).
THEOREM OpenRowHasJobAlways == L!Spec => []OpenRowHasJob
BY SourcesInvariance, PTL DEF SourcesInv

\* What a deleting source still holds is going to be removed, but for the five ways in which
\* a delete can lapse (sources/service.go Delete, pool.go EnqueueJob, jobs/service.go Cancel).
THEOREM RemovalIsOwedAlways == L!Spec => []RemovalIsOwed
BY SourcesInvariance, PTL DEF SourcesInv
=============================================================================
