--------------------------- MODULE UploadIngest_proofs ---------------------------
(* Proofs about UploadIngest, for any files, contents and uploads, any number of   *)
(* attempts, batches and faults, and any order of the reindex's steps.             *)
EXTENDS UploadIngest, FiniteSetTheorems, TLAPS

-----------------------------------------------------------------------------
(* Types.                                                                    *)

LEMMA Constants_ ==
  /\ 1 \in Files /\ Files \subseteq Nat /\ Uploads \subseteq Nat /\ 0 \notin Uploads
  /\ Uploads \subseteq 0..MaxUploads /\ Files \subseteq 0..NFiles
  /\ MaxAttempts \in Nat /\ MaxAttempts > 0 /\ Threshold \in Nat /\ Threshold > 0
  /\ Batches \in Nat /\ Concurrency \in Nat /\ MaxFaults \in Nat /\ Blank \in Contents
  BY UploadAssumption DEF Files, Uploads

LEMMA FreshTyped == Fresh \in Embedder
  BY Constants_ DEF Fresh, Embedder

LEMMA NoJobTyped ==
  /\ NoJob \in Job /\ NoJob.state = "none" /\ NoJob.attempt = 0 /\ NoJob.stage = "fetch" /\ ~NoJob.failed
  BY Constants_, FreshTyped DEF NoJob, Job

LEMMA JobIs ==
  ASSUME TypeOK, NEW i \in Uploads
  PROVE  /\ job[i] \in Job /\ job[i].emb \in Embedder /\ job[i].attempt \in 0..MaxAttempts
         /\ job[i].failed \in BOOLEAN
         /\ up[i] \in Upload /\ FileOf(i) \in Files /\ ContentOf(i) \in Contents
         /\ doc[FileOf(i)] \in Document
  BY DEF TypeOK, Job, Upload, FileOf, ContentOf

\* The state of the uploads, jobs and documents, without that of the reindex.
Typed ==
  /\ up \in [Uploads -> Upload] /\ job \in [Uploads -> Job] /\ doc \in [Files -> Document]
  /\ faults \in 0..MaxFaults
Stored == ver \in [Files -> SUBSET Contents] /\ chunks \subseteq Versions /\ rx \in Reindex

LEMMA TypeOKIs == TypeOK <=> Typed /\ Stored
  BY DEF TypeOK, Typed, Stored
LEMMA TypeOKIsNext == (TypeOK <=> Typed /\ Stored)'
  BY TypeOKIs, PTL

LEMMA FaultTyped ==
  ASSUME TypeOK, Fault \/ faults' = faults
  PROVE  faults' \in 0..MaxFaults
  BY Constants_ DEF TypeOK, Fault

Landing == JobsSound /\ OneJobPerFile /\ LandSound /\ LandedIsCurrent
LEMMA IInvIs == IInv <=> TypeOK /\ Landing /\ SearchSound
  BY DEF IInv, Landing

-----------------------------------------------------------------------------
(* One job moves: an attempt of the only job of its file under way.          *)

LEMMA JobMoves ==
  ASSUME TypeOK, NEW i \in Uploads, NEW r \in Job, job' = [job EXCEPT ![i] = r]
  PROVE  job' \in [Uploads -> Job] /\ job'[i] = r /\ \A j \in Uploads \ {i} : job'[j] = job[j]
  BY DEF TypeOK

\* The job stays under way, or is given up; of its document the current content may change.
LEMMA AttemptQuiet ==
  ASSUME IInv, NEW i \in Uploads, NEW r \in Job, job' = [job EXCEPT ![i] = r], up' = up,
         job[i].state \in {"queued", "running"}, r.state \in {"queued", "running", "discarded"},
         r.state = "queued" => r.attempt < MaxAttempts, r.state = "running" => r.attempt > 0,
         \A f \in Files : doc'[f].ended = doc[f].ended,
         \A f \in Files \ {FileOf(i)} : doc'[f] = doc[f],
         r.state = "running" /\ r.stage = "return" /\ ~r.failed
           => doc'[FileOf(i)].status # "absent" /\ doc'[FileOf(i)].cur = ContentOf(i)
  PROVE  Landing'
<1>1. TypeOK /\ JobsSound /\ OneJobPerFile /\ LandSound /\ LandedIsCurrent
  BY DEF IInv
<1>2. job' \in [Uploads -> Job] /\ job'[i] = r /\ \A j \in Uploads \ {i} : job'[j] = job[j]
  BY <1>1, JobMoves
<1>3. FileOf(i) \in Files /\ \A j \in Uploads : up[j].file \in Files
  BY <1>1, JobIs DEF FileOf
<1>4. \A f \in Files : doc[f].ended \in 0..MaxUploads /\ (doc[f].ended # 0 => doc[f].ended \in Uploads)
  BY <1>1, UploadAssumption DEF TypeOK, Document, Uploads
<1>5. JobsSound'
  BY <1>1, <1>2 DEF JobsSound
<1>6. OneJobPerFile'
  BY <1>1, <1>2 DEF OneJobPerFile
<1>7. \A f \in Files : doc[f].ended # i
  BY <1>1, <1>4, Constants_ DEF LandSound
<1>8. LandSound'
  <2>1. ASSUME NEW j \in Uploads, AtStage(j, "return")', ~job'[j].failed
        PROVE  doc'[up[j].file].status # "absent" /\ doc'[up[j].file].cur = up[j].content
    <3>1. CASE j = i
      BY <1>2, <2>1, <3>1 DEF AtStage, FileOf, ContentOf
    <3>2. CASE j # i
      <4>1. job[j].state = "running" /\ AtStage(j, "return") /\ ~job[j].failed
        BY <1>2, <2>1, <3>2 DEF AtStage
      <4>2. up[j].file # up[i].file
        BY <1>1, <3>2, <4>1 DEF OneJobPerFile
      <4> QED  BY <1>1, <1>3, <4>1, <4>2 DEF LandSound, FileOf, ContentOf
    <3> QED  BY <3>1, <3>2
  <2>2. ASSUME NEW f \in Files, doc'[f].ended # 0
        PROVE  up[doc'[f].ended].file = f /\ job'[doc'[f].ended].state \in {"done", "reaped"}
    BY <1>1, <1>2, <1>4, <1>7, <2>2 DEF LandSound
  <2> QED  BY <2>1, <2>2 DEF LandSound, FileOf, ContentOf
<1>9. LandedIsCurrent'
  <2> SUFFICES ASSUME NEW f \in Files, doc'[f].ended # 0, ~job'[doc'[f].ended].failed,
                      \A j \in Uploads : up[j].file = f => job'[j].state \in {"none", "done", "reaped"}
               PROVE  doc'[f].status # "absent" /\ doc'[f].cur = up[doc'[f].ended].content
    BY DEF LandedIsCurrent
  <2>1. f # FileOf(i)
    BY <1>2 DEF FileOf
  <2>2. \A j \in Uploads : up[j].file = f => job[j].state \in {"none", "done", "reaped"}
    BY <1>2, <2>1 DEF FileOf
  <2>3. doc'[f] = doc[f] /\ doc[f].ended # 0 /\ ~job[doc[f].ended].failed
    BY <1>2, <1>4, <1>7, <2>1
  <2> QED  BY <1>1, <2>2, <2>3 DEF LandedIsCurrent
<1> QED  BY <1>5, <1>6, <1>8, <1>9 DEF Landing

\* Rows, versions, the reindex and the current contents are as they were.
LEMMA SearchQuiet ==
  ASSUME IInv, UNCHANGED <<ver, chunks, rx>>,
         \A f \in Files : doc'[f].status # "absent" => doc[f].status # "absent" /\ doc'[f].cur = doc[f].cur
  PROVE  SearchSound'
  BY DEF IInv, SearchSound

LEMMA TypesQuiet ==
  ASSUME IInv, up' \in [Uploads -> Upload], job' \in [Uploads -> Job], doc' \in [Files -> Document],
         UNCHANGED <<ver, chunks, rx>>, Fault \/ faults' = faults
  PROVE  TypeOK'
<1>1. TypeOK /\ faults' \in 0..MaxFaults
  BY FaultTyped DEF IInv
<1> QED  BY <1>1 DEF TypeOK

Holds == TypeOK /\ Landing /\ SearchSound

\* An attempt moves on, and no document changes.
LEMMA AttemptMoves ==
  ASSUME IInv, NEW i \in Uploads, NEW r \in Job, job' = [job EXCEPT ![i] = r],
         UNCHANGED <<up, doc, ver, chunks, rx>>, Fault \/ faults' = faults,
         job[i].state \in {"queued", "running"}, r.state \in {"queued", "running", "discarded"},
         r.state = "queued" => r.attempt < MaxAttempts, r.state = "running" => r.attempt > 0,
         r.state = "running" => r.stage # "return" \/ r.failed
  PROVE  Holds'
<1>1. TypeOK
  BY DEF IInv
<1>2. job' \in [Uploads -> Job]
  BY <1>1, JobMoves
<1>3. up' \in [Uploads -> Upload] /\ doc' \in [Files -> Document]
  BY <1>1 DEF TypeOK
<1>4. TypeOK'
  BY <1>2, <1>3, TypesQuiet
<1>5. Landing'
  BY AttemptQuiet
<1>6. SearchSound'
  BY SearchQuiet
<1> QED  BY <1>4, <1>5, <1>6 DEF Holds

-----------------------------------------------------------------------------
(* The steps of an attempt that leave the document alone.                    *)

LEMMA StartAttemptStep ==
  ASSUME IInv, NEW i \in Uploads, StartAttempt(i)
  PROVE  Holds'
<1> DEFINE n == job[i].attempt + 1
           r == [NoJob EXCEPT !.state = "running", !.attempt = n]
<1>1. n \in 0..MaxAttempts /\ n > 0
  BY JobIs, Constants_ DEF IInv, JobsSound, StartAttempt
<1>2. job' = [job EXCEPT ![i] = r] /\ UNCHANGED <<up, doc, ver, chunks, rx, faults>>
      /\ job[i].state = "queued"
  BY DEF StartAttempt
<1> HIDE DEF n
<1>3. r \in Job /\ r.state = "running" /\ r.attempt = n /\ r.stage = "fetch"
  BY <1>1, NoJobTyped DEF Job
<1> HIDE DEF r
<1> QED  BY <1>1, <1>2, <1>3, AttemptMoves

LEMMA AttemptFailsStep ==
  ASSUME IInv, NEW i \in Uploads, AttemptFails(i)
  PROVE  Holds'
<1>1. /\ UNCHANGED <<up, doc, ver, chunks, rx>> /\ Fault /\ job[i].state = "running"
      /\ job[i].attempt \in 0..MaxAttempts
  BY JobIs DEF AttemptFails, IInv
<1>2. CASE job[i].attempt < MaxAttempts
  <2> DEFINE n == job[i].attempt
             r == [NoJob EXCEPT !.state = "queued", !.attempt = n]
  <2>1. job' = [job EXCEPT ![i] = r] /\ n \in 0..MaxAttempts /\ n < MaxAttempts
    BY <1>1, <1>2 DEF AttemptFails
  <2> HIDE DEF n
  <2>2. r \in Job /\ r.state = "queued" /\ r.attempt = n
    BY <2>1, NoJobTyped DEF Job
  <2> HIDE DEF r
  <2> QED  BY <1>1, <2>1, <2>2, AttemptMoves
<1>3. CASE ~(job[i].attempt < MaxAttempts)
  <2> DEFINE r == [NoJob EXCEPT !.state = "discarded"]
  <2>1. job' = [job EXCEPT ![i] = r]
    BY <1>3 DEF AttemptFails
  <2>2. r \in Job /\ r.state = "discarded"
    BY NoJobTyped DEF Job
  <2> HIDE DEF r
  <2> QED  BY <1>1, <2>1, <2>2, AttemptMoves
<1> QED  BY <1>2, <1>3

\* The document is counted as failed.
LEMMA RecordFailureMoves ==
  ASSUME IInv, NEW i \in Uploads, RecordFailure(i), job[i].state = "running",
         UNCHANGED <<up, doc, ver, chunks, rx>>, Fault \/ faults' = faults
  PROVE  Holds'
<1> DEFINE r == [job[i] EXCEPT !.stage = "return", !.failed = TRUE]
<1>1. job[i] \in Job /\ job[i].attempt > 0
  BY JobIs DEF IInv, JobsSound
<1>2. r \in Job /\ r.state = "running" /\ r.failed /\ r.attempt > 0
  BY <1>1 DEF Job
<1>3. job' = [job EXCEPT ![i] = r]
  BY DEF RecordFailure
<1> HIDE DEF r
<1> QED  BY <1>2, <1>3, AttemptMoves

LEMMA ParseFailsStep ==
  ASSUME IInv, NEW i \in Uploads, ParseFails(i)
  PROVE  Holds'
  BY RecordFailureMoves DEF ParseFails, AtStage

\* The embedder of a running attempt moves.
LEMMA EmbedderMoves ==
  ASSUME IInv, NEW i \in Uploads, AtStage(i, "embed"), NEW e \in Embedder,
         job' = [job EXCEPT ![i].emb = e],
         UNCHANGED <<up, doc, ver, chunks, rx>>, Fault \/ faults' = faults
  PROVE  Holds'
<1> DEFINE r == [job[i] EXCEPT !.emb = e]
<1>1. job[i] \in Job /\ job[i].attempt > 0 /\ job[i].state = "running" /\ job[i].stage = "embed"
  BY JobIs DEF IInv, JobsSound, AtStage
<1>2. r \in Job /\ r.state = "running" /\ r.stage = "embed" /\ r.attempt > 0
  BY <1>1 DEF Job
<1>3. job' = [job EXCEPT ![i] = r]
  OBVIOUS
<1> HIDE DEF r
<1> QED  BY <1>1, <1>2, <1>3, AttemptMoves

LEMMA EmbedderFields ==
  ASSUME NEW e \in Embedder
  PROVE  /\ e.todo \in 0..Batches /\ e.busy \in 0..Concurrency /\ e.fails \in 0..(Threshold - 1)
         /\ e.breaker \in {"closed", "open", "half"} /\ e.err \in {"none", "provider", "circuit"}
  BY DEF Embedder

LEMMA BatchSteps ==
  ASSUME IInv, NEW i \in Uploads, BatchStarts(i) \/ BatchRefused(i) \/ BatchSucceeds(i) \/ BatchFails(i)
  PROVE  Holds'
<1> DEFINE e == job[i].emb
<1>1. /\ e \in Embedder /\ AtStage(i, "embed") /\ UNCHANGED <<up, doc, ver, chunks, rx>>
      /\ Fault \/ faults' = faults
  BY JobIs DEF IInv, BatchStarts, BatchRefused, BatchSucceeds, BatchFails
<1>2. /\ e.todo \in 0..Batches /\ e.busy \in 0..Concurrency /\ e.fails \in 0..(Threshold - 1)
      /\ e.breaker \in {"closed", "open", "half"} /\ e.err \in {"none", "provider", "circuit"}
  BY <1>1, EmbedderFields
<1>3. CASE BatchStarts(i)
  <2> DEFINE t == e.todo - 1
             b == e.busy + 1
             k == IF e.breaker = "open" THEN "half" ELSE e.breaker
             new == [e EXCEPT !.todo = t, !.busy = b, !.breaker = k]
  <2>1. t \in 0..Batches /\ b \in 0..Concurrency /\ k \in {"closed", "open", "half"}
    BY <1>2, <1>3, Constants_ DEF BatchStarts
  <2>2. job' = [job EXCEPT ![i].emb = new]
    BY <1>3 DEF BatchStarts
  <2> HIDE DEF t, b, k
  <2>3. new \in Embedder
    BY <1>1, <2>1 DEF Embedder
  <2> HIDE DEF new, e
  <2> QED  BY <1>1, <2>2, <2>3, EmbedderMoves
<1>4. CASE BatchRefused(i)
  <2> DEFINE t == e.todo - 1
             r == FirstErr(e.err, "circuit")
             new == [e EXCEPT !.todo = t, !.err = r]
  <2>1. t \in 0..Batches /\ r \in {"none", "provider", "circuit"}
    BY <1>2, <1>4, Constants_ DEF BatchRefused, FirstErr
  <2>2. job' = [job EXCEPT ![i].emb = new]
    BY <1>4 DEF BatchRefused
  <2> HIDE DEF t, r
  <2>3. new \in Embedder
    BY <1>1, <2>1 DEF Embedder
  <2> HIDE DEF new, e
  <2> QED  BY <1>1, <2>2, <2>3, EmbedderMoves
<1>5. CASE BatchSucceeds(i)
  <2> DEFINE b == e.busy - 1
             new == [e EXCEPT !.busy = b, !.fails = 0, !.breaker = "closed"]
  <2>1. b \in 0..Concurrency /\ 0 \in 0..(Threshold - 1)
    BY <1>2, <1>5, Constants_ DEF BatchSucceeds
  <2>2. job' = [job EXCEPT ![i].emb = new]
    BY <1>5 DEF BatchSucceeds
  <2> HIDE DEF b
  <2>3. new \in Embedder
    BY <1>1, <2>1 DEF Embedder
  <2> HIDE DEF new, e
  <2> QED  BY <1>1, <2>2, <2>3, EmbedderMoves
<1>6. CASE BatchFails(i)
  <2> DEFINE b == e.busy - 1
             r == FirstErr(e.err, "provider")
             f == IF Trips(e) THEN 0 ELSE e.fails + 1
             k == IF Trips(e) THEN "open" ELSE e.breaker
             new == [e EXCEPT !.busy = b, !.err = r, !.fails = f, !.breaker = k]
  <2>1. /\ b \in 0..Concurrency /\ r \in {"none", "provider", "circuit"}
        /\ k \in {"closed", "open", "half"}
    BY <1>2, <1>6, Constants_ DEF BatchFails, FirstErr
  <2>2. f \in 0..(Threshold - 1)
    BY <1>2, Constants_ DEF Trips
  <2>3. job' = [job EXCEPT ![i].emb = new]
    BY <1>6 DEF BatchFails
  <2> HIDE DEF b, r, f, k
  <2>4. new \in Embedder
    BY <1>1, <2>1, <2>2 DEF Embedder
  <2> HIDE DEF new, e
  <2> QED  BY <1>1, <2>3, <2>4, EmbedderMoves
<1> QED  BY <1>3, <1>4, <1>5, <1>6

\* A stage of a running attempt is followed by the next one.
LEMMA StageMoves ==
  ASSUME TypeOK, JobsSound, NEW i \in Uploads, NEW stage \in {"fetch", "embed", "commit", "return"},
         job[i].state = "running", job' = [job EXCEPT ![i].stage = stage]
  PROVE  \E r \in Job : /\ job' = [job EXCEPT ![i] = r] /\ r.state = "running" /\ r.attempt > 0
                        /\ r.stage = stage
<1> DEFINE r == [job[i] EXCEPT !.stage = stage]
<1>1. job[i] \in Job /\ job[i].attempt > 0
  BY JobIs DEF JobsSound
<1>2. r \in Job /\ r.state = "running" /\ r.attempt > 0 /\ r.stage = stage
  BY <1>1 DEF Job
<1>3. job' = [job EXCEPT ![i] = r]
  OBVIOUS
<1> HIDE DEF r
<1> QED  BY <1>2, <1>3

LEMMA EmbedReturnsStep ==
  ASSUME IInv, NEW i \in Uploads, EmbedReturns(i)
  PROVE  Holds'
<1>1. /\ UNCHANGED <<up, doc, ver, chunks, rx, faults>> /\ job[i].state = "running"
      /\ job[i].emb.err \in {"none", "provider", "circuit"}
      /\ job[i].attempt \in 0..MaxAttempts /\ job[i].attempt > 0
  BY JobIs, EmbedderFields DEF EmbedReturns, AtStage, IInv, JobsSound
<1>2. CASE job[i].emb.err = "none"
  <2>1. job' = [job EXCEPT ![i].stage = "commit"]
    BY <1>2 DEF EmbedReturns
  <2>2. PICK r \in Job : /\ job' = [job EXCEPT ![i] = r] /\ r.state = "running" /\ r.attempt > 0
                         /\ r.stage = "commit"
    BY <1>1, <2>1, StageMoves DEF IInv
  <2> QED  BY <1>1, <2>2, AttemptMoves
<1>3. CASE job[i].emb.err = "circuit"
  <2> DEFINE n == job[i].attempt - 1
             r == [NoJob EXCEPT !.state = "queued", !.attempt = n]
  <2>1. job' = [job EXCEPT ![i] = r] /\ n \in 0..MaxAttempts /\ n < MaxAttempts
    BY <1>1, <1>3, Constants_ DEF EmbedReturns
  <2> HIDE DEF n
  <2>2. r \in Job /\ r.state = "queued" /\ r.attempt = n
    BY <2>1, NoJobTyped DEF Job
  <2> HIDE DEF r
  <2> QED  BY <1>1, <2>1, <2>2, AttemptMoves
<1>4. CASE job[i].emb.err = "provider"
  <2>1. RecordFailure(i)
    BY <1>4 DEF EmbedReturns
  <2> QED  BY <1>1, <2>1, RecordFailureMoves
<1> QED  BY <1>1, <1>2, <1>3, <1>4

-----------------------------------------------------------------------------
(* The steps of an attempt that write the document.                          *)

LEMMA FetchStep ==
  ASSUME IInv, NEW i \in Uploads, Fetch(i)
  PROVE  Holds'
<1>1. TypeOK /\ JobsSound /\ UNCHANGED <<up, ver, chunks, rx, faults>> /\ job[i].state = "running"
  BY DEF IInv, Fetch, AtStage
<1> DEFINE f == FileOf(i)
           c == ContentOf(i)
<1>2. f \in Files /\ doc[f] \in Document /\ doc \in [Files -> Document]
  BY <1>1, JobIs DEF TypeOK
<1>3. CASE Unchanged(f, c)
  <2>1. doc' = [doc EXCEPT ![f].status = "active"] /\ job' = [job EXCEPT ![i].stage = "return"]
    BY <1>3 DEF Fetch
  <2>2. PICK r \in Job : /\ job' = [job EXCEPT ![i] = r] /\ r.state = "running" /\ r.attempt > 0
                         /\ r.stage = "return"
    BY <1>1, <2>1, StageMoves
  <2> DEFINE d == [doc[f] EXCEPT !.status = "active"]
  <2>3. d \in Document /\ d.status = "active" /\ d.cur = doc[f].cur /\ d.ended = doc[f].ended
    BY <1>2 DEF Document
  <2>4. doc' = [doc EXCEPT ![f] = d]
    BY <2>1
  <2> HIDE DEF d, f
  <2>5. doc' \in [Files -> Document] /\ doc'[f] = d /\ \A g \in Files \ {f} : doc'[g] = doc[g]
    BY <1>2, <2>3, <2>4
  <2>6. doc[f].status # "absent" /\ doc[f].cur = c
    BY <1>3 DEF Unchanged
  <2>7. /\ \A g \in Files : doc'[g].ended = doc[g].ended
        /\ \A g \in Files : doc'[g].status # "absent" => doc[g].status # "absent" /\ doc'[g].cur = doc[g].cur
        /\ doc'[f].status # "absent" /\ doc'[f].cur = c
    BY <2>3, <2>5, <2>6
  <2>8. job' \in [Uploads -> Job] /\ up' \in [Uploads -> Upload]
    BY <1>1, <2>2, JobMoves DEF TypeOK
  <2>9. TypeOK'
    BY <1>1, <2>5, <2>8, TypesQuiet
  <2>10. Landing'
    BY <1>1, <2>2, <2>5, <2>7, AttemptQuiet DEF f
  <2>11. SearchSound'
    BY <1>1, <2>7, SearchQuiet
  <2> QED  BY <2>9, <2>10, <2>11 DEF Holds
<1>4. CASE ~Unchanged(f, c)
  <2>1. PICK stage \in {"commit", "embed"} : job' = [job EXCEPT ![i].stage = stage] /\ UNCHANGED doc
    BY <1>4 DEF Fetch
  <2>2. stage \in {"fetch", "embed", "commit", "return"} /\ stage # "return"
    OBVIOUS
  <2>3. PICK r \in Job : /\ job' = [job EXCEPT ![i] = r] /\ r.state = "running" /\ r.attempt > 0
                         /\ r.stage = stage
    BY <1>1, <2>1, <2>2, StageMoves
  <2> QED  BY <1>1, <2>1, <2>2, <2>3, AttemptMoves
<1> QED  BY <1>3, <1>4

LEMMA CommitStep ==
  ASSUME IInv, NEW i \in Uploads, Commit(i)
  PROVE  Holds'
<1>1. TypeOK /\ JobsSound /\ SearchSound /\ UNCHANGED <<up, rx, faults>> /\ job[i].state = "running"
  BY DEF IInv, Commit, AtStage
<1> DEFINE f == FileOf(i)
           c == ContentOf(i)
           d == [doc[f] EXCEPT !.status = "active", !.cur = c]
<1>2. /\ f \in Files /\ c \in Contents /\ doc[f] \in Document /\ doc \in [Files -> Document]
      /\ ver \in [Files -> SUBSET Contents] /\ chunks \subseteq Versions
  BY <1>1, JobIs DEF TypeOK
<1>3. /\ doc' = [doc EXCEPT ![f] = d] /\ ver' = [ver EXCEPT ![f] = ver[f] \cup {c}]
      /\ chunks' = IF c = Blank \/ c \in ver[f] THEN chunks ELSE chunks \cup {<<f, c>>}
      /\ job' = [job EXCEPT ![i].stage = "return"]
  BY DEF Commit
<1> HIDE DEF f, c
<1>4. d \in Document /\ d.status = "active" /\ d.cur = c /\ d.ended = doc[f].ended
  BY <1>2 DEF Document
<1> HIDE DEF d
<1>5. doc' \in [Files -> Document] /\ doc'[f] = d /\ \A g \in Files \ {f} : doc'[g] = doc[g]
  BY <1>2, <1>3, <1>4
<1>6. /\ ver' \in [Files -> SUBSET Contents] /\ ver'[f] = ver[f] \cup {c}
      /\ \A g \in Files \ {f} : ver'[g] = ver[g]
  BY <1>2, <1>3
<1>7. chunks' \subseteq Versions /\ chunks \subseteq chunks'
      /\ (c = Blank \/ c \in ver[f] \/ <<f, c>> \in chunks')
  BY <1>2, <1>3 DEF Versions
<1>8. PICK r \in Job : /\ job' = [job EXCEPT ![i] = r] /\ r.state = "running" /\ r.attempt > 0
                       /\ r.stage = "return"
  BY <1>1, <1>3, StageMoves
<1>9. TypeOK'
  BY <1>1, <1>5, <1>6, <1>7, <1>8, JobMoves DEF TypeOK
<1>10. Landing'
  BY <1>1, <1>4, <1>5, <1>8, AttemptQuiet DEF f, c
<1>11. SearchSound'
  <2>1. \A g \in Files : doc'[g].status # "absent" => doc'[g].cur \in ver'[g]
    BY <1>1, <1>4, <1>5, <1>6 DEF SearchSound
  <2>2. ASSUME NEW g \in Files, NEW k \in ver'[g]
        PROVE  k = Blank \/ <<g, k>> \in chunks' \cup rx'.behind
    <3>1. CASE k \in ver[g]
      BY <1>1, <1>7, <3>1 DEF SearchSound
    <3>2. CASE k \notin ver[g]
      <4>1. g = f /\ k = c
        BY <1>6, <2>2, <3>2
      <4> QED  BY <1>7, <3>2, <4>1
    <3> QED  BY <3>1, <3>2
  <2> QED  BY <1>1, <2>1, <2>2 DEF SearchSound
<1> QED  BY <1>9, <1>10, <1>11 DEF Holds

LEMMA Ended ==
  ASSUME TypeOK, NEW f \in Files, doc[f].ended # 0
  PROVE  doc[f].ended \in Uploads
  BY UploadAssumption DEF TypeOK, Document, Uploads

\* The job completes, and its upload is the one that ended last.
LEMMA ReturnStep ==
  ASSUME IInv, NEW i \in Uploads, Return(i)
  PROVE  Holds'
<1>1. /\ TypeOK /\ JobsSound /\ OneJobPerFile /\ LandSound /\ LandedIsCurrent
      /\ UNCHANGED <<up, ver, chunks, rx, faults>> /\ AtStage(i, "return") /\ job[i].state = "running"
  BY DEF IInv, Return, AtStage
<1> DEFINE f == FileOf(i)
           b == job[i].failed
           r == [NoJob EXCEPT !.state = "done", !.failed = b]
           d == [doc[f] EXCEPT !.ended = i]
<1>2. /\ f \in Files /\ doc[f] \in Document /\ doc \in [Files -> Document] /\ b \in BOOLEAN
      /\ i \in 0..MaxUploads /\ i # 0
  BY <1>1, JobIs, Constants_ DEF TypeOK
<1>3. job' = [job EXCEPT ![i] = r] /\ doc' = [doc EXCEPT ![f] = d]
  BY DEF Return
<1> HIDE DEF f, b
<1>4. r \in Job /\ r.state = "done" /\ r.failed = b
  BY <1>2, NoJobTyped DEF Job
<1>5. d \in Document /\ d.status = doc[f].status /\ d.cur = doc[f].cur /\ d.ended = i
  BY <1>2 DEF Document
<1> HIDE DEF r, d
<1>6. job' \in [Uploads -> Job] /\ job'[i] = r /\ \A j \in Uploads \ {i} : job'[j] = job[j]
  BY <1>1, <1>3, <1>4, JobMoves
<1>7. doc' \in [Files -> Document] /\ doc'[f] = d /\ \A g \in Files \ {f} : doc'[g] = doc[g]
  BY <1>2, <1>3, <1>5
<1>8. \A g \in Files : doc'[g].status = doc[g].status /\ doc'[g].cur = doc[g].cur
  BY <1>5, <1>7
<1>9. TypeOK'
  BY <1>1, <1>6, <1>7, TypesQuiet DEF TypeOK
<1>10. JobsSound' /\ OneJobPerFile'
  <2>1. JobsSound'
    BY <1>1, <1>4, <1>6 DEF JobsSound
  <2>2. OneJobPerFile'
    BY <1>1, <1>4, <1>6 DEF OneJobPerFile
  <2> QED  BY <2>1, <2>2
<1>11. ~b => doc[f].status # "absent" /\ doc[f].cur = up[i].content
  BY <1>1 DEF LandSound, ContentOf, b, f
<1>12. up[i].file = f
  BY DEF f, FileOf
<1>13. LandSound'
  <2>1. ASSUME NEW j \in Uploads, AtStage(j, "return")', ~job'[j].failed
        PROVE  doc'[up[j].file].status # "absent" /\ doc'[up[j].file].cur = up[j].content
    <3>1. j # i /\ AtStage(j, "return") /\ ~job[j].failed
      BY <1>4, <1>6, <2>1 DEF AtStage
    <3>2. up[j].file \in Files
      BY <1>1, JobIs DEF FileOf
    <3> QED  BY <1>1, <1>8, <3>1, <3>2 DEF LandSound, FileOf, ContentOf
  <2>2. ASSUME NEW g \in Files, doc'[g].ended # 0
        PROVE  up[doc'[g].ended].file = g /\ job'[doc'[g].ended].state \in {"done", "reaped"}
    <3>1. CASE g = f
      BY <1>4, <1>5, <1>6, <1>7, <1>12, <3>1
    <3>2. CASE g # f
      <4>1. doc'[g] = doc[g] /\ doc[g].ended # 0 /\ doc[g].ended \in Uploads
        BY <1>1, <1>7, <2>2, <3>2, Ended
      <4> QED  BY <1>1, <1>6, <4>1 DEF LandSound
    <3> QED  BY <3>1, <3>2
  <2> QED  BY <1>1, <2>1, <2>2 DEF LandSound, FileOf, ContentOf
<1>14. LandedIsCurrent'
  <2> SUFFICES ASSUME NEW g \in Files, doc'[g].ended # 0, ~job'[doc'[g].ended].failed,
                      \A j \in Uploads : up[j].file = g => job'[j].state \in {"none", "done", "reaped"}
               PROVE  doc'[g].status # "absent" /\ doc'[g].cur = up[doc'[g].ended].content
    BY <1>1 DEF LandedIsCurrent
  <2>1. CASE g = f
    BY <1>4, <1>5, <1>6, <1>7, <1>11, <2>1
  <2>2. CASE g # f
    <3>1. doc'[g] = doc[g] /\ doc[g].ended # 0 /\ doc[g].ended \in Uploads
      BY <1>1, <1>7, <2>2, Ended
    <3>2. doc[g].ended # i /\ ~job[doc[g].ended].failed
      BY <1>1, <1>6, <1>12, <2>2, <3>1 DEF LandSound
    <3>3. \A j \in Uploads : up[j].file = g => job[j].state \in {"none", "done", "reaped"}
      BY <1>6, <1>12, <2>2
    <3> QED  BY <1>1, <3>1, <3>2, <3>3 DEF LandedIsCurrent
  <2> QED  BY <2>1, <2>2
<1>15. SearchSound'
  BY <1>1, <1>8, SearchQuiet
<1> QED  BY <1>9, <1>10, <1>13, <1>14, <1>15 DEF Holds, Landing

\* River forgets a completed job.
LEMMA ReapStep ==
  ASSUME IInv, NEW i \in Uploads, Reap(i)
  PROVE  Holds'
<1>1. /\ TypeOK /\ JobsSound /\ OneJobPerFile /\ LandSound /\ LandedIsCurrent
      /\ UNCHANGED <<up, doc, ver, chunks, rx, faults>> /\ job[i].state = "done" /\ job[i] \in Job
  BY JobIs DEF IInv, Reap
<1> DEFINE r == [job[i] EXCEPT !.state = "reaped"]
<1>2. job' = [job EXCEPT ![i] = r] /\ r \in Job /\ r.state = "reaped" /\ r.failed = job[i].failed
  BY <1>1 DEF Reap, Job
<1> HIDE DEF r
<1>3. job' \in [Uploads -> Job] /\ job'[i] = r /\ \A j \in Uploads \ {i} : job'[j] = job[j]
  BY <1>1, <1>2, JobMoves
<1>4. TypeOK'
  BY <1>1, <1>3, TypesQuiet DEF TypeOK
<1>5. \A j \in Uploads : /\ job'[j].failed = job[j].failed
                         /\ job'[j].state # job[j].state => job[j].state = "done" /\ job'[j].state = "reaped"
  BY <1>1, <1>2, <1>3
<1>6. JobsSound'
  BY <1>1, <1>2, <1>3 DEF JobsSound
<1>7. OneJobPerFile'
  BY <1>1, <1>5 DEF OneJobPerFile
<1>8. LandSound'
  <2>1. \A j \in Uploads : AtStage(j, "return")' => AtStage(j, "return")
    BY <1>2, <1>3 DEF AtStage
  <2>2. \A f \in Files : doc[f].ended # 0 => job'[doc[f].ended].state \in {"done", "reaped"}
    BY <1>1, <1>5, Ended DEF LandSound
  <2> QED  BY <1>1, <1>5, <2>1, <2>2 DEF LandSound, FileOf, ContentOf
<1>9. LandedIsCurrent'
  <2> SUFFICES ASSUME NEW g \in Files, doc[g].ended # 0, ~job'[doc[g].ended].failed,
                      \A j \in Uploads : up[j].file = g => job'[j].state \in {"none", "done", "reaped"}
               PROVE  doc[g].status # "absent" /\ doc[g].cur = up[doc[g].ended].content
    BY <1>1 DEF LandedIsCurrent
  <2>1. ~job[doc[g].ended].failed
    BY <1>1, <1>5, Ended
  <2>2. \A j \in Uploads : up[j].file = g => job[j].state \in {"none", "done", "reaped"}
    BY <1>5
  <2> QED  BY <1>1, <2>1, <2>2 DEF LandedIsCurrent
<1>10. SearchSound'
  BY <1>1, SearchQuiet
<1> QED  BY <1>4, <1>6, <1>7, <1>8, <1>9, <1>10 DEF Holds, Landing

-----------------------------------------------------------------------------
(* Uploads, the admin's delete, and the reindex.                             *)

\* An upload that has no job moves.
LEMMA UploadMoves ==
  ASSUME IInv, NEW i \in Uploads, NEW r \in Upload, up' = [up EXCEPT ![i] = r], up[i].pc # "accepted",
         UNCHANGED <<job, doc, ver, chunks, rx>>, Fault \/ faults' = faults
  PROVE  Holds'
<1>1. TypeOK /\ JobsSound /\ OneJobPerFile /\ LandSound /\ LandedIsCurrent
  BY DEF IInv
<1>2. up' \in [Uploads -> Upload] /\ \A j \in Uploads \ {i} : up'[j] = up[j]
  BY <1>1 DEF TypeOK
<1>3. TypeOK'
  BY <1>1, <1>2, TypesQuiet DEF TypeOK
<1>4. job[i].state = "none"
  BY <1>1 DEF JobsSound
<1>5. JobsSound' /\ OneJobPerFile'
  <2>1. JobsSound'
    BY <1>1, <1>2, <1>4 DEF JobsSound
  <2>2. OneJobPerFile'
    BY <1>1, <1>2, <1>4 DEF OneJobPerFile
  <2> QED  BY <2>1, <2>2
<1>6. \A f \in Files : doc[f].ended # 0 => doc[f].ended \in Uploads /\ doc[f].ended # i
  BY <1>1, <1>4, Ended DEF LandSound
<1>7. LandSound'
  <2>1. \A j \in Uploads : AtStage(j, "return")' => AtStage(j, "return") /\ j # i
    BY <1>4 DEF AtStage
  <2> QED  BY <1>1, <1>2, <1>6, <2>1 DEF LandSound, FileOf, ContentOf
<1>8. LandedIsCurrent'
  <2> SUFFICES ASSUME NEW g \in Files, doc[g].ended # 0, ~job[doc[g].ended].failed,
                      \A j \in Uploads : up'[j].file = g => job[j].state \in {"none", "done", "reaped"}
               PROVE  doc[g].status # "absent" /\ doc[g].cur = up'[doc[g].ended].content
    BY DEF LandedIsCurrent
  <2>1. \A j \in Uploads : up[j].file = g => job[j].state \in {"none", "done", "reaped"}
    BY <1>2, <1>4
  <2>2. up'[doc[g].ended] = up[doc[g].ended]
    BY <1>2, <1>6
  <2> QED  BY <1>1, <2>1, <2>2 DEF LandedIsCurrent
<1>9. SearchSound'
  BY SearchQuiet
<1> QED  BY <1>3, <1>5, <1>7, <1>8, <1>9 DEF Holds, Landing

LEMMA UploadSteps ==
  ASSUME IInv, NEW i \in Uploads,
         (\E f \in Files, c \in Contents : Ingest(i, f, c)) \/ Store(i) \/ AcceptFails(i)
  PROVE  Holds'
<1>1. up[i] \in Upload /\ 0 \in 0..MaxUploads
  BY JobIs, UploadAssumption DEF IInv
<1>2. CASE \E f \in Files, c \in Contents : Ingest(i, f, c)
  <2>1. PICK f \in Files, c \in Contents : Ingest(i, f, c)
    BY <1>2
  <2>2. UNCHANGED <<job, doc, ver, chunks, rx, faults>> /\ up[i].pc # "accepted"
    BY <2>1 DEF Ingest
  <2>3. PICK j \in 0..MaxUploads, pc \in {"looked", "accepted"} :
          up' = [up EXCEPT ![i] = [pc |-> pc, file |-> f, content |-> c, job |-> j]]
    BY <1>1, <2>1, Constants_ DEF Ingest, ActiveWithKey
  <2> DEFINE r == [pc |-> pc, file |-> f, content |-> c, job |-> j]
  <2>4. r \in Upload
    BY DEF Upload
  <2> HIDE DEF r
  <2> QED  BY <2>2, <2>3, <2>4, UploadMoves DEF r
<1>3. CASE Store(i) \/ AcceptFails(i)
  <2>1. /\ UNCHANGED <<job, doc, ver, chunks, rx>> /\ up[i].pc # "accepted" /\ (Fault \/ faults' = faults)
    BY <1>3 DEF Store, AcceptFails
  <2>2. PICK pc \in {"stored", "failed"} : up' = [up EXCEPT ![i].pc = pc]
    BY <1>3 DEF Store, AcceptFails
  <2> DEFINE r == [up[i] EXCEPT !.pc = pc]
  <2>3. r \in Upload /\ up' = [up EXCEPT ![i] = r]
    BY <1>1, <2>2 DEF Upload
  <2> HIDE DEF r
  <2> QED  BY <2>1, <2>3, UploadMoves
<1> QED  BY <1>2, <1>3

\* The job is inserted, or one of the same file stands for it.
LEMMA EnqueueStep ==
  ASSUME IInv, NEW i \in Uploads, Enqueue(i)
  PROVE  Holds'
<1>1. /\ TypeOK /\ JobsSound /\ OneJobPerFile /\ LandSound /\ LandedIsCurrent
      /\ UNCHANGED <<doc, ver, chunks, rx, faults>> /\ up[i].pc = "stored" /\ up[i] \in Upload
      /\ job[i] \in Job /\ job[i].state = "none" /\ job[i].attempt < MaxAttempts
  BY JobIs DEF IInv, Enqueue, JobsSound
<1>2. PICK k \in Uploads : up' = [up EXCEPT ![i].pc = "accepted", ![i].job = k]
  BY DEF Enqueue, Duplicates
<1> DEFINE u == [up[i] EXCEPT !.pc = "accepted", !.job = k]
<1>3. u \in Upload /\ u.pc = "accepted" /\ u.file = up[i].file /\ u.content = up[i].content
  BY <1>1, Constants_ DEF Upload
<1>4. up' = [up EXCEPT ![i] = u]
  BY <1>2
<1> HIDE DEF u
<1>5. CASE UNCHANGED job
  BY <1>1, <1>3, <1>4, <1>5, UploadMoves
<1>6. CASE ~UNCHANGED job
  <2> DEFINE r == [job[i] EXCEPT !.state = "queued"]
  <2>1. job' = [job EXCEPT ![i] = r] /\ Duplicates(up[i].file) = {}
    BY <1>6 DEF Enqueue
  <2>2. r \in Job /\ r.state = "queued" /\ r.attempt = job[i].attempt
    BY <1>1 DEF Job
  <2> HIDE DEF r
  <2>3. job' \in [Uploads -> Job] /\ job'[i] = r /\ \A j \in Uploads \ {i} : job'[j] = job[j]
    BY <1>1, <2>1, <2>2, JobMoves
  <2>4. /\ up' \in [Uploads -> Upload] /\ \A j \in Uploads \ {i} : up'[j] = up[j]
        /\ up'[i].pc = "accepted"
        /\ \A j \in Uploads : up'[j].file = up[j].file /\ up'[j].content = up[j].content
    BY <1>1, <1>3, <1>4 DEF TypeOK
  <2>5. \A j \in Uploads : up[j].file = up[i].file => job[j].state \notin {"queued", "running", "done"}
    BY <2>1 DEF Duplicates
  <2>6. TypeOK'
    BY <1>1, <2>3, <2>4, TypesQuiet DEF TypeOK
  <2>7. JobsSound'
    BY <1>1, <2>2, <2>3, <2>4 DEF JobsSound
  <2>8. OneJobPerFile'
    BY <1>1, <2>3, <2>4, <2>5 DEF OneJobPerFile
  <2>9. \A f \in Files : doc[f].ended # 0 => doc[f].ended \in Uploads /\ doc[f].ended # i
    BY <1>1, Ended DEF LandSound
  <2>10. LandSound'
    <3>1. \A j \in Uploads : AtStage(j, "return")' => AtStage(j, "return") /\ j # i
      BY <2>2, <2>3 DEF AtStage
    <3> QED  BY <1>1, <2>3, <2>4, <2>9, <3>1 DEF LandSound, FileOf, ContentOf
  <2>11. LandedIsCurrent'
    <3> SUFFICES ASSUME NEW g \in Files, doc[g].ended # 0, ~job'[doc[g].ended].failed,
                        \A j \in Uploads : up'[j].file = g => job'[j].state \in {"none", "done", "reaped"}
                 PROVE  doc[g].status # "absent" /\ doc[g].cur = up'[doc[g].ended].content
      BY <1>1 DEF LandedIsCurrent
    <3>1. ~job[doc[g].ended].failed
      BY <2>3, <2>9
    <3>2. \A j \in Uploads : up[j].file = g => job[j].state \in {"none", "done", "reaped"}
      BY <2>3, <2>4, <1>1
    <3> QED  BY <1>1, <2>4, <2>9, <3>1, <3>2 DEF LandedIsCurrent
  <2>12. SearchSound'
    BY <1>1, SearchQuiet
  <2> QED  BY <2>6, <2>7, <2>8, <2>10, <2>11, <2>12 DEF Holds, Landing
<1> QED  BY <1>5, <1>6

LEMMA DeleteStep ==
  ASSUME IInv, NEW f \in Files, Delete(f)
  PROVE  Holds'
<1>1. /\ TypeOK /\ JobsSound /\ OneJobPerFile /\ LandSound /\ LandedIsCurrent
      /\ UNCHANGED <<up, job, ver, chunks, rx, faults>> /\ doc[f].status = "active"
      /\ doc[f] \in Document /\ doc \in [Files -> Document]
  BY DEF IInv, Delete, TypeOK
<1> DEFINE d == [doc[f] EXCEPT !.status = "deleted"]
<1>2. d \in Document /\ d.status = "deleted" /\ d.cur = doc[f].cur /\ d.ended = doc[f].ended
  BY <1>1 DEF Document
<1>3. doc' = [doc EXCEPT ![f] = d]
  BY DEF Delete
<1> HIDE DEF d
<1>4. doc' \in [Files -> Document] /\ doc'[f] = d /\ \A g \in Files \ {f} : doc'[g] = doc[g]
  BY <1>1, <1>2, <1>3
<1>5. \A g \in Files : /\ doc'[g].cur = doc[g].cur /\ doc'[g].ended = doc[g].ended
                       /\ (doc'[g].status # "absent" <=> doc[g].status # "absent")
  BY <1>1, <1>2, <1>4
<1>6. TypeOK'
  BY <1>1, <1>4, TypesQuiet DEF TypeOK
<1>7. JobsSound' /\ OneJobPerFile'
  BY <1>1 DEF JobsSound, OneJobPerFile
<1>8. \A j \in Uploads : up[j].file \in Files
  BY <1>1, JobIs DEF FileOf
<1>9. LandSound'
  BY <1>1, <1>5, <1>8 DEF LandSound, AtStage, FileOf, ContentOf
<1>10. LandedIsCurrent'
  BY <1>1, <1>5 DEF LandedIsCurrent
<1>11. SearchSound'
  BY <1>1, <1>5, SearchQuiet
<1> QED  BY <1>6, <1>7, <1>9, <1>10, <1>11 DEF Holds, Landing

\* The reindex moves; only its swap touches the table.
LEMMA ReindexMoves ==
  ASSUME IInv, UNCHANGED <<up, job, doc, ver, faults>>, rx' \in Reindex, chunks' \subseteq Versions,
         SearchSound'
  PROVE  Holds'
<1>1. /\ TypeOK /\ JobsSound /\ OneJobPerFile /\ LandSound /\ LandedIsCurrent
  BY DEF IInv
<1>2. TypeOK'
  BY <1>1 DEF TypeOK
<1>3. JobsSound' /\ OneJobPerFile' /\ LandSound' /\ LandedIsCurrent'
  BY <1>1 DEF JobsSound, OneJobPerFile, LandSound, LandedIsCurrent, AtStage, FileOf, ContentOf
<1> QED  BY <1>2, <1>3 DEF Holds, Landing

LEMMA ReindexSteps ==
  ASSUME IInv, Prepare \/ StepReads \/ StepIndexes \/ StepCrashes \/ Verify \/ SwapChunks \/ DropOld
  PROVE  Holds'
<1>1. /\ TypeOK /\ SearchSound /\ rx \in Reindex /\ chunks \subseteq Versions
      /\ UNCHANGED <<up, job, doc, ver, faults>> /\ doc \in [Files -> Document]
  BY DEF IInv, TypeOK, Prepare, StepReads, StepIndexes, StepCrashes, Verify, SwapChunks, DropOld
<1>2. /\ rx.cursor \in 0..NFiles /\ rx.batch \subseteq Versions /\ rx.behind \subseteq Versions
      /\ rx.live \subseteq Versions
  BY <1>1 DEF Reindex
<1>3. LiveVersions \subseteq Versions
  BY <1>1 DEF LiveVersions, Versions, Document
<1>4. CASE Prepare \/ DropOld
  <2>1. PICK pc \in {"building", "dropped"} : rx' = [rx EXCEPT !.pc = pc] /\ UNCHANGED chunks
    BY <1>4 DEF Prepare, DropOld
  <2>2. rx' \in Reindex /\ rx'.behind = rx.behind /\ rx'.pc # "verified"
    BY <1>1, <2>1 DEF Reindex
  <2>3. SearchSound'
    BY <1>1, <2>1, <2>2 DEF SearchSound
  <2> QED  BY <1>1, <2>1, <2>2, <2>3, ReindexMoves
<1>5. CASE StepReads \/ StepIndexes \/ StepCrashes
  <2>1. PICK B \in SUBSET Versions, n \in 0..NFiles :
          rx' = [rx EXCEPT !.batch = B, !.cursor = n] /\ UNCHANGED chunks /\ rx.pc = "building"
    <3>1. CASE StepReads
      <4>1. FirstAfter(rx.cursor, BatchDocs) \subseteq Versions
        BY <1>3 DEF FirstAfter
      <4> DEFINE B == FirstAfter(rx.cursor, BatchDocs)
      <4>2. rx' = [rx EXCEPT !.batch = B] /\ UNCHANGED chunks /\ rx.pc = "building"
        BY <3>1 DEF StepReads
      <4> HIDE DEF B
      <4>3. rx' = [rx EXCEPT !.batch = B, !.cursor = rx.cursor]
        BY <1>1, <4>2 DEF Reindex
      <4> QED  BY <1>2, <4>1, <4>2, <4>3 DEF B
    <3>2. CASE StepIndexes
      <4>1. PICK v \in rx.batch : \/ rx' = [rx EXCEPT !.batch = {}]
                                  \/ rx' = [rx EXCEPT !.batch = rx.batch \ {v}, !.cursor = v[1]]
        BY <3>2 DEF StepIndexes
      <4>2. UNCHANGED chunks /\ rx.pc = "building"
        BY <3>2 DEF StepIndexes
      <4>3. v[1] \in 0..NFiles
        BY <1>2, Constants_ DEF Versions
      <4>4. CASE rx' = [rx EXCEPT !.batch = {}]
        <5>1. rx' = [rx EXCEPT !.batch = {}, !.cursor = rx.cursor]
          BY <1>1, <4>4 DEF Reindex
        <5> QED  BY <1>2, <4>2, <5>1
      <4>5. CASE rx' = [rx EXCEPT !.batch = rx.batch \ {v}, !.cursor = v[1]]
        BY <1>2, <4>2, <4>3, <4>5
      <4> QED  BY <4>1, <4>4, <4>5
    <3>3. CASE StepCrashes
      <4>1. PICK kept \in {0, rx.cursor} : rx' = [rx EXCEPT !.batch = {}, !.cursor = kept]
        BY <3>3 DEF StepCrashes
      <4>2. UNCHANGED chunks /\ rx.pc = "building"
        BY <3>3 DEF StepCrashes
      <4>3. kept \in 0..NFiles
        BY <1>2, <4>1, UploadAssumption
      <4>4. {} \in SUBSET Versions
        OBVIOUS
      <4> QED  BY <4>1, <4>2, <4>3, <4>4
    <3> QED  BY <1>5, <3>1, <3>2, <3>3
  <2>2. rx' \in Reindex /\ rx'.behind = rx.behind /\ rx'.pc # "verified"
    BY <1>1, <2>1 DEF Reindex
  <2>3. SearchSound'
    BY <1>1, <2>1, <2>2 DEF SearchSound
  <2> QED  BY <1>1, <2>1, <2>2, <2>3, ReindexMoves
<1>6. CASE Verify
  <2> DEFINE L == LiveVersions
  <2>1. L = {} /\ rx' = [rx EXCEPT !.pc = "verified", !.live = L] /\ UNCHANGED chunks
    BY <1>6 DEF Verify, Covered
  <2> HIDE DEF L
  <2>2. rx' \in Reindex /\ rx'.behind = rx.behind /\ rx'.live = {}
    BY <1>1, <2>1 DEF Reindex
  <2>3. SearchSound'
    BY <1>1, <2>1, <2>2 DEF SearchSound
  <2> QED  BY <1>1, <2>1, <2>2, <2>3, ReindexMoves
<1>7. CASE SwapChunks
  <2> DEFINE B == {v \in Versions : v[2] \in ver[v[1]]} \ rx.live
  <2>1. rx.live = {} /\ chunks' = {} /\ rx' = [rx EXCEPT !.pc = "swapped", !.behind = B]
    BY <1>1, <1>7 DEF SwapChunks, SearchSound
  <2>2. B \subseteq Versions
    OBVIOUS
  <2>3. ASSUME NEW f \in Files, NEW c \in ver[f] PROVE <<f, c>> \in B
    <3>1. c \in Contents
      BY <1>1, <2>3 DEF TypeOK
    <3> QED  BY <2>1, <2>3, <3>1 DEF Versions
  <2> HIDE DEF B
  <2>4. rx' \in Reindex /\ rx'.behind = B /\ rx'.pc # "verified"
    BY <1>1, <2>1, <2>2 DEF Reindex
  <2>5. SearchSound'
    BY <1>1, <2>3, <2>4 DEF SearchSound
  <2> QED  BY <1>1, <2>1, <2>4, <2>5, ReindexMoves
<1> QED  BY <1>4, <1>5, <1>6, <1>7

-----------------------------------------------------------------------------
(* The theorems.                                                             *)

LEMMA InitHolds == Init => IInv
<1> SUFFICES ASSUME Init PROVE IInv
  OBVIOUS
<1>1. NoUpload \in Upload /\ NoDoc \in Document /\ NoUpload.pc = "none"
      /\ NoDoc.status = "absent" /\ NoDoc.ended = 0
  BY Constants_, UploadAssumption DEF NoUpload, NoDoc, Upload, Document
<1>2. NoJob \in Job /\ NoJob.state = "none" /\ NoJob.attempt = 0
  BY NoJobTyped
<1>3. rx \in Reindex /\ rx.pc = "off"
  BY UploadAssumption DEF Init, Reindex
<1>4. TypeOK
  BY <1>1, <1>2, <1>3, Constants_ DEF Init, TypeOK
<1>5. JobsSound /\ OneJobPerFile
  BY <1>2, Constants_ DEF Init, JobsSound, OneJobPerFile
<1>6. LandSound /\ LandedIsCurrent
  BY <1>1, <1>2 DEF Init, LandSound, LandedIsCurrent, AtStage
<1>7. SearchSound
  BY <1>1, <1>3 DEF Init, SearchSound
<1> QED  BY <1>4, <1>5, <1>6, <1>7 DEF IInv

LEMMA StepHolds == IInv /\ [Next]_vars => IInv'
<1> SUFFICES ASSUME IInv, [Next]_vars PROVE Holds'
  BY DEF Holds, Landing, IInv
<1>1. CASE \E i \in Uploads, f \in Files, c \in Contents : Ingest(i, f, c)
  BY <1>1, UploadSteps
<1>2. ASSUME NEW i \in Uploads,
             Store(i) \/ AcceptFails(i) \/ Enqueue(i) \/ Work(i) \/ AttemptFails(i)
               \/ ParseFails(i) \/ BatchRefused(i) \/ BatchFails(i) \/ Reap(i)
      PROVE  Holds'
  <2>1. CASE Store(i) \/ AcceptFails(i) \/ Enqueue(i)
    BY <2>1, UploadSteps, EnqueueStep
  <2>2. CASE StartAttempt(i) \/ AttemptFails(i) \/ ParseFails(i) \/ EmbedReturns(i)
    BY <2>2, StartAttemptStep, AttemptFailsStep, ParseFailsStep, EmbedReturnsStep
  <2>3. CASE BatchStarts(i) \/ BatchRefused(i) \/ BatchSucceeds(i) \/ BatchFails(i)
    BY <2>3, BatchSteps
  <2>4. CASE Fetch(i) \/ Commit(i) \/ Return(i) \/ Reap(i)
    BY <2>4, FetchStep, CommitStep, ReturnStep, ReapStep
  <2> QED  BY <1>2, <2>1, <2>2, <2>3, <2>4 DEF Work
<1>3. CASE \E f \in Files : Delete(f)
  BY <1>3, DeleteStep
<1>4. CASE Prepare \/ StepReads \/ StepIndexes \/ StepCrashes \/ Verify \/ SwapChunks \/ DropOld
  BY <1>4, ReindexSteps
<1>5. CASE UNCHANGED vars
  <2>1. UNCHANGED <<up, job, doc, ver, chunks, rx, faults>>
    BY <1>5 DEF vars
  <2>2. SearchSound'
    BY <2>1, SearchQuiet
  <2> QED  BY <2>1, <2>2, ReindexMoves DEF IInv, TypeOK
<1> QED  BY <1>1, <1>2, <1>3, <1>4, <1>5 DEF Next

\* The inductive invariant holds: attempts, the one job of a file, what a returning attempt has
\* written, and the rows of versions are consistent in every state (ingestdoc.go, put.go).
THEOREM Invariance == Spec => []IInv
<1> QED  BY InitHolds, StepHolds, PTL DEF Spec

\* Uploads, jobs, documents, versions, rows and reindex stay within their types: no attempt is
\* beyond River's limit, no batch beyond the slots, and no count of failures at the threshold.
THEOREM TypeCorrect == Spec => []TypeOK
<1>1. IInv => TypeOK
  BY DEF IInv
<1> QED  BY <1>1, Invariance, PTL

\* When no job of a file is under way or was given up, the current content is that of the last
\* upload whose job completed and recorded no failure (ingestdoc.go Run, put.go, sync.go).
THEOREM LandedIsCurrentAlways == Spec => []LandedIsCurrent
<1>1. IInv => LandedIsCurrent
  BY DEF IInv
<1> QED  BY <1>1, Invariance, PTL

\* Every live version has its rows in the table searches read, but for those the swap left
\* behind (put.go, reindex.go).
THEOREM LiveIsSearchableAlways == Spec => []LiveIsSearchable
<1>1. IInv => LiveIsSearchable
  BY DEF IInv, SearchSound, LiveIsSearchable, LiveVersions
<1> QED  BY <1>1, Invariance, PTL
=============================================================================
