---------------------------- MODULE DocumentProofs ----------------------------
(***************************************************************************)
(* What happens to documents: their ingestion, the index of their tables,  *)
(* and the schedules that apply rules to them.                             *)
(***************************************************************************)
EXTENDS IngestionJobs, DatasetIndexing, DocumentSchedules, FiniteSetTheorems,
        SequenceTheorems, TLAPS

-----------------------------------------------------------------------------
(***************************************************************************)
(* What is indexed is complete, for any document, number of workers, jobs, *)
(* attempts and requests, as long as the chunks are those of a pass that   *)
(* was alone when it stored them.                                          *)
(***************************************************************************)

JobRow == [status : Stages \cup {"none"}, attempts : Int, checkpoint : BOOLEAN]
IngesterRow == [pc : {"idle", "download", "parse", "chunk", "checkpoint", "announce", "resume",
                      "embed", "finish"},
                pass : SUBSET PassMessages, attempt : Int, of : SUBSET PassMessages,
                todo : SUBSET Parts, total : Int, seen : Stages, held : Stages,
                beside : BOOLEAN]
DocumentRow == [status : Stages, quarantined : BOOLEAN, text : BOOLEAN]
ChunkRows == [of : SUBSET PassMessages, embedded : SUBSET Parts]

Known == {j \in JobIds : jobs[j].status # "none"}

Types == /\ document \in DocumentRow
         /\ jobs \in [JobIds -> JobRow]
         /\ rows \in ChunkRows
         /\ passes \subseteq PassMessages
         /\ ingester \in [Ingesters -> IngesterRow]
         /\ submits \in 0..MaxSubmits

\* Jobs are numbered in the order of their creation; messages and passes belong to jobs
\* that exist, and a pass that embeds has something left to embed.
HaveJobs == /\ \E n \in JobIds : Known = 1..n
            /\ \A p \in passes : p.job \in Known
            /\ \A i \in Ingesters : \A p \in ingester[i].pass : p.job \in Known
HaveWork == \A i \in Ingesters :
                /\ Busy(i) => ingester[i].pass # {}
                /\ ingester[i].pc \in {"checkpoint", "announce", "embed"} => ingester[i].todo # {}

Shape == Types /\ HaveJobs /\ HaveWork

\* A pass behind its chunks works on the chunks that are there, and what it has not
\* left to do is embedded.
Holds(i) == /\ rows.of # {}
            /\ ingester[i].pc # "resume" =>
                  /\ ingester[i].of = rows.of
                  /\ \A c \in Parts : c \in ingester[i].todo \/ c \in rows.embedded
            /\ ingester[i].pc = "finish" => ingester[i].todo = {}
Behind == {"checkpoint", "announce", "resume", "embed", "finish"}

Sound == ~undermined =>
             /\ jobs[LatestJob].checkpoint => rows.of # {}
             /\ \A i \in Ingesters : ingester[i].pc \in Behind => Holds(i)
             /\ document.status = "indexed" /\ document.text => FullyEmbedded

\* Beside a pass that is alone there is nobody who would end the document as indexed: it
\* was not when the pass began.
Alone == \A i \in Ingesters : Busy(i) /\ ~ingester[i].beside =>
             document.status # "indexed" /\ \A o \in Ingesters \ {i} : ~Busy(o)

IngestionInv == Shape /\ Sound /\ Alone
-----------------------------------------------------------------------------
LEMMA PartsExist == Parts # {}
BY IngestionBounds, FS_EmptySet

LEMMA ThePass ==
    ASSUME Shape, NEW i \in Ingesters, Busy(i)
    PROVE  /\ PassOf(i) \in ingester[i].pass /\ PassOf(i) \in PassMessages
           /\ JobOf(i) \in Known /\ JobOf(i) \in JobIds
<1>1. ingester[i].pass # {} /\ ingester[i].pass \subseteq PassMessages
  BY DEF Shape, HaveWork, Types, IngesterRow
<1>2. PassOf(i) \in ingester[i].pass
  BY <1>1 DEF PassOf
<1> QED
  BY <1>1, <1>2 DEF JobOf, Shape, HaveJobs, Known

\* The latest job is the last of those that exist.
LEMMA TheLatest ==
    ASSUME NEW n \in JobIds, Known = 1..n
    PROVE  LatestJob = n
<1>1. LatestJob = Max(1..n)
  BY DEF LatestJob, Known
<1>2. n \in 1..n /\ \A m \in 1..n : n >= m
  BY IngestionBounds DEF JobIds
<1>3. \A k \in 1..n : (\A m \in 1..n : k >= m) => k = n
  BY IngestionBounds DEF JobIds
<1> QED
  BY <1>1, <1>2, <1>3 DEF Max

\* Nothing that is written to a job that exists makes another one the latest.
LEMMA KnownKept ==
    ASSUME \A j \in JobIds : jobs'[j].status = "none" <=> jobs[j].status = "none"
    PROVE  Known' = Known /\ LatestJob' = LatestJob
<1>1. {j \in JobIds : jobs'[j].status # "none"} = {j \in JobIds : jobs[j].status # "none"}
  OBVIOUS
<1> QED
  BY <1>1 DEF Known, LatestJob

LEMMA WritesJob ==
    ASSUME jobs \in [JobIds -> JobRow], NEW j \in Known, NEW row \in JobRow,
           row.status # "none", jobs' = [jobs EXCEPT ![j] = row]
    PROVE  /\ jobs' \in [JobIds -> JobRow]
           /\ Known' = Known /\ LatestJob' = LatestJob
           /\ \A k \in JobIds : jobs'[k] = IF k = j THEN row ELSE jobs[k]
<1>1. j \in JobIds /\ jobs[j].status # "none"
  BY DEF Known
<1>2. \A k \in JobIds : jobs'[k] = IF k = j THEN row ELSE jobs[k]
  BY <1>1
<1>3. Known' = Known /\ LatestJob' = LatestJob
  BY <1>1, <1>2, KnownKept
<1> QED
  BY <1>1, <1>2, <1>3

LEMMA StatusOfJob ==
    ASSUME jobs \in [JobIds -> JobRow], NEW j \in Known, NEW s \in Stages, JobBecomes(j, s)
    PROVE  /\ jobs' \in [JobIds -> JobRow]
           /\ Known' = Known /\ LatestJob' = LatestJob
           /\ \A k \in JobIds : jobs'[k].checkpoint = jobs[k].checkpoint
<1> DEFINE row == [jobs[j] EXCEPT !.status = s]
<1>1. j \in JobIds /\ jobs[j] \in JobRow
  BY DEF Known
<1>2. row \in JobRow /\ row.status # "none" /\ row.checkpoint = jobs[j].checkpoint
  BY <1>1 DEF JobRow, Stages, Working
<1>3. jobs' = [jobs EXCEPT ![j] = row]
  BY DEF JobBecomes
<1> HIDE DEF row
<1> QED
  BY <1>1, <1>2, <1>3, WritesJob

LEMMA StatusOfDocument ==
    ASSUME document \in DocumentRow, NEW s \in Stages, DocumentBecomes(s)
    PROVE  document' \in DocumentRow /\ document'.status = s /\ document'.text = document.text
BY DEF DocumentBecomes, DocumentRow
-----------------------------------------------------------------------------
\* A worker's step: who else works keeps what it has.
LEMMA WritesIngester ==
    ASSUME ingester \in [Ingesters -> IngesterRow], NEW i \in Ingesters, NEW row \in IngesterRow,
           ingester' = [ingester EXCEPT ![i] = row]
    PROVE  /\ ingester' \in [Ingesters -> IngesterRow]
           /\ \A o \in Ingesters : ingester'[o] = IF o = i THEN row ELSE ingester[o]
OBVIOUS

LEMMA RestingRow == Resting \in IngesterRow /\ Resting.pc = "idle" /\ Resting.pass = {}
BY DEF Resting, IngesterRow, Stages

LEMMA RestsWrites ==
    ASSUME ingester \in [Ingesters -> IngesterRow], NEW i \in Ingesters, Rests(i)
    PROVE  /\ ingester' \in [Ingesters -> IngesterRow]
           /\ \A o \in Ingesters : ingester'[o] = IF o = i THEN Resting ELSE ingester[o]
BY RestingRow, WritesIngester DEF Rests

LEMMA MovesWrites ==
    ASSUME ingester \in [Ingesters -> IngesterRow], NEW i \in Ingesters,
           NEW pc \in {"parse", "chunk", "announce"}, Moves(i, pc)
    PROVE  /\ ingester' \in [Ingesters -> IngesterRow]
           /\ \A o \in Ingesters : o # i => ingester'[o] = ingester[o]
           /\ ingester'[i].pc = pc /\ ingester'[i].pass = ingester[i].pass
           /\ ingester'[i].of = ingester[i].of /\ ingester'[i].todo = ingester[i].todo
           /\ ingester'[i].beside = ingester[i].beside
<1> DEFINE row == [ingester[i] EXCEPT !.pc = pc]
<1>1. ingester[i] \in IngesterRow
  OBVIOUS
<1>2. /\ row \in IngesterRow /\ row.pc = pc /\ row.pass = ingester[i].pass
      /\ row.of = ingester[i].of /\ row.todo = ingester[i].todo
      /\ row.beside = ingester[i].beside
  BY <1>1 DEF IngesterRow
<1>3. ingester' = [ingester EXCEPT ![i] = row]
  BY DEF Moves
<1> HIDE DEF row
<1> QED
  BY <1>2, <1>3, WritesIngester

LEMMA ShapeKept ==
    ASSUME Shape, Types', Known' = Known, NEW i \in Ingesters,
           \A o \in Ingesters : o # i =>
               /\ ingester'[o].pc = ingester[o].pc /\ ingester'[o].pass = ingester[o].pass
               /\ ingester'[o].todo = ingester[o].todo,
           \A p \in passes' : p.job \in Known,
           \A p \in ingester'[i].pass : p.job \in Known,
           ingester'[i].pc # "idle" => ingester'[i].pass # {},
           ingester'[i].pc \in {"checkpoint", "announce", "embed"} => ingester'[i].todo # {}
    PROVE  Shape'
<1>1. HaveJobs'
  <2>1. \E n \in JobIds : Known' = 1..n
    BY DEF Shape, HaveJobs
  <2>2. \A o \in Ingesters : \A p \in ingester'[o].pass : p.job \in Known
    BY DEF Shape, HaveJobs
  <2> QED
    BY <2>1, <2>2 DEF HaveJobs
<1>2. HaveWork'
  BY DEF Shape, HaveWork, Busy
<1> QED
  BY <1>1, <1>2 DEF Shape

\* A step that touches no chunks, does not end as indexed, and moves on in order.
LEMMA SoundKept ==
    ASSUME Sound, NEW i \in Ingesters, rows' = rows, undermined' = undermined,
           \A o \in Ingesters : o # i =>
               /\ ingester'[o].pc = ingester[o].pc /\ ingester'[o].of = ingester[o].of
               /\ ingester'[o].todo = ingester[o].todo,
           jobs'[LatestJob'].checkpoint
              => undermined \/ jobs[LatestJob].checkpoint \/ rows.of # {},
           ingester'[i].pc \in Behind => undermined \/ Holds(i)',
           document'.status = "indexed" /\ document'.text
              => undermined \/ (document.status = "indexed" /\ document.text) \/ FullyEmbedded
    PROVE  Sound'
<1> SUFFICES ASSUME ~undermined PROVE Sound'
  BY DEF Sound
<1>1. jobs'[LatestJob'].checkpoint => rows'.of # {}
  BY DEF Sound
<1>2. \A o \in Ingesters : ingester'[o].pc \in Behind => Holds(o)'
  BY DEF Sound, Holds
<1>3. document'.status = "indexed" /\ document'.text => FullyEmbedded'
  BY DEF Sound, FullyEmbedded
<1> QED
  BY <1>1, <1>2, <1>3 DEF Sound

\* A busy worker moves on, or rests and may then have ended the document as indexed.
LEMMA AloneKept ==
    ASSUME Alone, NEW i \in Ingesters, Busy(i),
           \A o \in Ingesters : o # i => ingester'[o] = ingester[o],
           ingester'[i].pc # "idle" => ingester'[i].beside = ingester[i].beside,
           document'.status = "indexed" => document.status = "indexed" \/ ingester'[i].pc = "idle"
    PROVE  Alone'
<1> SUFFICES ASSUME NEW o \in Ingesters, Busy(o)', ~ingester'[o].beside
             PROVE  document'.status # "indexed" /\ \A w \in Ingesters \ {o} : ~Busy(w)'
  BY DEF Alone
<1>1. CASE o = i
  <2>1. ~ingester[i].beside /\ ingester'[i].pc # "idle"
    BY <1>1 DEF Busy
  <2>2. document.status # "indexed" /\ \A w \in Ingesters \ {i} : ~Busy(w)
    BY <2>1 DEF Alone
  <2> QED
    BY <1>1, <2>1, <2>2 DEF Busy
<1>2. CASE o # i
  BY <1>2 DEF Alone, Busy
<1> QED
  BY <1>1, <1>2

LEMMA LatestIsKnown == ASSUME HaveJobs PROVE LatestJob \in Known /\ Known \subseteq JobIds
<1>1. PICK n \in JobIds : Known = 1..n
  BY DEF HaveJobs
<1> QED
  BY <1>1, TheLatest, IngestionBounds DEF JobIds, Known
-----------------------------------------------------------------------------
LEMMA InitHolds == ASSUME IngestionInit PROVE IngestionInv
<1>1. Types
  <2>1. document \in DocumentRow
    BY DEF IngestionInit, DocumentRow, Stages
  <2>2. jobs \in [JobIds -> JobRow]
    <3>1. \A j \in JobIds : [status |-> IF j = 1 THEN "queued" ELSE "none", attempts |-> 0,
                             checkpoint |-> FALSE] \in JobRow
      BY DEF JobRow, Stages
    <3> QED
      BY <3>1 DEF IngestionInit
  <2>3. rows \in ChunkRows /\ submits \in 0..MaxSubmits
    BY IngestionBounds DEF IngestionInit, NoRows, ChunkRows
  <2>4. passes \subseteq PassMessages
    BY IngestionBounds DEF IngestionInit, PassMessages, JobIds
  <2>5. ingester \in [Ingesters -> IngesterRow]
    BY RestingRow DEF IngestionInit
  <2> QED
    BY <2>1, <2>2, <2>3, <2>4, <2>5 DEF Types
<1>2. Known = 1..1 /\ 1 \in JobIds
  BY IngestionBounds DEF IngestionInit, Known, JobIds
<1>3. HaveJobs
  BY <1>2, RestingRow DEF IngestionInit, HaveJobs
<1>4. HaveWork
  BY RestingRow DEF IngestionInit, HaveWork, Busy
<1>5. Sound
  <2>1. LatestJob = 1
    BY <1>2, TheLatest
  <2>2. ~jobs[LatestJob].checkpoint
    BY <1>2, <2>1 DEF IngestionInit
  <2> QED
    BY <2>2, RestingRow DEF IngestionInit, Sound, Behind
<1>6. Alone
  BY RestingRow DEF IngestionInit, Alone, Busy
<1> QED
  BY <1>1, <1>3, <1>4, <1>5, <1>6 DEF IngestionInv, Shape

LEMMA StartPassKeeps ==
    ASSUME IngestionInv, NEW i \in Ingesters, NEW p \in passes, StartPass(i, p)
    PROVE  IngestionInv'
<1> DEFINE j == p.job
           others == {o \in Ingesters \ {i} : Busy(o)}
           row(pc) == [Resting EXCEPT !.pc = pc, !.pass = {p}, !.attempt = jobs[j].attempts + 1,
                                      !.seen = document.status, !.held = jobs[j].status,
                                      !.beside = others # {}]
           new(pc) == [o \in Ingesters |->
                          IF o = i THEN row(pc)
                          ELSE IF o \in others THEN [ingester[o] EXCEPT !.beside = TRUE]
                          ELSE ingester[o]]
<1>1. Types /\ HaveJobs /\ p \in PassMessages /\ j \in Known /\ j \in JobIds
  BY DEF IngestionInv, Shape, Types, HaveJobs, Known
<1>2. /\ jobs[j] \in JobRow /\ jobs[j].attempts + 1 \in Int /\ document.status \in Stages
      /\ jobs[j].status \in Stages
  BY <1>1 DEF Types, JobRow, DocumentRow, Known
<1>3. \A pc \in {"resume", "download"} :
         /\ row(pc) \in IngesterRow /\ row(pc).pc = pc /\ row(pc).pass = {p}
         /\ row(pc).beside = (others # {})
  <2>1. (others # {}) \in BOOLEAN
    OBVIOUS
  <2> HIDE DEF others
  <2> QED
    BY <1>1, <1>2, <2>1, RestingRow DEF IngesterRow
<1>4. /\ \/ ingester' = ingester
         \/ \E pc \in {"resume", "download"} :
               /\ ingester' = new(pc) /\ document.status # "indexed"
               /\ pc = "resume" => j = LatestJob /\ jobs[j].checkpoint
      /\ \/ jobs' = jobs
         \/ JobBecomes(j, "failed")
         \/ JobBecomes(j, "indexed")
         \/ jobs' = [jobs EXCEPT ![j].attempts = jobs[j].attempts + 1]
  BY DEF StartPass
<1> HIDE DEF row
<1>5. /\ jobs' \in [JobIds -> JobRow] /\ Known' = Known /\ LatestJob' = LatestJob
      /\ \A k \in JobIds : jobs'[k].checkpoint = jobs[k].checkpoint
  <2>1. CASE jobs' = jobs
    BY <2>1, <1>1 DEF Types, Known, LatestJob
  <2>2. CASE JobBecomes(j, "failed") \/ JobBecomes(j, "indexed")
    BY <2>2, <1>1, StatusOfJob DEF Types, Stages
  <2>3. CASE jobs' = [jobs EXCEPT ![j].attempts = jobs[j].attempts + 1]
    <3> DEFINE counted == [jobs[j] EXCEPT !.attempts = jobs[j].attempts + 1]
    <3>1. counted \in JobRow /\ counted.status # "none" /\ counted.checkpoint = jobs[j].checkpoint
      BY <1>1, <1>2 DEF JobRow, Known
    <3>2. jobs' = [jobs EXCEPT ![j] = counted]
      BY <2>3
    <3> HIDE DEF counted
    <3> QED
      BY <3>1, <3>2, <1>1, WritesJob DEF Types
  <2> QED
    BY <1>4, <2>1, <2>2, <2>3
<1> DEFINE Begun ==
         /\ ingester' \in [Ingesters -> IngesterRow]
         /\ \A o \in Ingesters : o # i =>
               /\ ingester'[o].pc = ingester[o].pc /\ ingester'[o].pass = ingester[o].pass
               /\ ingester'[o].of = ingester[o].of /\ ingester'[o].todo = ingester[o].todo
         /\ \/ ingester' = ingester
            \/ \E pc \in {"resume", "download"} :
                  /\ ingester'[i] = row(pc) /\ document.status # "indexed"
                  /\ \A o \in others : ingester'[o].beside
                  /\ pc = "resume" => j = LatestJob /\ jobs[j].checkpoint
<1>6. Begun
  <2>1. CASE ingester' = ingester
    BY <1>1, <2>1 DEF Types
  <2>2. ASSUME NEW pc \in {"resume", "download"}, ingester' = new(pc), document.status # "indexed",
               pc = "resume" => j = LatestJob /\ jobs[j].checkpoint
        PROVE  Begun
    <3>1. ASSUME NEW o \in others, NEW own, own = [ingester[o] EXCEPT !.beside = TRUE]
          PROVE  /\ own \in IngesterRow /\ own.pc = ingester[o].pc /\ own.pass = ingester[o].pass
                 /\ own.of = ingester[o].of /\ own.todo = ingester[o].todo /\ own.beside
      <4>1. ingester[o] \in IngesterRow
        BY <1>1 DEF Types
      <4> QED
        BY <3>1, <4>1 DEF IngesterRow
    <3> QED
      BY <1>1, <1>3, <2>2, <3>1 DEF Types
  <2> QED
    BY <1>4, <2>1, <2>2
<1>7. ingester[i].pc = "idle" /\ passes' = passes \ {p} /\ document' = document /\ rows' = rows
      /\ submits' = submits /\ undermined' = undermined
  BY DEF StartPass, Busy
<1>8. Shape'
  <2>1. Types'
    BY <1>1, <1>5, <1>6, <1>7 DEF Types
  <2>2. \A q \in passes' : q.job \in Known
    BY <1>1, <1>7 DEF HaveJobs
  <2>3. \A q \in ingester'[i].pass : q.job \in Known
    BY <1>1, <1>3, <1>6 DEF HaveJobs
  <2>4. /\ ingester'[i].pc # "idle" => ingester'[i].pass # {}
        /\ ingester'[i].pc \notin {"checkpoint", "announce", "embed"}
    BY <1>3, <1>6, <1>7
  <2> QED
    BY <1>5, <1>6, <2>1, <2>2, <2>3, <2>4, ShapeKept DEF IngestionInv
<1>9. Sound'
  <2>1. LatestJob \in JobIds
    BY <1>1, LatestIsKnown
  <2>2. ingester'[i].pc \in Behind => ingester'[i].pc = "resume" /\ jobs[LatestJob].checkpoint
    BY <1>3, <1>6, <1>7 DEF Behind
  <2>3. ingester'[i].pc \in Behind => undermined \/ Holds(i)'
    BY <2>2, <1>7 DEF Holds, IngestionInv, Sound
  <2> QED
    BY <1>5, <1>6, <1>7, <2>1, <2>3, SoundKept DEF IngestionInv
<1>10. Alone'
  <2>1. CASE ingester' = ingester
    BY <1>7, <2>1 DEF IngestionInv, Alone, Busy
  <2>2. ASSUME NEW pc \in {"resume", "download"}, ingester'[i] = row(pc),
               document.status # "indexed", \A o \in others : ingester'[o].beside
        PROVE  Alone'
    <3>1. ingester'[i].beside = (others # {})
      BY <1>3, <2>2
    <3>2. \A o \in Ingesters \ {i} : Busy(o)' => o \in others
      BY <1>6 DEF Busy
    <3> QED
      BY <1>7, <2>2, <3>1, <3>2 DEF Alone
  <2> QED
    BY <1>6, <2>1, <2>2
<1> QED
  BY <1>8, <1>9, <1>10 DEF IngestionInv

\* What every step of a busy worker starts from.
LEMMA BusyFacts ==
    ASSUME IngestionInv, NEW i \in Ingesters, Busy(i)
    PROVE  /\ Types /\ HaveJobs /\ Shape /\ Sound /\ Alone
           /\ jobs \in [JobIds -> JobRow] /\ document \in DocumentRow /\ rows \in ChunkRows
           /\ ingester \in [Ingesters -> IngesterRow] /\ ingester[i] \in IngesterRow
           /\ JobOf(i) \in Known /\ JobOf(i) \in JobIds
           /\ ingester[i].pass # {} /\ ingester[i].pass \subseteq PassMessages
           /\ \A p \in ingester[i].pass : p.job \in Known
           /\ \A p \in passes : p.job \in Known
           /\ LatestJob \in JobIds
           /\ {"queued", Working, "embedding", "indexed", "failed", "dead_lettered"} = Stages
<1>1. Types /\ HaveJobs /\ Shape /\ Sound /\ Alone /\ HaveWork
  BY DEF IngestionInv, Shape
<1>2. ingester \in [Ingesters -> IngesterRow] /\ ingester[i] \in IngesterRow
  BY <1>1 DEF Types
<1>3. ingester[i].pass # {} /\ ingester[i].pass \subseteq PassMessages
  BY <1>1, <1>2 DEF HaveWork, IngesterRow
<1>4. LatestJob \in JobIds
  BY <1>1, LatestIsKnown
<1> QED
  BY <1>1, <1>2, <1>3, <1>4, ThePass DEF Types, HaveJobs, Stages

LEMMA DownloadKeeps ==
    ASSUME IngestionInv, NEW i \in Ingesters, Download(i)
    PROVE  IngestionInv'
<1> DEFINE j == JobOf(i)
           row == [jobs[j] EXCEPT !.status = Working, !.attempts = ingester[i].attempt]
<1>1. Busy(i)
  BY DEF Download, InStage, Busy
<1>2. jobs[j] \in JobRow /\ ingester[i].attempt \in Int
  BY <1>1, BusyFacts DEF IngesterRow
<1>3. row \in JobRow /\ row.status # "none" /\ row.checkpoint = jobs[j].checkpoint
  BY <1>2 DEF JobRow, Stages, Working
<1>4. jobs' = [jobs EXCEPT ![j] = row]
  BY DEF Download
<1> HIDE DEF row
<1>5. /\ jobs' \in [JobIds -> JobRow] /\ Known' = Known /\ LatestJob' = LatestJob
      /\ \A k \in JobIds : jobs'[k].checkpoint = jobs[k].checkpoint
  BY <1>1, <1>3, <1>4, BusyFacts, WritesJob
<1>6. /\ ingester' \in [Ingesters -> IngesterRow]
      /\ \A o \in Ingesters : o # i => ingester'[o] = ingester[o]
      /\ ingester'[i].pc = "parse" /\ ingester'[i].pass = ingester[i].pass
      /\ ingester'[i].beside = ingester[i].beside
  BY <1>1, BusyFacts, MovesWrites DEF Download
<1>7. document' \in DocumentRow /\ document'.status = Working
  BY <1>1, BusyFacts, StatusOfDocument DEF Download
<1>8. rows' = rows /\ passes' = passes /\ submits' = submits /\ undermined' = undermined
  BY DEF Download
<1>9. Types'
  BY <1>1, <1>5, <1>6, <1>7, <1>8, BusyFacts DEF Types
<1>10. Shape'
  BY <1>1, <1>5, <1>6, <1>8, <1>9, BusyFacts, ShapeKept
<1>11. Sound'
  BY <1>1, <1>5, <1>6, <1>7, <1>8, BusyFacts, SoundKept DEF Working, Behind
<1>12. Alone'
  BY <1>1, <1>6, <1>7, BusyFacts, AloneKept DEF Working
<1> QED
  BY <1>10, <1>11, <1>12 DEF IngestionInv

\* A stage that writes two statuses and moves on or rests.
LEMMA ParseKeeps ==
    ASSUME IngestionInv, NEW i \in Ingesters, Parse(i)
    PROVE  IngestionInv'
<1>1. Busy(i)
  BY DEF Parse, InStage, Busy
<1>2. PICK s \in {Working, "indexed"} :
         /\ JobBecomes(JobOf(i), s) /\ DocumentBecomes(s)
         /\ \/ document.text /\ s = Working /\ Moves(i, "chunk")
            \/ ~document.text /\ Rests(i)
  BY DEF Parse
<1>3. /\ jobs' \in [JobIds -> JobRow] /\ Known' = Known /\ LatestJob' = LatestJob
      /\ \A k \in JobIds : jobs'[k].checkpoint = jobs[k].checkpoint
  BY <1>1, <1>2, BusyFacts, StatusOfJob
<1>4. document' \in DocumentRow /\ document'.status = s /\ document'.text = document.text
  BY <1>1, <1>2, BusyFacts, StatusOfDocument
<1>5. /\ ingester' \in [Ingesters -> IngesterRow]
      /\ \A o \in Ingesters : o # i => ingester'[o] = ingester[o]
      /\ \/ ingester'[i].pc = "chunk" /\ ingester'[i].pass = ingester[i].pass
            /\ ingester'[i].beside = ingester[i].beside /\ s = Working
         \/ ingester'[i] = Resting
  <2>1. CASE s = Working /\ Moves(i, "chunk")
    BY <2>1, <1>1, BusyFacts, MovesWrites
  <2>2. CASE Rests(i)
    BY <2>2, <1>1, BusyFacts, RestsWrites
  <2> QED
    BY <1>2, <2>1, <2>2
<1>6. rows' = rows /\ passes' = passes /\ submits' = submits /\ undermined' = undermined
  BY DEF Parse
<1>7. Types'
  BY <1>1, <1>3, <1>4, <1>5, <1>6, BusyFacts DEF Types
<1>8. Shape'
  BY <1>1, <1>3, <1>5, <1>6, <1>7, BusyFacts, ShapeKept, RestingRow
<1>9. Sound'
  <2>1. document'.status = "indexed" => ~document'.text
    BY <1>2, <1>4 DEF Working
  <2> QED
    BY <1>1, <1>3, <1>5, <1>6, <2>1, BusyFacts, SoundKept, RestingRow DEF Behind
<1>10. Alone'
  BY <1>1, <1>4, <1>5, BusyFacts, AloneKept, RestingRow DEF Working
<1> QED
  BY <1>8, <1>9, <1>10 DEF IngestionInv

\* A pass that is alone when it replaces the chunks works on them from then on, and the
\* document is not indexed; any other one leaves them undermined.
LEMMA ReplaceChunksKeeps ==
    ASSUME IngestionInv, NEW i \in Ingesters, ReplaceChunks(i)
    PROVE  IngestionInv'
<1> DEFINE row == [ingester[i] EXCEPT !.pc = "checkpoint", !.of = ingester[i].pass,
                                      !.todo = Parts, !.total = Cardinality(Parts)]
<1>1. Busy(i)
  BY DEF ReplaceChunks, InStage, Busy
<1>2. /\ row \in IngesterRow /\ row.pc = "checkpoint" /\ row.pass = ingester[i].pass
      /\ row.of = ingester[i].pass /\ row.todo = Parts /\ row.beside = ingester[i].beside
  <2>1. Cardinality(Parts) \in Int
    BY IngestionBounds
  <2> QED
    BY <1>1, <2>1, BusyFacts DEF IngesterRow
<1>3. ingester' = [ingester EXCEPT ![i] = row]
  BY DEF ReplaceChunks
<1> HIDE DEF row
<1>4. /\ ingester' \in [Ingesters -> IngesterRow]
      /\ \A o \in Ingesters : o # i => ingester'[o] = ingester[o]
      /\ ingester'[i] = row
  BY <1>1, <1>2, <1>3, BusyFacts, WritesIngester
<1>5. document' = document /\ jobs' = jobs
  BY DEF ReplaceChunks
<1>6. Known' = Known /\ LatestJob' = LatestJob
  BY <1>5 DEF Known, LatestJob
<1>7. /\ rows' = [of |-> ingester[i].pass, embedded |-> {}]
      /\ passes' = passes /\ submits' = submits /\ undermined' = ingester[i].beside
  BY DEF ReplaceChunks
<1>8. Types'
  <2>1. rows' \in ChunkRows
    BY <1>1, <1>7, BusyFacts DEF ChunkRows
  <2> QED
    BY <1>1, <1>4, <1>5, <1>7, <2>1, BusyFacts DEF Types
<1>9. Shape'
  BY <1>1, <1>2, <1>4, <1>6, <1>7, <1>8, BusyFacts, ShapeKept, PartsExist
<1>10. Sound'
  <2> SUFFICES ASSUME ~ingester[i].beside PROVE Sound'
    BY <1>7 DEF Sound
  <2>1. rows'.of # {} /\ rows'.of = ingester[i].pass
    BY <1>1, <1>7, BusyFacts
  <2>2. document.status # "indexed" /\ \A o \in Ingesters \ {i} : ~Busy(o)
    BY <1>1, BusyFacts DEF Alone
  <2>3. \A o \in Ingesters : ingester'[o].pc \in Behind => o = i
    BY <1>4, <2>2 DEF Busy, Behind
  <2>4. Holds(i)'
    BY <1>2, <1>4, <2>1 DEF Holds
  <2> QED
    BY <1>5, <2>1, <2>2, <2>3, <2>4 DEF Sound
<1>11. Alone'
  BY <1>1, <1>2, <1>4, <1>5, BusyFacts, AloneKept
<1> QED
  BY <1>9, <1>10, <1>11 DEF IngestionInv

LEMMA SetCheckpointKeeps ==
    ASSUME IngestionInv, NEW i \in Ingesters, SetCheckpoint(i)
    PROVE  IngestionInv'
<1> DEFINE j == JobOf(i)
           row == [jobs[j] EXCEPT !.status = "embedding", !.checkpoint = TRUE]
<1>1. Busy(i) /\ ingester[i].pc = "checkpoint"
  BY DEF SetCheckpoint, InStage, Busy
<1>2. row \in JobRow /\ row.status # "none"
  BY <1>1, BusyFacts DEF JobRow, Stages
<1>3. jobs' = [jobs EXCEPT ![j] = row]
  BY DEF SetCheckpoint
<1> HIDE DEF row
<1>4. jobs' \in [JobIds -> JobRow] /\ Known' = Known /\ LatestJob' = LatestJob
  BY <1>1, <1>2, <1>3, BusyFacts, WritesJob
<1>5. /\ ingester' \in [Ingesters -> IngesterRow]
      /\ \A o \in Ingesters : o # i => ingester'[o] = ingester[o]
      /\ ingester'[i].pc = "announce" /\ ingester'[i].pass = ingester[i].pass
      /\ ingester'[i].of = ingester[i].of /\ ingester'[i].todo = ingester[i].todo
      /\ ingester'[i].beside = ingester[i].beside
  BY <1>1, BusyFacts, MovesWrites DEF SetCheckpoint
<1>6. /\ document' = document /\ rows' = rows /\ passes' = passes /\ submits' = submits
      /\ undermined' = undermined
  BY DEF SetCheckpoint
<1>7. Types'
  BY <1>1, <1>4, <1>5, <1>6, BusyFacts DEF Types
<1>8. ingester[i].todo # {}
  BY <1>1 DEF IngestionInv, Shape, HaveWork
<1>9. Shape'
  BY <1>1, <1>4, <1>5, <1>6, <1>7, <1>8, BusyFacts, ShapeKept
<1>10. Sound'
  <2>1. undermined \/ Holds(i)
    BY <1>1 DEF IngestionInv, Sound, Behind
  <2>2. undermined \/ rows.of # {}
    BY <2>1 DEF Holds
  <2>3. undermined \/ Holds(i)'
    BY <1>1, <1>5, <1>6, <2>1 DEF Holds
  <2> QED
    BY <1>1, <1>4, <1>5, <1>6, <2>2, <2>3, BusyFacts, SoundKept
<1>11. Alone'
  BY <1>1, <1>5, <1>6, BusyFacts, AloneKept
<1> QED
  BY <1>9, <1>10, <1>11 DEF IngestionInv

LEMMA AnnounceEmbeddingKeeps ==
    ASSUME IngestionInv, NEW i \in Ingesters, AnnounceEmbedding(i)
    PROVE  IngestionInv'
<1> DEFINE row == [ingester[i] EXCEPT !.pc = "embed", !.seen = "embedding", !.held = "embedding"]
<1>1. Busy(i) /\ ingester[i].pc = "announce"
  BY DEF AnnounceEmbedding, InStage, Busy
<1>2. /\ row \in IngesterRow /\ row.pc = "embed" /\ row.pass = ingester[i].pass
      /\ row.of = ingester[i].of /\ row.todo = ingester[i].todo /\ row.beside = ingester[i].beside
  BY <1>1, BusyFacts DEF IngesterRow, Stages
<1>3. /\ ingester' = [ingester EXCEPT ![i] = row] /\ jobs' = jobs /\ rows' = rows
      /\ passes' = passes /\ submits' = submits /\ undermined' = undermined
  BY DEF AnnounceEmbedding
<1> HIDE DEF row
<1>4. /\ ingester' \in [Ingesters -> IngesterRow]
      /\ \A o \in Ingesters : o # i => ingester'[o] = ingester[o]
      /\ ingester'[i] = row
  BY <1>1, <1>2, <1>3, BusyFacts, WritesIngester
<1>5. document' \in DocumentRow /\ document'.status = "embedding"
  BY <1>1, BusyFacts, StatusOfDocument DEF AnnounceEmbedding
<1>6. Known' = Known /\ LatestJob' = LatestJob
  BY <1>3 DEF Known, LatestJob
<1>7. Types'
  BY <1>1, <1>3, <1>4, <1>5, BusyFacts DEF Types
<1>8. ingester[i].todo # {}
  BY <1>1 DEF IngestionInv, Shape, HaveWork
<1>9. Shape'
  BY <1>1, <1>2, <1>3, <1>4, <1>6, <1>7, <1>8, BusyFacts, ShapeKept
<1>10. Sound'
  <2>1. undermined \/ Holds(i)
    BY <1>1 DEF IngestionInv, Sound, Behind
  <2>2. undermined \/ Holds(i)'
    BY <1>1, <1>2, <1>3, <1>4, <2>1 DEF Holds
  <2> QED
    BY <1>1, <1>3, <1>4, <1>5, <1>6, <2>2, BusyFacts, SoundKept
<1>11. Alone'
  BY <1>1, <1>2, <1>4, <1>5, BusyFacts, AloneKept
<1> QED
  BY <1>9, <1>10, <1>11 DEF IngestionInv

LEMMA LoadMissingKeeps ==
    ASSUME IngestionInv, NEW i \in Ingesters, LoadMissing(i)
    PROVE  IngestionInv'
<1>1. /\ Busy(i) /\ ingester[i].pc = "resume"
      /\ rows' = rows /\ passes' = passes /\ submits' = submits /\ undermined' = undermined
  BY DEF LoadMissing, InStage, Busy
<1>2. undermined \/ rows.of # {}
  BY <1>1 DEF IngestionInv, Sound, Behind, Holds
<1>3. CASE Missing = {}
  <2>1. JobBecomes(JobOf(i), "indexed") /\ DocumentBecomes("indexed") /\ Rests(i)
    BY <1>3 DEF LoadMissing
  <2>2. /\ jobs' \in [JobIds -> JobRow] /\ Known' = Known /\ LatestJob' = LatestJob
        /\ \A k \in JobIds : jobs'[k].checkpoint = jobs[k].checkpoint
    BY <1>1, <2>1, BusyFacts, StatusOfJob
  <2>3. document' \in DocumentRow
    BY <1>1, <2>1, BusyFacts, StatusOfDocument
  <2>4. /\ ingester' \in [Ingesters -> IngesterRow]
        /\ \A o \in Ingesters : ingester'[o] = IF o = i THEN Resting ELSE ingester[o]
    BY <1>1, <2>1, BusyFacts, RestsWrites
  <2>5. undermined \/ FullyEmbedded
    <3>1. rows.embedded \subseteq Parts
      BY <1>1, BusyFacts DEF ChunkRows
    <3> QED
      BY <1>2, <1>3, <3>1 DEF Missing, FullyEmbedded
  <2>6. Types'
    BY <1>1, <2>2, <2>3, <2>4, BusyFacts DEF Types
  <2>7. Shape'
    BY <1>1, <2>2, <2>4, <2>6, BusyFacts, ShapeKept, RestingRow
  <2>8. Sound'
    BY <1>1, <2>2, <2>4, <2>5, BusyFacts, SoundKept, RestingRow DEF Behind
  <2>9. Alone'
    BY <1>1, <2>4, BusyFacts, AloneKept, RestingRow
  <2> QED
    BY <2>7, <2>8, <2>9 DEF IngestionInv
<1>4. CASE Missing # {}
  <2> DEFINE row == [ingester[i] EXCEPT !.pc = "embed", !.of = rows.of, !.todo = Missing,
                                        !.total = Cardinality(Parts)]
  <2>1. /\ rows.of \subseteq PassMessages /\ Missing \subseteq Parts
        /\ Cardinality(Parts) \in Int
    BY <1>1, BusyFacts, IngestionBounds DEF ChunkRows, Missing
  <2>2. /\ row \in IngesterRow /\ row.pc = "embed" /\ row.pass = ingester[i].pass
        /\ row.of = rows.of /\ row.todo = Missing /\ row.beside = ingester[i].beside
    BY <1>1, <2>1, BusyFacts DEF IngesterRow
  <2>3. ingester' = [ingester EXCEPT ![i] = row] /\ UNCHANGED <<document, jobs>>
    BY <1>4 DEF LoadMissing
  <2> HIDE DEF row
  <2>4. /\ ingester' \in [Ingesters -> IngesterRow]
        /\ \A o \in Ingesters : o # i => ingester'[o] = ingester[o]
        /\ ingester'[i] = row
    BY <1>1, <2>2, <2>3, BusyFacts, WritesIngester
  <2>5. Known' = Known /\ LatestJob' = LatestJob
    BY <2>3 DEF Known, LatestJob
  <2>6. Types'
    BY <1>1, <2>3, <2>4, BusyFacts DEF Types
  <2>7. Shape'
    BY <1>1, <1>4, <2>2, <2>4, <2>5, <2>6, BusyFacts, ShapeKept
  <2>8. undermined \/ Holds(i)'
    BY <1>1, <1>2, <2>2, <2>4 DEF Holds, Missing
  <2>9. Sound'
    BY <1>1, <2>3, <2>4, <2>5, <2>8, BusyFacts, SoundKept
  <2>10. Alone'
    BY <1>1, <2>2, <2>3, <2>4, BusyFacts, AloneKept
  <2> QED
    BY <2>7, <2>9, <2>10 DEF IngestionInv
<1> QED
  BY <1>3, <1>4

LEMMA EmbedKeeps ==
    ASSUME IngestionInv, NEW i \in Ingesters, Embed(i)
    PROVE  IngestionInv'
<1> DEFINE part == CHOOSE c \in ingester[i].todo : TRUE
           rest == ingester[i].todo \ {part}
           row == [ingester[i] EXCEPT !.pc = IF rest = {} THEN "finish" ELSE "embed",
                                      !.todo = rest, !.seen = "embedding", !.held = "embedding"]
<1>1. Busy(i) /\ ingester[i].pc = "embed" /\ rows.of = ingester[i].of
  BY DEF Embed, InStage, Busy
<1>2. ingester[i].todo # {} /\ ingester[i].todo \subseteq Parts
  BY <1>1, BusyFacts DEF IngestionInv, Shape, HaveWork, IngesterRow
<1>3. part \in ingester[i].todo /\ rest \subseteq Parts
  BY <1>2
<1>4. /\ row \in IngesterRow /\ row.pass = ingester[i].pass /\ row.of = ingester[i].of
      /\ row.todo = rest /\ row.pc = (IF rest = {} THEN "finish" ELSE "embed")
      /\ row.beside = ingester[i].beside
  <2>1. "embedding" \in Stages
    BY DEF Stages
  <2> HIDE DEF rest
  <2> QED
    BY <1>1, <1>3, <2>1, BusyFacts DEF IngesterRow
<1>5. /\ ingester' = [ingester EXCEPT ![i] = row]
      /\ rows' = [rows EXCEPT !.embedded = @ \cup {part}]
      /\ passes' = passes /\ submits' = submits /\ undermined' = undermined
      /\ JobBecomes(JobOf(i), "embedding") \/ jobs' = jobs
      /\ DocumentBecomes("embedding") \/ document' = document
  BY DEF Embed, WritesEmbedding
<1> HIDE DEF row, rest, part
<1>6. /\ ingester' \in [Ingesters -> IngesterRow]
      /\ \A o \in Ingesters : o # i => ingester'[o] = ingester[o]
      /\ ingester'[i] = row
  BY <1>1, <1>4, <1>5, BusyFacts, WritesIngester
<1>7. /\ rows' \in ChunkRows /\ rows'.of = rows.of
      /\ rows'.embedded = rows.embedded \cup {part} /\ part \in Parts
  BY <1>1, <1>2, <1>3, <1>5, BusyFacts DEF ChunkRows
<1>8. /\ jobs' \in [JobIds -> JobRow] /\ Known' = Known /\ LatestJob' = LatestJob
      /\ \A k \in JobIds : jobs'[k].checkpoint = jobs[k].checkpoint
  <2>1. CASE JobBecomes(JobOf(i), "embedding")
    BY <2>1, <1>1, BusyFacts, StatusOfJob
  <2>2. CASE jobs' = jobs
    BY <2>2, <1>1, BusyFacts DEF Known, LatestJob
  <2> QED
    BY <1>5, <2>1, <2>2
<1>9. /\ document' \in DocumentRow
      /\ document'.status = "indexed" => document' = document
  <2>1. CASE DocumentBecomes("embedding")
    BY <2>1, <1>1, BusyFacts, StatusOfDocument
  <2>2. CASE document' = document
    BY <2>2, <1>1, BusyFacts
  <2> QED
    BY <1>5, <2>1, <2>2
<1>10. Types'
  BY <1>1, <1>5, <1>6, <1>7, <1>8, <1>9, BusyFacts DEF Types
<1>11. Shape'
  BY <1>1, <1>4, <1>5, <1>6, <1>8, <1>10, BusyFacts, ShapeKept
<1>12. Sound'
  <2> SUFFICES ASSUME ~undermined' PROVE Sound'
    BY DEF Sound
  <2>1. /\ jobs[LatestJob].checkpoint => rows.of # {}
        /\ \A o \in Ingesters : ingester[o].pc \in Behind => Holds(o)
        /\ document.status = "indexed" /\ document.text => FullyEmbedded
    BY <1>5 DEF IngestionInv, Sound
  <2>2. jobs'[LatestJob'].checkpoint => rows'.of # {}
    BY <1>1, <1>7, <1>8, <2>1, BusyFacts
  <2>3. ASSUME NEW o \in Ingesters, o # i, ingester'[o].pc \in Behind PROVE Holds(o)'
    BY <1>6, <1>7, <2>1, <2>3 DEF Holds
  <2>4. Holds(i)'
    <3>1. Holds(i)
      BY <1>1, <2>1 DEF Behind
    <3>2. \A c \in Parts : c \in rest \/ c \in rows'.embedded
      BY <1>1, <1>7, <3>1 DEF Holds, rest
    <3> QED
      BY <1>1, <1>4, <1>6, <1>7, <3>1, <3>2 DEF Holds
  <2>5. document'.status = "indexed" /\ document'.text => FullyEmbedded'
    BY <1>7, <1>9, <2>1 DEF FullyEmbedded
  <2> QED
    BY <2>2, <2>3, <2>4, <2>5 DEF Sound
<1>13. Alone'
  BY <1>1, <1>4, <1>6, <1>9, BusyFacts, AloneKept
<1> QED
  BY <1>11, <1>12, <1>13 DEF IngestionInv

LEMMA FinishKeeps ==
    ASSUME IngestionInv, NEW i \in Ingesters, Finish(i)
    PROVE  IngestionInv'
<1> DEFINE j == JobOf(i)
           resumed == ingester[i].of # ingester[i].pass
           row == [jobs[j] EXCEPT !.status = "indexed", !.checkpoint = @ /\ ~resumed]
<1>1. /\ Busy(i) /\ ingester[i].pc = "finish" /\ Rests(i)
      /\ jobs' = [jobs EXCEPT ![j] = row]
      /\ rows' = rows /\ passes' = passes /\ submits' = submits /\ undermined' = undermined
  BY DEF Finish, InStage, Busy
<1>2. /\ jobs' \in [JobIds -> JobRow] /\ Known' = Known /\ LatestJob' = LatestJob
      /\ \A k \in JobIds : jobs'[k].checkpoint => jobs[k].checkpoint
  <2>1. jobs[j] \in JobRow
    BY <1>1, BusyFacts
  <2>2. row \in JobRow /\ row.status # "none" /\ (row.checkpoint => jobs[j].checkpoint)
    BY <2>1 DEF JobRow, Stages
  <2> HIDE DEF row
  <2> QED
    BY <1>1, <2>2, BusyFacts, WritesJob
<1>3. document' \in DocumentRow
  <2>1. (document.quarantined \/ 2 * Cardinality(rows.embedded) < ingester[i].total) \in BOOLEAN
    OBVIOUS
  <2> QED
    BY <1>1, <2>1, BusyFacts DEF Finish, DocumentRow, Stages
<1>4. /\ ingester' \in [Ingesters -> IngesterRow]
      /\ \A o \in Ingesters : ingester'[o] = IF o = i THEN Resting ELSE ingester[o]
  BY <1>1, BusyFacts, RestsWrites
<1>5. undermined \/ FullyEmbedded
  <2>1. undermined \/ Holds(i)
    BY <1>1 DEF IngestionInv, Sound, Behind
  <2>2. rows.embedded \subseteq Parts
    BY <1>1, BusyFacts DEF ChunkRows
  <2> QED
    BY <1>1, <2>1, <2>2 DEF Holds, FullyEmbedded
<1>6. Types'
  BY <1>1, <1>2, <1>3, <1>4, BusyFacts DEF Types
<1>7. Shape'
  BY <1>1, <1>2, <1>4, <1>6, BusyFacts, ShapeKept, RestingRow
<1>8. Sound'
  BY <1>1, <1>2, <1>4, <1>5, BusyFacts, SoundKept, RestingRow DEF Behind
<1>9. Alone'
  BY <1>1, <1>4, BusyFacts, AloneKept, RestingRow
<1> QED
  BY <1>7, <1>8, <1>9 DEF IngestionInv

LEMMA HandleFailureKeeps ==
    ASSUME IngestionInv, NEW i \in Ingesters, NEW retryable \in BOOLEAN,
           HandleFailure(i, retryable)
    PROVE  IngestionInv'
<1> DEFINE p == PassOf(i)
           next == [p EXCEPT !.tries = @ + 1]
<1>1. Busy(i) /\ PassOf(i) \in ingester[i].pass /\ p \in PassMessages
  BY ThePass DEF HandleFailure, IngestionInv
<1>2. /\ rows' = rows /\ submits' = submits /\ undermined' = undermined
      /\ Rests(i)
      /\ passes' = passes \/ (passes' = passes \cup {next} /\ p.tries < MaxPasses)
  BY DEF HandleFailure
<1>3. PICK s \in {"failed", "dead_lettered"} : JobBecomes(JobOf(i), s) /\ DocumentBecomes(s)
  BY DEF HandleFailure
<1>4. /\ jobs' \in [JobIds -> JobRow] /\ Known' = Known /\ LatestJob' = LatestJob
      /\ \A k \in JobIds : jobs'[k].checkpoint = jobs[k].checkpoint
  BY <1>1, <1>3, BusyFacts, StatusOfJob
<1>5. document' \in DocumentRow /\ document'.status # "indexed"
  BY <1>1, <1>3, BusyFacts, StatusOfDocument
<1>6. /\ ingester' \in [Ingesters -> IngesterRow]
      /\ \A o \in Ingesters : ingester'[o] = IF o = i THEN Resting ELSE ingester[o]
  BY <1>1, <1>2, BusyFacts, RestsWrites
<1>7. passes' \subseteq PassMessages /\ \A q \in passes' : q.job \in Known
  <2>1. p.tries < MaxPasses => next \in PassMessages /\ next.job = p.job
    BY <1>1, IngestionBounds DEF PassMessages
  <2>2. p.job \in Known
    BY <1>1, BusyFacts
  <2> HIDE DEF next, p
  <2> QED
    BY <1>1, <1>2, <2>1, <2>2, BusyFacts DEF Types
<1>8. Types'
  BY <1>1, <1>2, <1>4, <1>5, <1>6, <1>7, BusyFacts DEF Types
<1>9. Shape'
  BY <1>1, <1>4, <1>6, <1>7, <1>8, BusyFacts, ShapeKept, RestingRow
<1>10. Sound'
  BY <1>1, <1>2, <1>4, <1>5, <1>6, BusyFacts, SoundKept, RestingRow DEF Behind
<1>11. Alone'
  BY <1>1, <1>6, BusyFacts, AloneKept, RestingRow
<1> QED
  BY <1>9, <1>10, <1>11 DEF IngestionInv

LEMMA LoseIngesterKeeps ==
    ASSUME IngestionInv, NEW i \in Ingesters, LoseIngester(i)
    PROVE  IngestionInv'
<1>1. /\ Busy(i) /\ Rests(i) /\ document' = document /\ jobs' = jobs /\ rows' = rows
      /\ passes' = passes /\ submits' = submits /\ undermined' = undermined
  BY DEF LoseIngester
<1>2. Known' = Known /\ LatestJob' = LatestJob
  BY <1>1 DEF Known, LatestJob
<1>3. /\ ingester' \in [Ingesters -> IngesterRow]
      /\ \A o \in Ingesters : ingester'[o] = IF o = i THEN Resting ELSE ingester[o]
  BY <1>1, BusyFacts, RestsWrites
<1>4. Types'
  BY <1>1, <1>3, BusyFacts DEF Types
<1>5. Shape'
  BY <1>1, <1>2, <1>3, <1>4, BusyFacts, ShapeKept, RestingRow
<1>6. Sound'
  BY <1>1, <1>2, <1>3, BusyFacts, SoundKept, RestingRow DEF Behind
<1>7. Alone'
  BY <1>1, <1>3, BusyFacts, AloneKept, RestingRow
<1> QED
  BY <1>5, <1>6, <1>7 DEF IngestionInv
-----------------------------------------------------------------------------
\* A request that leaves the workers and the chunks alone.
LEMMA RequestKeeps ==
    ASSUME IngestionInv, ingester' = ingester, rows' = rows, undermined' = undermined,
           Types', Known' = Known, LatestJob' = LatestJob,
           \A p \in passes' : p.job \in Known,
           jobs'[LatestJob].checkpoint => jobs[LatestJob].checkpoint \/ rows.of # {},
           document'.status = "indexed" => document' = document
    PROVE  IngestionInv'
<1>1. HaveJobs' /\ HaveWork'
  BY DEF IngestionInv, Shape, HaveJobs, HaveWork, Busy
<1>2. Sound'
  BY DEF IngestionInv, Sound, Holds, FullyEmbedded
<1>3. Alone'
  BY DEF IngestionInv, Alone, Busy
<1> QED
  BY <1>1, <1>2, <1>3 DEF IngestionInv, Shape

LEMMA EnqueuesWrites ==
    ASSUME Types, NEW j \in JobIds, Enqueues(j)
    PROVE  /\ submits' \in 0..MaxSubmits /\ passes' \subseteq PassMessages
           /\ \A p \in passes' : p \in passes \/ p.job = j
<1>1. submits' \in 0..MaxSubmits
  BY IngestionBounds DEF Enqueues, Types
<1>2. [job |-> j, number |-> submits', tries |-> 0] \in PassMessages
  BY <1>1, IngestionBounds DEF PassMessages
<1> QED
  BY <1>1, <1>2 DEF Enqueues, Types

LEMMA RecoverQueuedKeeps == ASSUME IngestionInv, RecoverQueued PROVE IngestionInv'
<1>1. Types /\ HaveJobs
  BY DEF IngestionInv, Shape
<1>2. /\ Enqueues(LatestJob) /\ document' = document /\ jobs' = jobs /\ rows' = rows
      /\ ingester' = ingester /\ undermined' = undermined
  BY DEF RecoverQueued
<1>3. LatestJob \in Known /\ LatestJob \in JobIds
  BY <1>1, LatestIsKnown
<1>4. /\ submits' \in 0..MaxSubmits /\ passes' \subseteq PassMessages
      /\ \A p \in passes' : p.job \in Known
  BY <1>1, <1>2, <1>3, EnqueuesWrites DEF HaveJobs
<1>5. Types' /\ Known' = Known /\ LatestJob' = LatestJob
  BY <1>1, <1>2, <1>4 DEF Types, Known, LatestJob
<1> QED
  BY <1>2, <1>4, <1>5, RequestKeeps

LEMMA ResumeDocumentKeeps == ASSUME IngestionInv, ResumeDocument PROVE IngestionInv'
<1> DEFINE row == [jobs[LatestJob] EXCEPT !.status = "queued", !.checkpoint = TRUE]
<1>1. Types /\ HaveJobs
  BY DEF IngestionInv, Shape
<1>2. /\ rows.of # {} /\ jobs' = [jobs EXCEPT ![LatestJob] = row] /\ DocumentBecomes("embedding")
      /\ Enqueues(LatestJob) /\ rows' = rows /\ ingester' = ingester /\ undermined' = undermined
  BY DEF ResumeDocument
<1>3. LatestJob \in Known /\ LatestJob \in JobIds
  BY <1>1, LatestIsKnown
<1>4. row \in JobRow /\ row.status # "none"
  BY <1>1, <1>3 DEF Types, JobRow, Stages
<1> HIDE DEF row
<1>5. jobs' \in [JobIds -> JobRow] /\ Known' = Known /\ LatestJob' = LatestJob
  BY <1>1, <1>2, <1>3, <1>4, WritesJob DEF Types
<1>6. document' \in DocumentRow /\ document'.status # "indexed"
  BY <1>1, <1>2, StatusOfDocument DEF Types, Stages, Working
<1>7. /\ submits' \in 0..MaxSubmits /\ passes' \subseteq PassMessages
      /\ \A p \in passes' : p.job \in Known
  BY <1>1, <1>2, <1>3, EnqueuesWrites DEF HaveJobs
<1>8. Types'
  BY <1>1, <1>2, <1>5, <1>6, <1>7 DEF Types
<1> QED
  BY <1>2, <1>5, <1>6, <1>7, <1>8, RequestKeeps

\* Starting over undermines every pass that is under way.
LEMMA ReingestKeeps == ASSUME IngestionInv, Reingest PROVE IngestionInv'
<1>1. Types /\ HaveJobs /\ HaveWork
  BY DEF IngestionInv, Shape
<1>2. PICK n \in JobIds : Known = 1..n
  BY <1>1 DEF HaveJobs
<1>3. LatestJob = n /\ n \in Nat /\ n < MaxJobs /\ n + 1 \in JobIds
  BY <1>2, TheLatest, IngestionBounds DEF Reingest, JobIds
<1> DEFINE new == [status |-> "queued", attempts |-> 0, checkpoint |-> FALSE]
           ended(k) == [jobs[k] EXCEPT !.status = "failed"]
<1>4. /\ jobs' = [k \in JobIds |-> IF k = n + 1 THEN new
                                   ELSE IF jobs[k].status \in {"queued", Working, "embedding"}
                                   THEN ended(k)
                                   ELSE jobs[k]]
      /\ document' = [document EXCEPT !.status = "queued", !.quarantined = FALSE]
      /\ rows' = NoRows /\ ingester' = ingester /\ Enqueues(n + 1)
      /\ undermined' = (\E i \in Ingesters : Busy(i))
  BY <1>3 DEF Reingest
<1>5. new \in JobRow /\ new.status # "none" /\ ~new.checkpoint
  BY DEF JobRow, Stages
<1>6. \A k \in JobIds : jobs[k] \in JobRow /\ ended(k) \in JobRow /\ ended(k).status # "none"
  BY <1>1 DEF Types, JobRow, Stages
<1> HIDE DEF new, ended
<1>7. jobs' \in [JobIds -> JobRow]
  BY <1>4, <1>5, <1>6
<1>8. Known' = 1..(n + 1)
  <2>1. \A k \in JobIds : jobs'[k].status # "none" <=> k = n + 1 \/ jobs[k].status # "none"
    BY <1>4, <1>5, <1>6 DEF Working
  <2>2. \A k \in JobIds : k \in 1..n <=> jobs[k].status # "none"
    BY <1>2 DEF Known
  <2>3. \A k : k \in 1..(n + 1) <=> k \in JobIds /\ (k = n + 1 \/ k \in 1..n)
    BY <1>3, IngestionBounds DEF JobIds
  <2>4. \A k : k \in Known' <=> k \in JobIds /\ jobs'[k].status # "none"
    BY DEF Known
  <2> QED
    BY <2>1, <2>2, <2>3, <2>4
<1>9. LatestJob' = n + 1
  <2>1. LatestJob' = Max(1..(n + 1))
    BY <1>8 DEF LatestJob, Known
  <2>2. n + 1 \in 1..(n + 1) /\ \A m \in 1..(n + 1) : n + 1 >= m
    BY <1>3
  <2>3. \A k \in 1..(n + 1) : (\A m \in 1..(n + 1) : k >= m) => k = n + 1
    BY <1>3
  <2> QED
    BY <2>1, <2>2, <2>3 DEF Max
<1>10. document' \in DocumentRow /\ document'.status = "queued"
  BY <1>1, <1>4 DEF Types, DocumentRow, Stages
<1>11. /\ submits' \in 0..MaxSubmits /\ passes' \subseteq PassMessages
       /\ \A p \in passes' : p \in passes \/ p.job = n + 1
  BY <1>1, <1>3, <1>4, EnqueuesWrites
<1>12. Shape'
  <2>1. Types'
    BY <1>1, <1>4, <1>7, <1>10, <1>11 DEF Types, NoRows, ChunkRows
  <2>2. Known \subseteq Known' /\ n + 1 \in Known'
    BY <1>2, <1>3, <1>8
  <2>3. HaveJobs'
    BY <1>1, <1>3, <1>4, <1>8, <1>11, <2>2 DEF HaveJobs, JobIds
  <2>4. HaveWork'
    BY <1>1, <1>4 DEF HaveWork, Busy
  <2> QED
    BY <2>1, <2>3, <2>4 DEF Shape
<1>13. Sound'
  <2>1. ~jobs'[LatestJob'].checkpoint
    BY <1>3, <1>4, <1>5, <1>9
  <2>2. ~undermined' => \A i \in Ingesters : ingester'[i].pc \notin Behind
    BY <1>4 DEF Busy, Behind
  <2> QED
    BY <1>10, <2>1, <2>2 DEF Sound
<1>14. Alone'
  BY <1>4, <1>10 DEF IngestionInv, Alone, Busy
<1> QED
  BY <1>12, <1>13, <1>14 DEF IngestionInv
-----------------------------------------------------------------------------
LEMMA StutterKeeps == ASSUME IngestionInv, UNCHANGED ingestionVars PROVE IngestionInv'
BY DEF ingestionVars, IngestionInv, Shape, Types, HaveJobs, HaveWork, Busy, Known, LatestJob,
       Sound, Alone, Holds, FullyEmbedded

LEMMA StepKeeps == ASSUME IngestionInv, [IngestionNext]_ingestionVars PROVE IngestionInv'
<1>1. ASSUME NEW i \in Ingesters, Ingest(i) PROVE IngestionInv'
  BY <1>1, StartPassKeeps, DownloadKeeps, ParseKeeps, ReplaceChunksKeeps, SetCheckpointKeeps,
     AnnounceEmbeddingKeeps, LoadMissingKeeps, EmbedKeeps, FinishKeeps DEF Ingest
<1>2. ASSUME NEW i \in Ingesters, LoseIngester(i) PROVE IngestionInv'
  BY <1>2, LoseIngesterKeeps
<1>3. ASSUME NEW i \in Ingesters, NEW retryable \in BOOLEAN, HandleFailure(i, retryable)
      PROVE  IngestionInv'
  BY <1>3, HandleFailureKeeps
<1>4. CASE RecoverQueued \/ ResumeDocument \/ Reingest
  BY <1>4, RecoverQueuedKeeps, ResumeDocumentKeeps, ReingestKeeps
<1>5. CASE UNCHANGED ingestionVars
  BY <1>5, StutterKeeps
<1> QED
  BY <1>1, <1>2, <1>3, <1>4, <1>5 DEF IngestionNext

\* A document with text that is shown as indexed has all its chunks and an embedding of
\* each of them, whichever of process_ingestion_job's stages crashed, failed, were retried
\* or resumed from the checkpoint, unless its chunks are of a pass that ran beside another
\* one, or were deleted under a pass.
THEOREM IndexedComplete == IngestionSpec => []IndexedIsComplete
<1>1. IngestionInit => IngestionInv
  BY InitHolds
<1>2. IngestionInv /\ [IngestionNext]_ingestionVars => IngestionInv'
  BY StepKeeps
<1>3. IngestionInv => IndexedIsComplete
  BY DEF IngestionInv, Sound, IndexedIsComplete
<1> QED
  BY <1>1, <1>2, <1>3, PTL DEF IngestionSpec
-----------------------------------------------------------------------------
(***************************************************************************)
(* Table indexes: as long as no lease lapses one worker builds the index   *)
(* of a file, and a file that is deleted leaves no derivative behind       *)
(* unless somebody still comes to delete it.                               *)
(***************************************************************************)

IndexRow == [status : {"none", "queued", "processing", "ready", "failed"},
             stored : BOOLEAN, stale : BOOLEAN]
PassRow == [pc : {"idle", "load", "store", "publish", "fail", "discard"}, put : BOOLEAN]
RemoverRow == [pc : {"idle", "read", "drop", "object"}, found : BOOLEAN, stored : BOOLEAN]
TroubleRow == [prepares : Nat, lost : Nat, reported : Nat, lapsed : Nat, raised : Nat,
               missed : BOOLEAN]

DatasetTypes == /\ file \in {"live", "quarantined", "deleted"}
                /\ index \in IndexRow
                /\ derivative \in BOOLEAN /\ removal \in BOOLEAN
                /\ preparer \in [pc : {"idle", "submit", "report"}, bound : BOOLEAN]
                /\ indexer \in [Indexers -> PassRow]
                /\ remover \in RemoverRow
                /\ indexFaults \in TroubleRow

AtWork(w) == indexer[w].pc \notin {"idle", "discard"}
Unlapsed == indexFaults.lapsed = 0 /\ indexFaults.reported = 0

\* The row says who works: while a pass is underway its row is "processing" and fresh, or
\* has been deleted with the document, so that no message begins another one.
OneWorks ==
    /\ preparer.pc = "report" => indexFaults.reported > 0
    /\ preparer.bound => file # "deleted"
    /\ remover.pc # "idle" => file = "deleted"
    /\ Unlapsed =>
         /\ \A v, w \in Indexers : AtWork(v) /\ AtWork(w) => v = w
         /\ \A w \in Indexers : AtWork(w) =>
                \/ index.status = "processing" /\ ~index.stale
                \/ index.status = "none" /\ file = "deleted"

\* Whoever is answerable for a derivative that is in storage without a cleanup job: the row
\* of a table that is ready, the pass that has stored it, or the request that deletes it.
Answerable ==
    /\ index.stored => ContextSurvives
    /\ \A w \in Indexers : indexer[w].put => Building(w)
    /\ file = "deleted" /\ remover.pc = "drop" /\ ~remover.found =>
           index.status = "none" \/ ~ContextSurvives
    /\ file = "deleted" /\ remover.pc \in {"idle", "object"} =>
           index.status = "none" \/ ~ContextSurvives
    /\ Unlapsed =>
         /\ index.stored => index.status = "ready"
         /\ indexFaults.lost = 0 /\ ~indexFaults.missed /\ derivative /\ ~removal =>
              \/ index.stored
              \/ \E w \in Indexers : indexer[w].put
              \/ remover.pc = "object"
              \/ remover.pc = "drop" /\ remover.stored

DatasetInv == DatasetTypes /\ OneWorks /\ Answerable

LEMMA DatasetStart == DatasetInit => DatasetInv
<1> SUFFICES ASSUME DatasetInit PROVE DatasetInv
  OBVIOUS
<1>1. DatasetTypes
  BY DEF DatasetInit, DatasetTypes, NoIndex, NoPass, IndexRow, PassRow, RemoverRow, TroubleRow
<1>2. \A w \in Indexers : ~AtWork(w) /\ ~indexer[w].put
  BY DEF DatasetInit, NoPass, AtWork
<1>3. OneWorks /\ Answerable
  BY <1>2 DEF DatasetInit, OneWorks, Answerable, NoIndex
<1> QED
  BY <1>1, <1>3 DEF DatasetInv

LEMMA DatasetStep == ASSUME DatasetInv, [DatasetNext]_datasetVars PROVE DatasetInv'
<1> USE DEF DatasetInv, DatasetTypes, IndexRow, PassRow, RemoverRow, TroubleRow,
           RestUnchanged, AtWork, Unlapsed, Building
<1>1. ASSUME NEW retry \in BOOLEAN, RequestIndex(retry) PROVE DatasetInv'
  <2>1. DatasetTypes'
    <3>1. index' \in IndexRow
      BY <1>1 DEF RequestIndex, IndexBecomes, Counts
    <3>2. preparer' \in [pc : {"idle", "submit", "report"}, bound : BOOLEAN]
      BY <1>1 DEF RequestIndex, IndexBecomes, Counts
    <3>3. indexFaults' \in TroubleRow
      BY <1>1 DEF RequestIndex, IndexBecomes, Counts
    <3> QED
      BY <1>1, <3>1, <3>2, <3>3 DEF RequestIndex, IndexBecomes, Counts
  <2>2. OneWorks'
    BY <1>1 DEF RequestIndex, IndexBecomes, Counts, OneWorks
  <2>3. Answerable'
    BY <1>1 DEF RequestIndex, IndexBecomes, Counts, OneWorks, Answerable
  <2> QED
    BY <2>1, <2>2, <2>3
<1>2. ASSUME SubmitBuild PROVE DatasetInv'
  <2>1. DatasetTypes'
    <3>1. preparer' \in [pc : {"idle", "submit", "report"}, bound : BOOLEAN]
      <4>1. [pc |-> "idle", bound |-> FALSE] \in [pc : {"idle", "submit", "report"}, bound : BOOLEAN]
            /\ [preparer EXCEPT !.pc = "report"] \in [pc : {"idle", "submit", "report"},
                                                      bound : BOOLEAN]
        OBVIOUS
      <4> QED
        BY <1>2, <4>1 DEF SubmitBuild
    <3>2. indexFaults' \in TroubleRow
      BY <1>2 DEF SubmitBuild, Bounded, Counts
    <3> QED
      BY <1>2, <3>1, <3>2 DEF SubmitBuild, Bounded, Counts
  <2>2. OneWorks'
    BY <1>2 DEF SubmitBuild, Bounded, Counts, OneWorks
  <2>3. Answerable'
    BY <1>2 DEF SubmitBuild, Bounded, Counts, OneWorks, Answerable
  <2> QED
    BY <2>1, <2>2, <2>3
<1>3. ASSUME ReportSubmission PROVE DatasetInv'
  <2>1. DatasetTypes'
    <3>1. index' \in IndexRow
      BY <1>3 DEF ReportSubmission, IndexBecomes, SeesIndexLater
    <3>2. preparer' \in [pc : {"idle", "submit", "report"}, bound : BOOLEAN]
      BY <1>3 DEF ReportSubmission, IndexBecomes, SeesIndexLater
    <3> QED
      BY <1>3, <3>1, <3>2 DEF ReportSubmission, IndexBecomes, SeesIndexLater
  <2>2. OneWorks'
    BY <1>3 DEF ReportSubmission, IndexBecomes, SeesIndexLater, OneWorks
  <2>3. Answerable'
    <3>1. ~Unlapsed' /\ index'.stored = index.stored /\ UNCHANGED <<file, remover, indexer>>
      <4>1. ~Unlapsed'
        BY <1>3 DEF ReportSubmission, OneWorks
      <4> QED
        BY <1>3, <4>1 DEF ReportSubmission, IndexBecomes
    <3>2. \/ index'.status = index.status \/ file # "deleted"
          \/ ContextSurvives /\ index.status # "none"
      BY <1>3 DEF ReportSubmission, IndexBecomes, SeesIndexLater, OneWorks
    <3> QED
      BY <3>1, <3>2 DEF Answerable
  <2> QED
    BY <2>1, <2>2, <2>3
<1>4. ASSUME FailStale PROVE DatasetInv'
  <2>1. DatasetTypes'
    <3>1. index' \in IndexRow
      BY <1>4 DEF FailStale, IndexBecomes
    <3> QED
      BY <1>4, <3>1 DEF FailStale, IndexBecomes
  <2>2. OneWorks'
    BY <1>4 DEF FailStale, IndexBecomes, OneWorks
  <2>3. Answerable'
    BY <1>4 DEF FailStale, IndexBecomes, OneWorks, Answerable
  <2> QED
    BY <2>1, <2>2, <2>3
<1>5. ASSUME GrowStale PROVE DatasetInv'
  <2>1. DatasetTypes'
    <3>1. index' \in IndexRow
      BY <1>5 DEF GrowStale, Bounded, Counts
    <3>2. indexFaults' \in TroubleRow
      BY <1>5 DEF GrowStale, Bounded, Counts
    <3> QED
      BY <1>5, <3>1, <3>2 DEF GrowStale, Bounded, Counts
  <2>2. OneWorks'
    BY <1>5 DEF GrowStale, Bounded, Counts, OneWorks
  <2>3. Answerable'
    BY <1>5 DEF GrowStale, Bounded, Counts, OneWorks, Answerable
  <2> QED
    BY <2>1, <2>2, <2>3
<1>6. ASSUME NEW w \in Indexers, BeginBuild(w) PROVE DatasetInv'
  <2>1. DatasetTypes'
    <3>1. index' \in IndexRow
      BY <1>6 DEF BeginBuild, MayBuild, IndexBecomes, Turns
    <3>2. indexer' \in [Indexers -> PassRow]
      BY <1>6 DEF BeginBuild, MayBuild, IndexBecomes, Turns
    <3> QED
      BY <1>6, <3>1, <3>2 DEF BeginBuild, MayBuild, IndexBecomes, Turns
  <2>2. OneWorks'
    <3>1. CASE file = "live" /\ MayBuild /\ IndexBecomes("processing") /\ Turns(w, "load")
      <4>1. index'.status = "processing" /\ ~index'.stale /\ file # "deleted"
        BY <3>1 DEF IndexBecomes
      <4>2. Unlapsed => \A v \in Indexers : ~AtWork(v)
        BY <3>1 DEF OneWorks, MayBuild
      <4>3. \A v \in Indexers : v # w => indexer'[v] = indexer[v]
        BY <3>1 DEF Turns
      <4> QED
        BY <1>6, <4>1, <4>2, <4>3 DEF BeginBuild, OneWorks
    <3>2. CASE MayBuild /\ file = "quarantined" /\ IndexBecomes("failed") /\ UNCHANGED indexer
      <4>1. Unlapsed => \A v \in Indexers : ~AtWork(v)
        BY <3>2 DEF OneWorks, MayBuild
      <4> QED
        BY <1>6, <3>2, <4>1 DEF BeginBuild, OneWorks
    <3>3. CASE UNCHANGED <<index, indexer>>
      BY <1>6, <3>3 DEF BeginBuild, OneWorks
    <3> QED
      BY <1>6, <3>1, <3>2, <3>3 DEF BeginBuild
  <2>3. Answerable'
    <3>1. /\ UNCHANGED <<file, derivative, removal, remover, indexFaults>>
          /\ \/ UNCHANGED <<index, indexer>>
             \/ /\ MayBuild /\ file # "deleted" /\ index'.stored = index.stored
                /\ \A v \in Indexers : indexer'[v].put = indexer[v].put
                /\ \A v \in Indexers : Building(v) => Building(v)'
      <4>1. IndexBecomes("processing") \/ IndexBecomes("failed") => index'.stored = index.stored
        BY DEF IndexBecomes
      <4>2. Turns(w, "load") \/ UNCHANGED indexer
            => \A v \in Indexers : /\ indexer'[v].put = indexer[v].put
                                   /\ Building(v) => Building(v)'
        BY DEF Turns
      <4> QED
        BY <1>6, <4>1, <4>2 DEF BeginBuild
    <3>2. MayBuild => index.status \notin {"none", "ready"}
      BY DEF MayBuild
    <3> HIDE DEF RestUnchanged
    <3> QED
      BY <3>1, <3>2 DEF Answerable
  <2> QED
    BY <2>1, <2>2, <2>3
<1>7. ASSUME NEW w \in Indexers, LoadSource(w) PROVE DatasetInv'
  <2>1. DatasetTypes'
    <3>1. index' \in IndexRow
      BY <1>7 DEF LoadSource, SeesIndexLater, Turns
    <3>2. indexer' \in [Indexers -> PassRow]
      BY <1>7 DEF LoadSource, SeesIndexLater, Turns
    <3> QED
      BY <1>7, <3>1, <3>2 DEF LoadSource, SeesIndexLater, Turns
  <2>2. OneWorks'
    BY <1>7 DEF LoadSource, SeesIndexLater, Turns, OneWorks
  <2>3. Answerable'
    BY <1>7 DEF LoadSource, SeesIndexLater, Turns, OneWorks, Answerable
  <2> QED
    BY <2>1, <2>2, <2>3
<1>8. ASSUME NEW w \in Indexers, StoreDerivative(w) PROVE DatasetInv'
  <2>1. DatasetTypes'
    <3>1. derivative' \in BOOLEAN
      BY <1>8 DEF StoreDerivative
    <3>2. indexer' \in [Indexers -> PassRow]
      BY <1>8 DEF StoreDerivative
    <3> QED
      BY <1>8, <3>1, <3>2 DEF StoreDerivative
  <2>2. OneWorks'
    BY <1>8 DEF StoreDerivative, OneWorks
  <2>3. Answerable'
    BY <1>8 DEF StoreDerivative, OneWorks, Answerable
  <2> QED
    BY <2>1, <2>2, <2>3
<1>9. ASSUME NEW w \in Indexers, PublishIndex(w) PROVE DatasetInv'
  <2>1. DatasetTypes'
    <3>1. index' \in IndexRow
      <4>1. [status |-> "ready", stored |-> TRUE, stale |-> FALSE] \in IndexRow
        OBVIOUS
      <4> QED
        BY <1>9, <4>1 DEF PublishIndex
    <3>2. indexer' \in [Indexers -> PassRow]
      <4>1. NoPass \in PassRow
        BY DEF NoPass
      <4>2. Turns(w, "fail") => indexer' \in [Indexers -> PassRow]
        BY DEF Turns
      <4> QED
        BY <1>9, <4>1, <4>2 DEF PublishIndex
    <3> QED
      BY <1>9, <3>1, <3>2 DEF PublishIndex, SeesIndexLater, Turns, NoPass
  <2>2. OneWorks'
    BY <1>9 DEF PublishIndex, SeesIndexLater, Turns, NoPass, OneWorks
  <2>3. Answerable'
    BY <1>9 DEF PublishIndex, SeesIndexLater, Turns, NoPass, OneWorks, Answerable
  <2> QED
    BY <2>1, <2>2, <2>3
<1>10. ASSUME NEW w \in Indexers, RaiseInBuild(w) PROVE DatasetInv'
  <2>1. DatasetTypes'
    <3>1. indexer' \in [Indexers -> PassRow]
      BY <1>10 DEF RaiseInBuild, Bounded, Counts, Turns
    <3>2. indexFaults' \in TroubleRow
      BY <1>10 DEF RaiseInBuild, Bounded, Counts, Turns
    <3> QED
      BY <1>10, <3>1, <3>2 DEF RaiseInBuild, Bounded, Counts, Turns
  <2>2. OneWorks'
    BY <1>10 DEF RaiseInBuild, Bounded, Counts, Turns, OneWorks
  <2>3. Answerable'
    BY <1>10 DEF RaiseInBuild, Bounded, Counts, Turns, OneWorks, Answerable
  <2> QED
    BY <2>1, <2>2, <2>3
<1>11. ASSUME NEW w \in Indexers, FailBuild(w) PROVE DatasetInv'
  <2>1. DatasetTypes'
    <3>1. index' \in IndexRow
      BY <1>11 DEF FailBuild, SeesIndexLater, ToDiscard, NoPass
    <3>2. indexer' \in [Indexers -> PassRow]
      BY <1>11 DEF FailBuild, SeesIndexLater, ToDiscard, NoPass
    <3> QED
      BY <1>11, <3>1, <3>2 DEF FailBuild, SeesIndexLater, ToDiscard, NoPass
  <2>2. OneWorks'
    BY <1>11 DEF FailBuild, SeesIndexLater, ToDiscard, NoPass, OneWorks
  <2>3. Answerable'
    BY <1>11 DEF FailBuild, SeesIndexLater, ToDiscard, NoPass, OneWorks, Answerable
  <2> QED
    BY <2>1, <2>2, <2>3
<1>12. ASSUME NEW w \in Indexers, DiscardDerivative(w) PROVE DatasetInv'
  <2>1. DatasetTypes'
    <3>1. indexer' \in [Indexers -> PassRow]
      BY <1>12 DEF DiscardDerivative, NoPass
    <3>2. derivative' \in BOOLEAN
      BY <1>12 DEF DiscardDerivative, NoPass
    <3>3. removal' \in BOOLEAN
      BY <1>12 DEF DiscardDerivative, NoPass
    <3> QED
      BY <1>12, <3>1, <3>2, <3>3 DEF DiscardDerivative, NoPass
  <2>2. OneWorks'
    BY <1>12 DEF DiscardDerivative, NoPass, OneWorks
  <2>3. Answerable'
    BY <1>12 DEF DiscardDerivative, NoPass, OneWorks, Answerable
  <2> QED
    BY <2>1, <2>2, <2>3
<1>13. ASSUME NEW w \in Indexers, LoseIndexer(w) PROVE DatasetInv'
  <2>1. DatasetTypes'
    <3>1. indexer' \in [Indexers -> PassRow]
      BY <1>13 DEF LoseIndexer, Bounded, Counts, NoPass
    <3>2. indexFaults' \in TroubleRow
      BY <1>13 DEF LoseIndexer, Bounded, Counts, NoPass
    <3> QED
      BY <1>13, <3>1, <3>2 DEF LoseIndexer, Bounded, Counts, NoPass
  <2>2. OneWorks'
    BY <1>13 DEF LoseIndexer, Bounded, Counts, NoPass, OneWorks
  <2>3. Answerable'
    BY <1>13 DEF LoseIndexer, Bounded, Counts, NoPass, OneWorks, Answerable
  <2> QED
    BY <2>1, <2>2, <2>3
<1>14. ASSUME SoftDelete PROVE DatasetInv'
  <2>1. DatasetTypes'
    <3>1. file' \in {"live", "quarantined", "deleted"}
      BY <1>14 DEF SoftDelete
    <3>2. remover' \in RemoverRow
      BY <1>14 DEF SoftDelete
    <3> QED
      BY <1>14, <3>1, <3>2 DEF SoftDelete
  <2>2. OneWorks'
    BY <1>14 DEF SoftDelete, OneWorks
  <2>3. Answerable'
    BY <1>14 DEF SoftDelete, OneWorks, Answerable
  <2> QED
    BY <2>1, <2>2, <2>3
<1>15. ASSUME ReadIndex PROVE DatasetInv'
  <2>1. DatasetTypes'
    <3>1. remover' \in RemoverRow
      BY <1>15 DEF ReadIndex, SeesIndexLater
    <3> QED
      BY <1>15, <3>1 DEF ReadIndex, SeesIndexLater
  <2>2. OneWorks'
    BY <1>15 DEF ReadIndex, SeesIndexLater, OneWorks
  <2>3. Answerable'
    BY <1>15 DEF ReadIndex, SeesIndexLater, OneWorks, Answerable
  <2> QED
    BY <2>1, <2>2, <2>3
<1>16. ASSUME DropIndex PROVE DatasetInv'
  <2>1. DatasetTypes'
    <3>1. index' \in IndexRow
      BY <1>16 DEF DropIndex, NoIndex
    <3>2. remover' \in RemoverRow
      BY <1>16 DEF DropIndex, NoIndex
    <3>3. indexFaults' \in TroubleRow
      BY <1>16 DEF DropIndex, NoIndex
    <3> QED
      BY <1>16, <3>1, <3>2, <3>3 DEF DropIndex, NoIndex
  <2>2. OneWorks'
    BY <1>16 DEF DropIndex, NoIndex, OneWorks
  <2>3. Answerable'
    BY <1>16 DEF DropIndex, NoIndex, OneWorks, Answerable
  <2> QED
    BY <2>1, <2>2, <2>3
<1>17. ASSUME RemoveDerivative PROVE DatasetInv'
  <2>1. DatasetTypes'
    <3>1. remover' \in RemoverRow
      BY <1>17 DEF RemoveDerivative
    <3>2. derivative' \in BOOLEAN
      BY <1>17 DEF RemoveDerivative
    <3>3. removal' \in BOOLEAN
      BY <1>17 DEF RemoveDerivative
    <3> QED
      BY <1>17, <3>1, <3>2, <3>3 DEF RemoveDerivative
  <2>2. OneWorks'
    BY <1>17 DEF RemoveDerivative, OneWorks
  <2>3. Answerable'
    BY <1>17 DEF RemoveDerivative, OneWorks, Answerable
  <2> QED
    BY <2>1, <2>2, <2>3
<1>18. ASSUME CleanUp PROVE DatasetInv'
  <2>1. DatasetTypes'
    <3>1. removal' \in BOOLEAN
      BY <1>18 DEF CleanUp
    <3>2. derivative' \in BOOLEAN
      BY <1>18 DEF CleanUp
    <3> QED
      BY <1>18, <3>1, <3>2 DEF CleanUp
  <2>2. OneWorks'
    BY <1>18 DEF CleanUp, OneWorks
  <2>3. Answerable'
    BY <1>18 DEF CleanUp, OneWorks, Answerable
  <2> QED
    BY <2>1, <2>2, <2>3
<1>19. ASSUME UNCHANGED datasetVars PROVE DatasetInv'
  <2>1. DatasetTypes'
    BY <1>19 DEF datasetVars
  <2>2. OneWorks'
    BY <1>19 DEF datasetVars, OneWorks
  <2>3. Answerable'
    BY <1>19 DEF datasetVars, OneWorks, Answerable
  <2> QED
    BY <2>1, <2>2, <2>3
<1> QED
  BY <1>1, <1>2, <1>3, <1>4, <1>5, <1>6, <1>7, <1>8, <1>9, <1>10, <1>11, <1>12, <1>13, <1>14, <1>15, <1>16, <1>17, <1>18, <1>19
     DEF DatasetNext, Index

\* No two workers build the table of one document at a time, unless a pass that goes on
\* was taken for abandoned or a submission reported as failed: for any number of workers,
\* requests, lost workers and errors.
THEOREM OnePassAtATime == DatasetSpec => []OnePass
<1>1. DatasetInit => DatasetInv
  BY DatasetStart
<1>2. DatasetInv /\ [DatasetNext]_datasetVars => DatasetInv'
  BY DatasetStep
<1>3. DatasetInv => OnePass
  <2> SUFFICES ASSUME DatasetInv, Unlapsed
               PROVE  Cardinality({w \in Indexers : AtWork(w)}) <= 1
    BY DEF OnePass, Unlapsed, AtWork
  <2>1. \A v, w \in Indexers : AtWork(v) /\ AtWork(w) => v = w
    BY DEF DatasetInv, OneWorks
  <2>2. CASE {w \in Indexers : AtWork(w)} = {}
    BY <2>2, FS_EmptySet
  <2>3. CASE {w \in Indexers : AtWork(w)} # {}
    <3>1. PICK w \in Indexers : AtWork(w)
      BY <2>3
    <3>2. {v \in Indexers : AtWork(v)} = {w}
      BY <2>1, <3>1
    <3>3. Cardinality({w}) = 1
      BY FS_Singleton
    <3> QED
      BY <3>2, <3>3
  <2> QED
    BY <2>2, <2>3
<1> QED
  BY <1>1, <1>2, <1>3, PTL DEF DatasetSpec

\* When a document has been deleted and nobody works on its table, its derivative is gone
\* or has a cleanup job, however the pass and the deletion overlapped - outside of the
\* faults that NoDerivativeIsLeft names.
THEOREM NoDerivativeLeft == DatasetSpec => []NoDerivativeIsLeft
<1>1. DatasetInit => DatasetInv
  BY DatasetStart
<1>2. DatasetInv /\ [DatasetNext]_datasetVars => DatasetInv'
  BY DatasetStep
<1>3. DatasetInv => NoDerivativeIsLeft
  BY DEF DatasetInv, DatasetTypes, IndexRow, TroubleRow, Answerable, NoDerivativeIsLeft, Unlapsed
<1> QED
  BY <1>1, <1>2, <1>3, PTL DEF DatasetSpec
-----------------------------------------------------------------------------
(***************************************************************************)
(* Schedules: a slot is not run twice as long as no tick loads several     *)
(* schedules, and a run misses a document only when another one is deleted *)
(* while it reads.                                                         *)
(***************************************************************************)

ScheduleRow == [there : BOOLEAN, enabled : BOOLEAN, next : Slots]

\* A tick has the fields of Unoccupied.
TickFields == {"pc", "now", "todo", "slots", "offset", "seen", "since", "hidden"}
IsTick(t) == DOMAIN t = TickFields /\ t.now \in 0..time

Calendar == /\ time \in 0..MaxTime
            /\ schedules \in [Schedules -> ScheduleRow]
            /\ holder \in [Schedules -> Dispatchers \cup {"nobody"}]
            /\ DOMAIN dispatcher = Dispatchers
            /\ \A d \in Dispatchers : IsTick(dispatcher[d])
            /\ slotRuns \in [Schedules -> [Slots -> Int]]
            /\ scheduleFaults \in [troubles : Int, together : BOOLEAN]

LEMMA UnoccupiedTick ==
    /\ DOMAIN Unoccupied = TickFields
    /\ Unoccupied.pc = "idle" /\ Unoccupied.now = 0 /\ Unoccupied.seen = {}
    /\ Unoccupied.since = {} /\ Unoccupied.offset = 0 /\ Unoccupied.hidden = 0
BY DEF Unoccupied, TickFields

\* A tick that has loaded one schedule has its row until it has reserved the next slot,
\* so that the slot it has read is still the next one; then nothing is left to do.
Reserves(d) ==
    LET t == dispatcher[d]
        s == Head(t.todo)
    IN  /\ t.pc # "idle" => Tail(t.todo) = <<>>
        /\ t.pc = "begin" => /\ s \in Schedules /\ holder[s] = d
                             /\ t.slots[s] = schedules[s].next /\ schedules[s].next <= t.now

\* A slot that has been run is past, and before the next one.
Past(s) == \A k \in Slots : slotRuns[s][k] <= 1
                            /\ (slotRuns[s][k] # 0 => k < schedules[s].next /\ k <= time)

SlotInv == Calendar /\ (~scheduleFaults.together =>
                            /\ \A d \in Dispatchers : Reserves(d)
                            /\ \A s \in Schedules : Past(s))

\* A set of more than one element has more than one.
LEMMA OneDue ==
    ASSUME NEW S, IsFiniteSet(S), S # {}, ~(Cardinality(S) > 1)
    PROVE  \E s : S = {s}
<1>1. PICK s : s \in S
  OBVIOUS
<1>2. SUFFICES ASSUME NEW t \in S, t # s PROVE FALSE
  BY <1>1
<1>3. IsFiniteSet({s}) /\ Cardinality({s}) = 1
  BY FS_Singleton
<1>4. IsFiniteSet({s} \cup {t}) /\ Cardinality({s} \cup {t}) = 2
  BY <1>2, <1>3, FS_AddElement
<1>5. Cardinality({s} \cup {t}) <= Cardinality(S) /\ Cardinality(S) \in Nat
  BY <1>1, <1>2, FS_Subset, FS_CardinalityType
<1> QED
  BY <1>4, <1>5

\* The only order of one schedule.
LEMMA OneToDo ==
    ASSUME NEW s, NEW order \in SetToSeqs({s})
    PROVE  Head(order) = s /\ Tail(order) = <<>>
<1>1. Cardinality({s}) = 1
  BY FS_Singleton
<1>2. order \in [1..1 -> {s}]
  BY <1>1 DEF SetToSeqs
<1>3. order \in Seq({s}) /\ Len(order) = 1
  <2>1. order \in Seq({s})
    BY <1>2, SeqDef
  <2> QED
    BY <1>2, <2>1, LenProperties
<1>4. order # <<>>
  <2>1. Len(<<>>) = 0
    OBVIOUS
  <2> QED
    BY <1>3, <2>1
<1>5. Head(order) \in {s} /\ Tail(order) \in Seq({s}) /\ Len(Tail(order)) = 0
  BY <1>3, <1>4, HeadTailProperties
<1> QED
  BY <1>5, EmptySeq

LEMMA SlotStart == SchedulesInit => SlotInv
<1> SUFFICES ASSUME SchedulesInit PROVE SlotInv
  OBVIOUS
<1>1. time \in 0..MaxTime /\ 0 \in Slots
  BY ScheduleBounds DEF SchedulesInit, Slots
<1>2. schedules \in [Schedules -> ScheduleRow]
  <2>1. PICK on \in SUBSET Schedules :
            schedules = [s \in Schedules |-> [there |-> TRUE, enabled |-> s \in on, next |-> 0]]
    BY DEF SchedulesInit
  <2>2. \A s \in Schedules : [there |-> TRUE, enabled |-> s \in on, next |-> 0] \in ScheduleRow
    BY <1>1 DEF ScheduleRow
  <2> QED
    BY <2>1, <2>2
<1>3. \A d \in Dispatchers : dispatcher[d] = Unoccupied
  BY DEF SchedulesInit
<1>4. IsTick(Unoccupied) /\ Unoccupied.pc = "idle"
  <2>1. 0 \in 0..time
    BY DEF SchedulesInit
  <2> QED
    BY <2>1, UnoccupiedTick DEF IsTick
<1>5. slotRuns \in [Schedules -> [Slots -> Int]]
      /\ \A s \in Schedules, k \in Slots : slotRuns[s][k] = 0
  BY DEF SchedulesInit
<1>6. Calendar
  BY <1>1, <1>2, <1>3, <1>4, <1>5 DEF SchedulesInit, Calendar
<1>7. (\A d \in Dispatchers : Reserves(d)) /\ \A s \in Schedules : Past(s)
  BY <1>3, <1>4, <1>5 DEF Reserves, Past
<1> QED
  BY <1>6, <1>7 DEF SlotInv

LEMMA LoadSlots ==
    ASSUME SlotInv, NEW d \in Dispatchers, LoadDue(d)
    PROVE  SlotInv'
<1> DEFINE due == {s \in Schedules : DueNow(s) /\ Unheld(s)}
           slots == [s \in due |-> schedules[s].next]
<1>1. /\ due # {} /\ due \subseteq Schedules
      /\ \A s \in due : schedules[s].next <= time /\ holder[s] = "nobody"
  BY DEF LoadDue, DueNow, Unheld
<1>2. PICK order \in SetToSeqs(due) :
          dispatcher' = [dispatcher EXCEPT ![d] =
              [Unoccupied EXCEPT !.pc = "begin", !.now = time, !.todo = order, !.slots = slots]]
  BY DEF LoadDue
<1>3. /\ holder' = [s \in Schedules |-> IF s \in due THEN d ELSE holder[s]]
      /\ scheduleFaults' = [scheduleFaults EXCEPT !.together = @ \/ Cardinality(due) > 1]
      /\ UNCHANGED <<time, schedules, slotRuns>>
  BY DEF LoadDue
<1>4. IsFiniteSet(due)
  BY <1>1, ScheduleBounds, FS_Subset
<1>5. Cardinality(due) \in Nat
  BY <1>4, FS_CardinalityType
<1> HIDE DEF due
<1> HIDE DEF slots
<1>5a. PICK new : new = [Unoccupied EXCEPT !.pc = "begin", !.now = time, !.todo = order,
                                          !.slots = slots]
  OBVIOUS
<1>6. dispatcher' = [dispatcher EXCEPT ![d] = new]
  BY <1>2, <1>5a
<1>7. /\ DOMAIN new = TickFields
      /\ new.pc = "begin" /\ new.now = time /\ new.todo = order /\ new.slots = slots
  BY <1>5a, UnoccupiedTick DEF TickFields
<1>8. time \in 0..time
  BY DEF SlotInv, Calendar
<1>9. IsTick(new)
  BY <1>7, <1>8 DEF IsTick
<1>10. \A s \in due : slots[s] = schedules[s].next
  BY DEF slots
<1>11. /\ dispatcher'[d] = new /\ DOMAIN dispatcher' = Dispatchers
       /\ \A o \in Dispatchers : o # d => dispatcher'[o] = dispatcher[o]
  BY <1>6 DEF SlotInv, Calendar
<1>12. Calendar'
  <2>1. holder' \in [Schedules -> Dispatchers \cup {"nobody"}]
    BY <1>3 DEF SlotInv, Calendar
  <2>2. scheduleFaults' \in [troubles : Int, together : BOOLEAN]
    BY <1>3, <1>5 DEF SlotInv, Calendar
  <2>3. \A o \in Dispatchers : IsTick(dispatcher[o])' <=> IsTick(dispatcher'[o])
    BY <1>3 DEF IsTick
  <2> QED
    BY <1>3, <1>9, <1>11, <2>1, <2>2, <2>3 DEF SlotInv, Calendar
<1>13. ASSUME ~scheduleFaults'.together
       PROVE  (\A o \in Dispatchers : Reserves(o)') /\ \A s \in Schedules : Past(s)'
  <2>1. ~scheduleFaults.together /\ ~(Cardinality(due) > 1)
    BY <1>3, <1>13 DEF SlotInv, Calendar
  <2>2. PICK s : due = {s}
    BY <1>1, <1>4, <2>1, OneDue
  <2>3. Head(order) = s /\ Tail(order) = <<>>
    BY <1>2, <2>2, OneToDo
  <2>4. s \in Schedules /\ holder'[s] = d /\ slots[s] = schedules'[s].next
        /\ schedules'[s].next <= time
    BY <1>1, <1>3, <1>10, <2>2
  <2>5. Reserves(d)'
    BY <1>7, <1>11, <2>3, <2>4 DEF Reserves
  <2>6. \A o \in Dispatchers : o # d => Reserves(o)'
    <3>1. \A o \in Dispatchers, x \in Schedules : holder[x] = o => holder'[x] = o
      BY <1>1, <1>3, ScheduleBounds
    <3> QED
      BY <1>3, <1>11, <2>1, <3>1 DEF SlotInv, Reserves
  <2>7. \A x \in Schedules : Past(x)'
    BY <1>3, <2>1 DEF SlotInv, Past
  <2> QED
    BY <2>5, <2>6, <2>7
<1> QED
  BY <1>12, <1>13 DEF SlotInv

LEMMA BeginSlots ==
    ASSUME SlotInv, NEW d \in Dispatchers, BeginRun(d)
    PROVE  SlotInv'
<1> DEFINE t == dispatcher[d]
           s == Head(t.todo)
<1>0. UNCHANGED <<time, scheduleFaults>> /\ Releases(d) /\ t.pc = "begin" /\ IsTick(t)
      /\ (Unheld(s) \/ holder[s] = d)
  BY DEF BeginRun, SlotInv, Calendar
<1>1. /\ holder' \in [Schedules -> Dispatchers \cup {"nobody"}]
      /\ \A o \in Dispatchers, x \in Schedules : o # d /\ holder[x] = o => holder'[x] = o
  BY <1>0, ScheduleBounds DEF Releases, SlotInv, Calendar
<1>2. CASE ~schedules[s].there
  <2>1. dispatcher' = [dispatcher EXCEPT ![d] = Unoccupied] /\ UNCHANGED <<schedules, slotRuns>>
    BY <1>2 DEF BeginRun
  <2>2. IsTick(Unoccupied) /\ Unoccupied.pc = "idle"
    <3>1. 0 \in 0..time
      BY DEF SlotInv, Calendar
    <3> QED
      BY <3>1, UnoccupiedTick DEF IsTick
  <2>3. /\ dispatcher'[d] = Unoccupied /\ DOMAIN dispatcher' = Dispatchers
        /\ \A o \in Dispatchers : o # d => dispatcher'[o] = dispatcher[o]
    BY <2>1 DEF SlotInv, Calendar
  <2>4. Calendar'
    <3>1. \A o \in Dispatchers : IsTick(dispatcher[o])' <=> IsTick(dispatcher'[o])
      BY <1>0 DEF IsTick
    <3> QED
      BY <1>0, <1>1, <2>1, <2>2, <2>3, <3>1 DEF SlotInv, Calendar
  <2>5. ASSUME ~scheduleFaults'.together
        PROVE  (\A o \in Dispatchers : Reserves(o)') /\ \A x \in Schedules : Past(x)'
    <3>1. Reserves(d)'
      BY <2>2, <2>3 DEF Reserves
    <3>2. \A o \in Dispatchers : o # d => Reserves(o)'
      BY <1>0, <1>1, <2>1, <2>3, <2>5 DEF SlotInv, Reserves
    <3>3. \A x \in Schedules : Past(x)'
      BY <1>0, <2>1, <2>5 DEF SlotInv, Past
    <3> QED
      BY <3>1, <3>2, <3>3
  <2> QED
    BY <2>4, <2>5 DEF SlotInv
<1>3. CASE schedules[s].there
  <2> DEFINE next == SlotAfter(t.now)
             k == t.slots[s]
  <2>0. PICK new : new = [t EXCEPT !.pc = "scan", !.offset = 0, !.seen = {}, !.since = present,
                                   !.hidden = 0]
    OBVIOUS
  <2>1. /\ schedules' = [schedules EXCEPT ![s].next = next]
        /\ slotRuns' = [slotRuns EXCEPT ![s][k] = @ + 1]
        /\ dispatcher' = [dispatcher EXCEPT ![d] = new]
    BY <1>3, <2>0 DEF BeginRun
  <2>2. t.now \in 0..time /\ time \in 0..MaxTime
    BY <1>0 DEF IsTick, SlotInv, Calendar
  <2>3. next \in Slots /\ next = t.now + 1
    BY <2>2, ScheduleBounds DEF SlotAfter, Slots
  <2>4. IsTick(new) /\ new.pc = "scan" /\ new.todo = t.todo
    <3>1. /\ DOMAIN new = TickFields
          /\ new.pc = "scan" /\ new.now = t.now /\ new.todo = t.todo
      BY <1>0, <2>0 DEF IsTick, TickFields
    <3> QED
      BY <2>2, <3>1 DEF IsTick
  <2> HIDE DEF next
  <2>5. /\ dispatcher'[d] = new /\ DOMAIN dispatcher' = Dispatchers
        /\ \A o \in Dispatchers : o # d => dispatcher'[o] = dispatcher[o]
    BY <2>1 DEF SlotInv, Calendar
  <2>6. /\ schedules' \in [Schedules -> ScheduleRow]
        /\ \A x \in Schedules : x # s => schedules'[x] = schedules[x]
        /\ s \in Schedules => schedules'[s].next = next
    BY <2>1, <2>3 DEF SlotInv, Calendar, ScheduleRow
  <2>7. /\ slotRuns' \in [Schedules -> [Slots -> Int]]
        /\ \A x \in Schedules, j \in Slots :
               slotRuns'[x][j] = IF x = s /\ j = k THEN slotRuns[x][j] + 1 ELSE slotRuns[x][j]
    <3>1. \A x \in Schedules : slotRuns[x] \in [Slots -> Int]
      BY DEF SlotInv, Calendar
    <3>2. PICK g : g = [slotRuns[s] EXCEPT ![k] = slotRuns[s][k] + 1]
      OBVIOUS
    <3>3. slotRuns' = [slotRuns EXCEPT ![s] = g]
      BY <2>1, <3>2
    <3>4. s \in Schedules =>
              /\ g \in [Slots -> Int]
              /\ \A j \in Slots : g[j] = IF j = k THEN slotRuns[s][j] + 1 ELSE slotRuns[s][j]
      <4>1. s \in Schedules /\ k \in Slots => slotRuns[s][k] + 1 \in Int
        BY <3>1
      <4> QED
        BY <3>1, <3>2, <4>1
    <3> QED
      BY <3>3, <3>4 DEF SlotInv, Calendar
  <2>8. Calendar'
    <3>1. \A o \in Dispatchers : IsTick(dispatcher[o])' <=> IsTick(dispatcher'[o])
      BY <1>0 DEF IsTick
    <3> QED
      BY <1>0, <1>1, <2>4, <2>5, <2>6, <2>7, <3>1 DEF SlotInv, Calendar
  <2>9. ASSUME ~scheduleFaults'.together
        PROVE  (\A o \in Dispatchers : Reserves(o)') /\ \A x \in Schedules : Past(x)'
    <3>1. /\ s \in Schedules /\ holder[s] = d /\ k = schedules[s].next /\ k <= t.now
          /\ Tail(t.todo) = <<>>
      BY <1>0, <2>9 DEF SlotInv, Reserves
    <3>2. Reserves(d)'
      BY <2>4, <2>5, <3>1 DEF Reserves
    <3>3. ASSUME NEW o \in Dispatchers, o # d PROVE Reserves(o)'
      <4>1. Reserves(o)
        BY <1>0, <2>9 DEF SlotInv
      <4>2. dispatcher'[o] = dispatcher[o]
        BY <2>5, <3>3
      <4>3. dispatcher[o].pc = "begin" => Head(dispatcher[o].todo) # s
        BY <3>1, <3>3, <4>1 DEF Reserves
      <4> QED
        BY <1>1, <2>6, <3>3, <4>1, <4>2, <4>3 DEF Reserves
    <3>4. ASSUME NEW x \in Schedules PROVE Past(x)'
      <4>1. Past(x)
        BY <1>0, <2>9 DEF SlotInv
      <4>2. CASE x # s
        BY <1>0, <2>6, <2>7, <4>1, <4>2 DEF Past
      <4>3. CASE x = s
        <5>1. k \in Slots /\ schedules[s].next \in Int
          BY <3>1 DEF SlotInv, Calendar, ScheduleRow, Slots
        <5>2. slotRuns[s] \in [Slots -> Int]
          BY <3>1 DEF SlotInv, Calendar
        <5>3. ASSUME NEW j \in Slots
              PROVE  /\ slotRuns'[s][j] <= 1
                     /\ slotRuns'[s][j] # 0 => j < next /\ j <= time
          <6>1. j \in Int
            BY DEF Slots
          <6>2. slotRuns[s][j] \in Int /\ slotRuns[s][j] <= 1
                /\ (slotRuns[s][j] # 0 => j < schedules[s].next /\ j <= time)
            BY <4>1, <4>3, <5>2 DEF Past
          <6>3. schedules[s].next < next /\ k < next /\ k <= time
            BY <2>2, <2>3, <3>1, <5>1
          <6>4. CASE j = k
            <7>1. slotRuns[s][k] = 0
              BY <3>1, <5>1, <6>2, <6>4
            <7>2. slotRuns'[s][j] = 1
              BY <2>7, <3>1, <6>4, <7>1
            <7> QED
              BY <6>3, <6>4, <7>2
          <6>5. CASE j # k
            <7>1. slotRuns'[s][j] = slotRuns[s][j]
              BY <2>7, <3>1, <6>5
            <7> QED
              BY <2>3, <2>2, <5>1, <6>1, <6>2, <6>3, <7>1
          <6> QED
            BY <6>4, <6>5
        <5> QED
          BY <1>0, <2>6, <3>1, <4>3, <5>3 DEF Past
      <4> QED
        BY <4>2, <4>3
    <3> QED
      BY <3>2, <3>3, <3>4
  <2> QED
    BY <2>8, <2>9 DEF SlotInv
<1> QED
  BY <1>2, <1>3

\* A tick that goes on, or ends, without the calendar.
LEMMA TickSlots ==
    ASSUME SlotInv, NEW d \in Dispatchers, NEW new, IsTick(new),
           dispatcher' = [dispatcher EXCEPT ![d] = new],
           UNCHANGED <<time, schedules, slotRuns>>,
           scheduleFaults' \in [troubles : Int, together : BOOLEAN],
           scheduleFaults'.together = scheduleFaults.together,
           holder' = holder \/ Releases(d),
           \/ new.pc = "idle"
           \/ new.pc # "begin" /\ dispatcher[d].pc # "idle" /\ new.todo = dispatcher[d].todo
           \/ dispatcher[d].pc # "idle" /\ Tail(dispatcher[d].todo) # <<>>
    PROVE  SlotInv'
<1>1. /\ holder' \in [Schedules -> Dispatchers \cup {"nobody"}]
      /\ \A o \in Dispatchers, x \in Schedules : o # d /\ holder[x] = o => holder'[x] = o
  BY ScheduleBounds DEF Releases, SlotInv, Calendar
<1>2. /\ dispatcher'[d] = new /\ DOMAIN dispatcher' = Dispatchers
      /\ \A o \in Dispatchers : o # d => dispatcher'[o] = dispatcher[o]
  BY DEF SlotInv, Calendar
<1>3. Calendar'
  <2>1. \A o \in Dispatchers : IsTick(dispatcher[o])' <=> IsTick(dispatcher'[o])
    BY DEF IsTick
  <2> QED
    BY <1>1, <1>2, <2>1 DEF SlotInv, Calendar
<1>4. ASSUME ~scheduleFaults'.together
      PROVE  (\A o \in Dispatchers : Reserves(o)') /\ \A x \in Schedules : Past(x)'
  <2>1. /\ \A o \in Dispatchers : Reserves(o)
        /\ \A x \in Schedules : Past(x)
    BY <1>4 DEF SlotInv
  <2>2. dispatcher[d].pc # "idle" => Tail(dispatcher[d].todo) = <<>>
    BY <2>1 DEF Reserves
  <2>3. new.pc = "idle" \/ (new.pc # "begin" /\ Tail(new.todo) = <<>>)
    BY <2>2
  <2>4. Reserves(d)'
    BY <1>2, <2>3 DEF Reserves
  <2>5. \A o \in Dispatchers : o # d => Reserves(o)'
    BY <1>1, <1>2, <2>1 DEF Reserves
  <2>6. \A x \in Schedules : Past(x)'
    BY <2>1 DEF Past
  <2> QED
    BY <2>4, <2>5, <2>6
<1> QED
  BY <1>3, <1>4 DEF SlotInv

LEMMA UnoccupiedIsTick == ASSUME SlotInv PROVE IsTick(Unoccupied) /\ Unoccupied.pc = "idle"
<1>1. 0 \in 0..time
  BY DEF SlotInv, Calendar
<1> QED
  BY <1>1, UnoccupiedTick DEF IsTick

LEMMA GoOnSlots ==
    ASSUME SlotInv, NEW d \in Dispatchers, ScanBatch(d) \/ FinishRun(d) \/ LoseDispatcher(d)
    PROVE  SlotInv'
<1> DEFINE t == dispatcher[d]
<1>1. IsTick(t) /\ scheduleFaults \in [troubles : Int, together : BOOLEAN]
  BY DEF SlotInv, Calendar
<1>2. CASE ScanBatch(d)
  <2> DEFINE batch == {n \in present :
                         Cardinality({m \in present : m > n}) \in t.offset..t.offset + RuleBatch - 1}
             pc == IF IsLast(batch) THEN "finish" ELSE "scan"
  <2>1. PICK new : /\ new = [t EXCEPT !.seen = t.seen \cup batch,
                                      !.offset = t.offset + Cardinality(batch), !.pc = pc]
                   /\ dispatcher' = [dispatcher EXCEPT ![d] = new]
    BY <1>2 DEF ScanBatch
  <2>2. t.pc = "scan" /\ UNCHANGED <<time, schedules, holder, slotRuns, scheduleFaults>>
    BY <1>2 DEF ScanBatch
  <2>3. pc # "begin"
    OBVIOUS
  <2> HIDE DEF batch, pc
  <2>4. IsTick(new) /\ new.pc = pc /\ new.todo = t.todo
    BY <1>1, <2>1 DEF IsTick, TickFields
  <2> QED
    BY <1>1, <2>1, <2>2, <2>3, <2>4, TickSlots
<1>3. CASE FinishRun(d)
  <2> DEFINE rest == Tail(t.todo)
             goes == schedules[Head(t.todo)].there /\ rest # <<>>
  <2>1. PICK next : next = [Unoccupied EXCEPT !.pc = "begin", !.now = t.now, !.todo = rest,
                                              !.slots = t.slots]
    OBVIOUS
  <2>2. /\ dispatcher' = [dispatcher EXCEPT ![d] = IF goes THEN next ELSE Unoccupied]
        /\ t.pc = "finish" /\ UNCHANGED <<time, schedules, holder, slotRuns, scheduleFaults>>
    BY <1>3, <2>1 DEF FinishRun
  <2>3. IsTick(next)
    <3> HIDE DEF rest
    <3> QED
      BY <1>1, <2>1, UnoccupiedTick DEF IsTick, TickFields
  <2>4. CASE goes
    <3>1. rest # <<>> /\ dispatcher' = [dispatcher EXCEPT ![d] = next]
      BY <2>2, <2>4
    <3> QED
      BY <1>1, <2>2, <2>3, <3>1, TickSlots
  <2>5. CASE ~goes
    <3>1. dispatcher' = [dispatcher EXCEPT ![d] = Unoccupied]
      BY <2>2, <2>5
    <3> QED
      BY <1>1, <2>2, <3>1, UnoccupiedIsTick, TickSlots
  <2> QED
    BY <2>4, <2>5
<1>4. CASE LoseDispatcher(d)
  <2>1. /\ dispatcher' = [dispatcher EXCEPT ![d] = Unoccupied]
        /\ UNCHANGED <<time, schedules, slotRuns>> /\ Releases(d)
        /\ scheduleFaults' = [scheduleFaults EXCEPT !.troubles = @ + 1]
    BY <1>4 DEF LoseDispatcher, Trouble
  <2>2. /\ scheduleFaults' \in [troubles : Int, together : BOOLEAN]
        /\ scheduleFaults'.together = scheduleFaults.together
    BY <1>1, <2>1
  <2> QED
    BY <2>1, <2>2, UnoccupiedIsTick, TickSlots
<1> QED
  BY <1>2, <1>3, <1>4

LEMMA UsersSlots ==
    ASSUME SlotInv,
           \/ Tock \/ AddDocument
           \/ \E s \in Schedules : EditSchedule(s)
           \/ \E x \in present : RemoveDocument(x)
           \/ UNCHANGED scheduleVars
    PROVE  SlotInv'
<1>0. Calendar /\ scheduleFaults \in [troubles : Int, together : BOOLEAN]
      /\ time \in Nat /\ MaxTime \in Nat
  BY ScheduleBounds DEF SlotInv, Calendar
<1>1. CASE Tock
  <2>1. time' = time + 1 /\ time' \in 0..MaxTime
        /\ UNCHANGED <<schedules, holder, dispatcher, slotRuns, scheduleFaults>>
    BY <1>0, <1>1 DEF Tock
  <2>2. \A d \in Dispatchers : IsTick(dispatcher[d])'
    BY <1>0, <2>1 DEF Calendar, IsTick
  <2>3. Calendar'
    BY <1>0, <2>1, <2>2 DEF Calendar
  <2>4. \A s \in Schedules : Past(s) => Past(s)'
    BY <1>0, <2>1 DEF Past, Slots
  <2> QED
    BY <2>1, <2>3, <2>4 DEF SlotInv, Reserves
<1>2. ASSUME NEW s \in Schedules, EditSchedule(s) PROVE SlotInv'
  <2>1. /\ Unheld(s) /\ UNCHANGED <<time, holder, dispatcher, slotRuns>>
        /\ scheduleFaults' = [scheduleFaults EXCEPT !.troubles = @ + 1]
    BY <1>2 DEF EditSchedule, Trouble
  <2>2. /\ schedules' \in [Schedules -> ScheduleRow]
        /\ \A x \in Schedules : x # s => schedules'[x] = schedules[x]
        /\ schedules'[s].next = schedules[s].next \/ schedules'[s].next = time + 1
    <3>1. CASE \E on \in BOOLEAN : schedules' = [schedules EXCEPT ![s].enabled = on, ![s].next = time + 1]
      <4>1. time + 1 \in Slots
        BY <1>0 DEF Slots, Calendar
      <4>2. PICK on \in BOOLEAN :
                schedules' = [schedules EXCEPT ![s].enabled = on, ![s].next = time + 1]
        BY <3>1
      <4>3. PICK turned : turned = [schedules EXCEPT ![s].enabled = on]
        OBVIOUS
      <4>4. /\ turned \in [Schedules -> ScheduleRow]
            /\ \A x \in Schedules : x # s => turned[x] = schedules[x]
        BY <1>0, <4>3 DEF Calendar, ScheduleRow
      <4>5. schedules' = [turned EXCEPT ![s].next = time + 1]
        BY <4>2, <4>3
      <4> QED
        BY <4>1, <4>4, <4>5 DEF ScheduleRow
    <3>2. CASE schedules' = [schedules EXCEPT ![s].there = FALSE]
      BY <1>0, <3>2 DEF Calendar, ScheduleRow
    <3> QED
      BY <1>2, <3>1, <3>2 DEF EditSchedule
  <2>3. scheduleFaults' \in [troubles : Int, together : BOOLEAN]
        /\ scheduleFaults'.together = scheduleFaults.together
    BY <1>0, <2>1
  <2>4. Calendar'
    BY <1>0, <2>1, <2>2, <2>3 DEF Calendar, IsTick
  <2>5. \A d \in Dispatchers : Reserves(d) => Reserves(d)'
    BY <2>1, <2>2, ScheduleBounds DEF Reserves, Unheld
  <2>6. \A x \in Schedules : Past(x) => Past(x)'
    <3>1. Past(s) => Past(s)'
      BY <1>0, <2>1, <2>2 DEF Past, Slots
    <3>2. \A x \in Schedules : x # s /\ Past(x) => Past(x)'
      BY <2>1, <2>2 DEF Past
    <3> QED
      BY <3>1, <3>2
  <2> QED
    BY <2>3, <2>4, <2>5, <2>6 DEF SlotInv
<1>3. CASE AddDocument \/ UNCHANGED scheduleVars
  <2>1. UNCHANGED <<time, schedules, holder, dispatcher, slotRuns, scheduleFaults>>
    BY <1>3 DEF AddDocument, scheduleVars
  <2> QED
    BY <2>1 DEF SlotInv, Calendar, IsTick, Reserves, Past
<1>4. ASSUME NEW x \in present, RemoveDocument(x) PROVE SlotInv'
  <2>1. /\ UNCHANGED <<time, schedules, holder, slotRuns>>
        /\ scheduleFaults' = [scheduleFaults EXCEPT !.troubles = @ + 1]
        /\ dispatcher' = [d \in Dispatchers |->
               IF dispatcher[d].pc = "scan"
               THEN [dispatcher[d] EXCEPT !.since = @ \ {x}, !.hidden = @ + 1]
               ELSE dispatcher[d]]
    BY <1>4 DEF RemoveDocument, Trouble
  <2>0. scheduleFaults' = [scheduleFaults EXCEPT !.troubles = @ + 1]
    BY <1>4 DEF RemoveDocument, Trouble
  <2>2. scheduleFaults' \in [troubles : Int, together : BOOLEAN]
        /\ scheduleFaults'.together = scheduleFaults.together
    BY <1>0, <2>0
  <2>3. \A d \in Dispatchers :
            /\ DOMAIN dispatcher'[d] = TickFields /\ dispatcher'[d].pc = dispatcher[d].pc
            /\ dispatcher'[d].now = dispatcher[d].now /\ dispatcher'[d].todo = dispatcher[d].todo
            /\ dispatcher'[d].slots = dispatcher[d].slots
    <3> SUFFICES ASSUME NEW d \in Dispatchers
                 PROVE  /\ DOMAIN dispatcher'[d] = TickFields
                        /\ dispatcher'[d].pc = dispatcher[d].pc
                        /\ dispatcher'[d].now = dispatcher[d].now
                        /\ dispatcher'[d].todo = dispatcher[d].todo
                        /\ dispatcher'[d].slots = dispatcher[d].slots
      OBVIOUS
    <3>1. DOMAIN dispatcher[d] = TickFields
      BY <1>0 DEF Calendar, IsTick
    <3>2. \/ dispatcher'[d] = dispatcher[d]
          \/ dispatcher'[d] = [dispatcher[d] EXCEPT !.since = @ \ {x}, !.hidden = @ + 1]
      BY <2>1
    <3> QED
      BY <3>1, <3>2 DEF TickFields
  <2>4. DOMAIN dispatcher' = Dispatchers
    BY <2>1
  <2> HIDE DEF TickFields
  <2>5. Calendar'
    BY <1>0, <2>1, <2>2, <2>3, <2>4 DEF Calendar, IsTick
  <2> QED
    BY <2>1, <2>2, <2>3, <2>5 DEF SlotInv, Reserves, Past
<1> QED
  BY <1>1, <1>2, <1>3, <1>4

\* No slot of a schedule is run twice, however ticks, edits and lost workers interleave,
\* as long as no tick has loaded several schedules.
THEOREM OncePerSlotWhenAlone == SchedulesSpec => []OncePerSlotAlone
<1>1. SchedulesInit => SlotInv
  BY SlotStart
<1>2. SlotInv /\ [SchedulesNext]_scheduleVars => SlotInv'
  BY LoadSlots, BeginSlots, GoOnSlots, UsersSlots DEF SchedulesNext, Dispatch
<1>3. SlotInv => OncePerSlotAlone
  BY DEF SlotInv, OncePerSlotAlone, OncePerSlot, Past
<1> QED
  BY <1>1, <1>2, <1>3, PTL DEF SchedulesSpec
-----------------------------------------------------------------------------
(* The batches of a run. *)

\* The place of a document in the order in which the batches read them, newest first.
Rank(n, P) == Cardinality({m \in P : m > n})

LEMMA Ranks ==
    ASSUME NEW P \in SUBSET Nat, IsFiniteSet(P)
    PROVE  /\ Cardinality(P) \in Nat
           /\ [n \in P |-> Rank(n, P)] \in Injection(P, 0..Cardinality(P) - 1)
           /\ [n \in P |-> Rank(n, P)] \in Surjection(P, 0..Cardinality(P) - 1)
<1> DEFINE top == 0..Cardinality(P) - 1
           f   == [n \in P |-> Rank(n, P)]
<1>1. Cardinality(P) \in Nat
  BY FS_CardinalityType
<1>2. ASSUME NEW n \in P
      PROVE  IsFiniteSet({m \in P : m > n}) /\ Rank(n, P) \in top
  <2>1. IsFiniteSet({m \in P : m > n}) /\ Rank(n, P) \in Nat
    BY FS_Subset, FS_CardinalityType DEF Rank
  <2>2. Rank(n, P) <= Cardinality(P) /\ (Rank(n, P) = Cardinality(P) => {m \in P : m > n} = P)
    BY FS_Subset DEF Rank
  <2>3. n \in Nat
    OBVIOUS
  <2>4. n \notin {m \in P : m > n}
    BY <2>3
  <2>5. Rank(n, P) # Cardinality(P)
    BY <2>2, <2>4
  <2> QED
    BY <1>1, <2>1, <2>2, <2>5
<1>2a. \A n \in P : Rank(n, P) \in top /\ Rank(n, P) \in Nat
  <2>1. top \subseteq Nat
    BY <1>1
  <2> QED
    BY <1>2, <2>1
<1>3. ASSUME NEW n \in P, NEW k \in P, n > k PROVE Rank(n, P) < Rank(k, P)
  <2>0. \A m \in P : m \in Nat
    OBVIOUS
  <2>1. {m \in P : m > n} \subseteq {m \in P : m > k}
    <3>1. \A m \in P : m > n => m > k
      BY <1>3, <2>0
    <3> QED
      BY <3>1
  <2>2. n \in {m \in P : m > k} /\ n \notin {m \in P : m > n}
    BY <1>3, <2>0
  <2>3. Rank(n, P) <= Rank(k, P) /\ Rank(n, P) # Rank(k, P)
    BY <1>2, <2>1, <2>2, FS_Subset DEF Rank
  <2> QED
    BY <1>2a, <2>3
<1>4. f \in [P -> top] /\ \A n, k \in P : f[n] = f[k] => n = k
  <2>1. f \in [P -> top]
    BY <1>2a
  <2>2. ASSUME NEW n \in P, NEW k \in P, f[n] = f[k], n # k PROVE FALSE
    <3>0. n \in Nat /\ k \in Nat
      OBVIOUS
    <3>1. n > k \/ k > n
      BY <2>2, <3>0
    <3>2. Rank(n, P) = Rank(k, P) /\ Rank(n, P) \in Int
      BY <1>2a, <2>2
    <3> QED
      BY <1>2a, <1>3, <3>1, <3>2
  <2> QED
    BY <2>1, <2>2
<1>5. f \in Injection(P, top)
  BY <1>4 DEF Injection, IsInjective
<1>6. IsFiniteSet(top) /\ Cardinality(top) = Cardinality(P)
  <2>1. Cardinality(P) - 1 \in Int
    BY <1>1
  <2> QED
    BY <1>1, <2>1, FS_Interval
<1>7. f \in Surjection(P, top)
  BY <1>5, <1>6, FS_Injection
<1> QED
  BY <1>1, <1>5, <1>7

\* A batch has no more rows than it asks for, and fewer only when it is the last one.
LEMMA Batches ==
    ASSUME NEW P \in SUBSET Nat, IsFiniteSet(P), NEW from \in Nat,
           NEW batch, batch = {n \in P : Rank(n, P) \in from..from + RuleBatch - 1}
    PROVE  /\ IsFiniteSet(batch) /\ Cardinality(batch) \in Nat
           /\ Cardinality(batch) <= RuleBatch
           /\ Cardinality(batch) < RuleBatch => \A n \in P : Rank(n, P) < from + RuleBatch
<1> DEFINE asked == from..from + RuleBatch - 1
           f == [n \in P |-> Rank(n, P)]
           g == [n \in batch |-> Rank(n, P)]
<1>1. RuleBatch \in Nat \ {0}
  BY ScheduleBounds
<1>2. IsFiniteSet(asked) /\ Cardinality(asked) = RuleBatch
  BY <1>1, FS_Interval
<1>3. /\ f \in [P -> 0..Cardinality(P) - 1] /\ Cardinality(P) \in Nat
      /\ \A n, k \in P : f[n] = f[k] => n = k
      /\ \A j \in 0..Cardinality(P) - 1 : \E n \in P : f[n] = j
  BY Ranks DEF Injection, Surjection, IsInjective
<1>4. g \in Injection(batch, asked)
  <2>1. g \in [batch -> asked]
    OBVIOUS
  <2>2. \A n, k \in batch : g[n] = g[k] => n = k
    BY <1>3
  <2> QED
    BY <2>1, <2>2 DEF Injection, IsInjective
<1>5. /\ IsFiniteSet(batch) /\ Cardinality(batch) <= RuleBatch
      /\ Cardinality(batch) = RuleBatch <=> g \in Surjection(batch, asked)
  BY <1>2, <1>4, FS_Injection
<1>6. Cardinality(batch) \in Nat
  BY <1>5, FS_CardinalityType
<1>7. ASSUME NEW n \in P, ~(Rank(n, P) < from + RuleBatch)
      PROVE  Cardinality(batch) = RuleBatch
  <2>1. Rank(n, P) \in 0..Cardinality(P) - 1
    BY <1>3
  <2>2. asked \subseteq 0..Cardinality(P) - 1
    BY <1>1, <1>3, <1>7, <2>1
  <2>3. ASSUME NEW j \in asked PROVE \E k \in batch : g[k] = j
    <3>1. PICK k \in P : f[k] = j
      BY <1>3, <2>2, <2>3
    <3>2. k \in batch /\ g[k] = j
      BY <3>1, <2>3
    <3> QED
      BY <3>2
  <2>4. g \in Surjection(batch, asked)
    BY <1>4, <2>3 DEF Surjection, Injection
  <2> QED
    BY <1>5, <2>4
<1> QED
  BY <1>1, <1>5, <1>6, <1>7

\* No two documents have the same place.
LEMMA RanksDiffer ==
    ASSUME NEW P \in SUBSET Nat, IsFiniteSet(P), NEW n \in P, NEW k \in P, Rank(n, P) = Rank(k, P)
    PROVE  n = k
<1> DEFINE f == [m \in P |-> Rank(m, P)]
<1>1. f \in Injection(P, 0..Cardinality(P) - 1)
  BY Ranks
<1>2. IsInjective(f)
  BY <1>1 DEF Injection
<1>3. f[n] = f[k] /\ DOMAIN f = P
  OBVIOUS
<1> HIDE DEF f
<1> QED
  BY <1>2, <1>3 DEF IsInjective

IsScan(t) == DOMAIN t = TickFields /\ t.offset \in Nat /\ t.hidden \in Nat /\ IsFiniteSet(t.since)

\* The documents a run was to read and has passed by.
Missed(t) == {n \in t.since \ t.seen : Rank(n, present) < t.offset}

\* One document is missed for each one that was deleted, at most.
Follows(t) ==
    /\ t.pc = "scan" => t.since \subseteq present /\ Cardinality(Missed(t)) <= t.hidden
    /\ t.pc = "finish" => Cardinality(t.since \ t.seen) <= t.hidden

ScanInv ==
    /\ latest \in Nat /\ present \subseteq 1..latest
    /\ DOMAIN dispatcher = Dispatchers
    /\ \A d \in Dispatchers : IsScan(dispatcher[d]) /\ Follows(dispatcher[d])

LEMMA PresentFinite ==
    ASSUME ScanInv
    PROVE  present \in SUBSET Nat /\ IsFiniteSet(present) /\ \A n \in present : Rank(n, present) \in Nat
<1>0. latest \in Nat /\ present \subseteq 1..latest
  BY DEF ScanInv
<1>1. IsFiniteSet(1..latest) /\ 1..latest \subseteq Nat
  BY <1>0, FS_Interval
<1>2. present \in SUBSET Nat /\ IsFiniteSet(present)
  BY <1>0, <1>1, FS_Subset
<1>3. \A n \in present : Rank(n, present) \in Nat
  BY <1>2, FS_Subset, FS_CardinalityType DEF Rank
<1> QED
  BY <1>2, <1>3

\* A tick that reads no batch has missed nothing.
LEMMA NoScan ==
    ASSUME NEW t, DOMAIN t = TickFields, t.pc \in {"idle", "begin"}, t.offset = 0, t.since = {},
           t.hidden = 0
    PROVE  IsScan(t) /\ Follows(t)
BY FS_EmptySet DEF IsScan, Follows

\* One tick goes on, with the same documents.
LEMMA OneScans ==
    ASSUME ScanInv, NEW d \in Dispatchers, NEW new, IsScan(new), Follows(new),
           dispatcher' = [dispatcher EXCEPT ![d] = new], UNCHANGED <<present, latest>>
    PROVE  ScanInv'
<1>1. /\ dispatcher'[d] = new /\ DOMAIN dispatcher' = Dispatchers
      /\ \A o \in Dispatchers : o # d => dispatcher'[o] = dispatcher[o]
  BY DEF ScanInv
<1>2. \A o \in Dispatchers : IsScan(dispatcher'[o]) /\ Follows(dispatcher'[o])
  BY <1>1 DEF ScanInv
<1>3. \A o \in Dispatchers : (IsScan(dispatcher[o]) /\ Follows(dispatcher[o]))'
  BY <1>2 DEF IsScan, Follows, Missed
<1> QED
  BY <1>1, <1>3 DEF ScanInv

\* A batch: it reads the documents from its offset on, and passes by no other.
LEMMA BatchScans ==
    ASSUME ScanInv, NEW d \in Dispatchers, ScanBatch(d)
    PROVE  ScanInv'
<1> DEFINE t    == dispatcher[d]
           batch == {n \in present : Rank(n, present) \in t.offset..t.offset + RuleBatch - 1}
           pc   == IF IsLast(batch) THEN "finish" ELSE "scan"
<1>1. PICK new : /\ new = [t EXCEPT !.seen = t.seen \cup batch,
                                    !.offset = t.offset + Cardinality(batch), !.pc = pc]
                 /\ dispatcher' = [dispatcher EXCEPT ![d] = new]
  BY DEF ScanBatch, Rank
<1>2. t.pc = "scan" /\ UNCHANGED <<present, latest>>
  BY DEF ScanBatch
<1>3. /\ DOMAIN t = TickFields /\ t.offset \in Nat /\ t.hidden \in Nat /\ IsFiniteSet(t.since)
      /\ t.since \subseteq present /\ Cardinality(Missed(t)) <= t.hidden
  BY <1>2 DEF ScanInv, IsScan, Follows
<1>4. RuleBatch \in Nat \ {0}
  BY ScheduleBounds
<1>5. /\ Cardinality(batch) \in Nat /\ Cardinality(batch) <= RuleBatch
      /\ IsLast(batch) => \A n \in present : Rank(n, present) < t.offset + RuleBatch
  BY <1>3, PresentFinite, Batches DEF IsLast
<1>6. \A n \in present : Rank(n, present) < t.offset + RuleBatch /\ n \notin batch
                             => Rank(n, present) < t.offset
  <2>1. ASSUME NEW n \in present, Rank(n, present) < t.offset + RuleBatch, n \notin batch
        PROVE  Rank(n, present) < t.offset
    <3>1. Rank(n, present) \in Nat
      BY PresentFinite
    <3>2. Rank(n, present) \notin t.offset..t.offset + RuleBatch - 1
      BY <2>1
    <3> QED
      BY <1>3, <1>4, <2>1, <3>1, <3>2
  <2> QED
    BY <2>1
<1> HIDE DEF batch, pc
<1>7. /\ new.pc = pc /\ new.seen = t.seen \cup batch /\ new.since = t.since
      /\ new.offset = t.offset + Cardinality(batch) /\ new.hidden = t.hidden
      /\ DOMAIN new = TickFields
  BY <1>1, <1>3 DEF TickFields
<1>8. IsScan(new)
  BY <1>3, <1>5, <1>7 DEF IsScan
<1>9. IsFiniteSet(Missed(t)) /\ Cardinality(Missed(t)) \in Nat
  BY <1>3, FS_Subset, FS_CardinalityType DEF Missed
<1>10. ASSUME NEW S, S \subseteq Missed(t) PROVE Cardinality(S) <= t.hidden
  <2>1. Cardinality(S) <= Cardinality(Missed(t)) /\ Cardinality(S) \in Nat
    BY <1>9, <1>10, FS_Subset, FS_CardinalityType
  <2> QED
    BY <1>3, <1>9, <2>1
<1>11. CASE IsLast(batch)
  <2>1. new.since \ new.seen \subseteq Missed(t)
    BY <1>3, <1>5, <1>6, <1>7, <1>11 DEF Missed
  <2>2. new.pc = "finish"
    BY <1>7, <1>11 DEF pc
  <2> QED
    BY <1>1, <1>2, <1>7, <1>8, <1>10, <2>1, <2>2, OneScans DEF Follows
<1>12. CASE ~IsLast(batch)
  <2>1. \A n \in present : Rank(n, present) < t.offset + Cardinality(batch)
                               => Rank(n, present) < t.offset + RuleBatch
    BY <1>3, <1>4, <1>5, PresentFinite
  <2>2. Missed(new) \subseteq Missed(t)
    BY <1>3, <1>6, <1>7, <2>1 DEF Missed
  <2>3. new.pc = "scan"
    BY <1>7, <1>12 DEF pc
  <2> QED
    BY <1>1, <1>2, <1>3, <1>7, <1>8, <1>10, <2>2, <2>3, OneScans DEF Follows
<1> QED
  BY <1>11, <1>12

\* A new document is read after all others: the places of the others move away.
LEMMA AddScans == ASSUME ScanInv, AddDocument PROVE ScanInv'
<1>1. /\ latest' = latest + 1 /\ present' = present \cup {latest + 1}
      /\ UNCHANGED dispatcher
  BY DEF AddDocument
<1>2. latest' \in Nat /\ present' \subseteq 1..latest'
  BY <1>1 DEF ScanInv
<1>3. present' \in SUBSET Nat /\ IsFiniteSet(present')
  <2>1. IsFiniteSet(1..latest') /\ 1..latest' \subseteq Nat
    BY <1>2, FS_Interval
  <2> QED
    BY <1>2, <2>1, FS_Subset
<1>4. ASSUME NEW n \in present PROVE Rank(n, present) \in Nat /\ Rank(n, present') \in Nat
                                     /\ Rank(n, present) <= Rank(n, present')
  <2>1. {m \in present : m > n} \subseteq {m \in present' : m > n}
    BY <1>1
  <2>2. IsFiniteSet({m \in present' : m > n})
    BY <1>3, FS_Subset
  <2> QED
    BY <2>1, <2>2, FS_Subset, FS_CardinalityType DEF Rank
<1>5. ASSUME NEW d \in Dispatchers PROVE (IsScan(dispatcher[d]) /\ Follows(dispatcher[d]))'
  <2> DEFINE t == dispatcher[d]
  <2>1. IsScan(t) /\ Follows(t)
    BY DEF ScanInv
  <2>2. dispatcher'[d] = t
    BY <1>1
  <2>3. IsScan(t)'
    BY <2>1, <2>2 DEF IsScan
  <2>4. CASE t.pc = "scan"
    <3>1. t.since \subseteq present /\ Cardinality(Missed(t)) <= t.hidden /\ t.hidden \in Nat
          /\ t.offset \in Nat
      BY <2>1, <2>4 DEF Follows, IsScan
    <3>2. t.since \subseteq present'
      BY <1>1, <3>1
    <3>3. Missed(t)' \subseteq Missed(t)
      <4>1. ASSUME NEW n \in t.since, Rank(n, present') < t.offset
            PROVE  Rank(n, present) < t.offset
        BY <1>4, <3>1, <4>1
      <4> QED
        BY <2>2, <4>1 DEF Missed
    <3>4. IsFiniteSet(Missed(t))
      BY <2>1, FS_Subset DEF IsScan, Missed
    <3>5. /\ Cardinality(Missed(t)') <= Cardinality(Missed(t))
          /\ Cardinality(Missed(t)') \in Nat /\ Cardinality(Missed(t)) \in Nat
      BY <3>3, <3>4, FS_Subset, FS_CardinalityType
    <3>6. Cardinality(Missed(t)') <= t.hidden
      BY <3>1, <3>5
    <3> QED
      BY <2>2, <2>3, <2>4, <3>2, <3>6 DEF Follows
  <2>5. CASE t.pc # "scan"
    BY <2>1, <2>2, <2>3, <2>5 DEF Follows
  <2> QED
    BY <2>4, <2>5
<1> QED
  BY <1>1, <1>2, <1>5 DEF ScanInv

\* A deleted document moves the others at most one place nearer: at most one of them is
\* then before the offset that was not.
LEMMA RemoveScans ==
    ASSUME ScanInv, NEW x \in present, RemoveDocument(x)
    PROVE  ScanInv'
<1>1. /\ present' = present \ {x} /\ UNCHANGED latest
      /\ dispatcher' = [d \in Dispatchers |->
             IF dispatcher[d].pc = "scan"
             THEN [dispatcher[d] EXCEPT !.since = @ \ {x}, !.hidden = @ + 1]
             ELSE dispatcher[d]]
  BY DEF RemoveDocument
<1>2. present \in SUBSET Nat /\ IsFiniteSet(present)
  BY PresentFinite
<1>3. ASSUME NEW n \in present
      PROVE  /\ Rank(n, present) \in Nat /\ Rank(n, present') \in Nat
             /\ Rank(n, present) <= Rank(n, present') + 1
  <2> DEFINE above == {m \in present' : m > n}
  <2>1. {m \in present : m > n} \subseteq above \cup {x}
    BY <1>1
  <2>2. IsFiniteSet(above)
    BY <1>1, <1>2, FS_Subset
  <2>3. IsFiniteSet(above \cup {x}) /\ Cardinality(above) \in Nat
        /\ Cardinality(above \cup {x}) <= Cardinality(above) + 1
        /\ Cardinality(above \cup {x}) \in Nat
    BY <2>2, FS_AddElement, FS_CardinalityType
  <2>4. Cardinality({m \in present : m > n}) <= Cardinality(above \cup {x})
        /\ Cardinality({m \in present : m > n}) \in Nat
    BY <2>1, <2>3, FS_Subset, FS_CardinalityType
  <2> QED
    BY <2>3, <2>4 DEF Rank
<1>4. ASSUME NEW d \in Dispatchers PROVE (IsScan(dispatcher[d]) /\ Follows(dispatcher[d]))'
  <2> DEFINE t == dispatcher[d]
  <2>1. IsScan(t) /\ Follows(t)
    BY DEF ScanInv
  <2>2. CASE t.pc = "scan"
    <3>1. /\ t.since \subseteq present /\ Cardinality(Missed(t)) <= t.hidden /\ t.hidden \in Nat
          /\ t.offset \in Nat /\ DOMAIN t = TickFields /\ IsFiniteSet(t.since)
      BY <2>1, <2>2 DEF Follows, IsScan
    <3>2. dispatcher'[d] = [t EXCEPT !.since = @ \ {x}, !.hidden = @ + 1]
      BY <1>1, <2>2
    <3>3. PICK new : new = dispatcher'[d]
      OBVIOUS
    <3>4. /\ new.pc = "scan" /\ new.since = t.since \ {x} /\ new.seen = t.seen
          /\ new.offset = t.offset /\ new.hidden = t.hidden + 1 /\ DOMAIN new = TickFields
      BY <2>2, <3>1, <3>2, <3>3 DEF TickFields
    <3>5. IsScan(new)
      BY <3>1, <3>4, FS_RemoveElement DEF IsScan
    <3>6. new.since \subseteq present'
      BY <1>1, <3>1, <3>4
    <3>7. \E k : Missed(new)' \subseteq Missed(t) \cup {k}
      <4> DEFINE at == {n \in present : Rank(n, present) = t.offset}
      <4>1. \A n, k \in at : n = k
        BY <1>2, RanksDiffer
      <4>2. Missed(new)' \subseteq Missed(t) \cup at
        <5>1. ASSUME NEW n \in new.since \ new.seen, Rank(n, present') < new.offset
              PROVE  n \in Missed(t) \cup at
          <6>1. n \in present /\ n \in t.since \ t.seen
            BY <3>1, <3>4, <5>1
          <6>2. Rank(n, present) < t.offset \/ Rank(n, present) = t.offset
            BY <1>3, <3>1, <3>4, <5>1, <6>1
          <6> QED
            BY <6>1, <6>2 DEF Missed
        <5> QED
          BY <3>3, <5>1 DEF Missed
      <4> QED
        BY <4>1, <4>2
    <3>8. PICK k : Missed(new)' \subseteq Missed(t) \cup {k}
      BY <3>7
    <3>9. IsFiniteSet(Missed(t)) /\ Cardinality(Missed(t)) \in Nat
      BY <3>1, FS_Subset, FS_CardinalityType DEF Missed
    <3>10. /\ IsFiniteSet(Missed(t) \cup {k}) /\ Cardinality(Missed(t) \cup {k}) \in Nat
           /\ Cardinality(Missed(t) \cup {k}) <= Cardinality(Missed(t)) + 1
      <4>1. /\ IsFiniteSet(Missed(t) \cup {k})
            /\ Cardinality(Missed(t) \cup {k}) = IF k \in Missed(t) THEN Cardinality(Missed(t))
                                                 ELSE Cardinality(Missed(t)) + 1
        BY <3>9, FS_AddElement
      <4> HIDE DEF t
      <4> QED
        BY <3>9, <4>1
    <3>11. /\ Cardinality(Missed(new)') <= Cardinality(Missed(t) \cup {k})
           /\ Cardinality(Missed(new)') \in Nat
      BY <3>8, <3>10, FS_Subset, FS_CardinalityType
    <3>12. Cardinality(Missed(new)') <= new.hidden
      BY <3>1, <3>4, <3>9, <3>10, <3>11
    <3> QED
      BY <3>3, <3>4, <3>5, <3>6, <3>12 DEF Follows, IsScan, Missed
  <2>3. CASE t.pc # "scan"
    <3>1. dispatcher'[d] = t
      BY <1>1, <2>3
    <3> QED
      BY <2>1, <2>3, <3>1 DEF Follows, IsScan
  <2> QED
    BY <2>2, <2>3
<1> QED
  BY <1>1, <1>4 DEF ScanInv

LEMMA TickScans ==
    ASSUME ScanInv, NEW d \in Dispatchers,
           LoadDue(d) \/ BeginRun(d) \/ FinishRun(d) \/ LoseDispatcher(d)
    PROVE  ScanInv'
<1> DEFINE t == dispatcher[d]
<1>0. DOMAIN t = TickFields
  BY DEF ScanInv, IsScan
<1>1. UNCHANGED <<present, latest>>
  BY DEF LoadDue, BeginRun, FinishRun, LoseDispatcher
<1>2. IsScan(Unoccupied) /\ Follows(Unoccupied)
  BY UnoccupiedTick, NoScan
<1>3. ASSUME NEW now, NEW todo, NEW slots, NEW new,
             new = [Unoccupied EXCEPT !.pc = "begin", !.now = now, !.todo = todo, !.slots = slots]
      PROVE  IsScan(new) /\ Follows(new)
  <2>1. /\ DOMAIN new = TickFields /\ new.pc = "begin" /\ new.offset = 0 /\ new.since = {}
        /\ new.hidden = 0
    BY <1>3, UnoccupiedTick DEF TickFields
  <2> QED
    BY <2>1, NoScan
<1>4. CASE LoadDue(d)
  <2> DEFINE due == {s \in Schedules : DueNow(s) /\ Unheld(s)}
             slots == [s \in due |-> schedules[s].next]
  <2>1. PICK order \in SetToSeqs(due) :
            dispatcher' = [dispatcher EXCEPT ![d] =
                [Unoccupied EXCEPT !.pc = "begin", !.now = time, !.todo = order, !.slots = slots]]
    BY <1>4 DEF LoadDue
  <2> HIDE DEF slots
  <2> QED
    BY <1>1, <1>3, <2>1, OneScans
<1>5. CASE BeginRun(d)
  <2>1. CASE schedules[Head(t.todo)].there
    <3>1. PICK new : /\ new = [t EXCEPT !.pc = "scan", !.offset = 0, !.seen = {},
                                        !.since = present, !.hidden = 0]
                     /\ dispatcher' = [dispatcher EXCEPT ![d] = new]
      BY <1>5, <2>1 DEF BeginRun
    <3>2. /\ DOMAIN new = TickFields /\ new.pc = "scan" /\ new.offset = 0 /\ new.seen = {}
          /\ new.since = present /\ new.hidden = 0
      BY <1>0, <3>1 DEF TickFields
    <3>3. Missed(new) = {}
      BY <3>2, PresentFinite DEF Missed
    <3>4. IsScan(new) /\ Follows(new)
      BY <3>2, <3>3, PresentFinite, FS_EmptySet DEF IsScan, Follows
    <3> QED
      BY <1>1, <3>1, <3>4, OneScans
  <2>2. CASE ~schedules[Head(t.todo)].there
    <3>1. dispatcher' = [dispatcher EXCEPT ![d] = Unoccupied]
      BY <1>5, <2>2 DEF BeginRun
    <3> QED
      BY <1>1, <1>2, <3>1, OneScans
  <2> QED
    BY <2>1, <2>2
<1>6. CASE FinishRun(d)
  <2> DEFINE rest == Tail(t.todo)
             goes == schedules[Head(t.todo)].there /\ rest # <<>>
             next == [Unoccupied EXCEPT !.pc = "begin", !.now = t.now, !.todo = rest,
                                        !.slots = t.slots]
  <2>1. dispatcher' = [dispatcher EXCEPT ![d] = IF goes THEN next ELSE Unoccupied]
    BY <1>6 DEF FinishRun
  <2>2. IsScan(next) /\ Follows(next)
    BY <1>3
  <2> HIDE DEF next, goes
  <2> QED
    BY <1>1, <1>2, <2>1, <2>2, OneScans
<1>7. CASE LoseDispatcher(d)
  <2>1. dispatcher' = [dispatcher EXCEPT ![d] = Unoccupied]
    BY <1>7 DEF LoseDispatcher
  <2> QED
    BY <1>1, <1>2, <2>1, OneScans
<1> QED
  BY <1>4, <1>5, <1>6, <1>7

LEMMA StillScans ==
    ASSUME ScanInv, Tock \/ (\E s \in Schedules : EditSchedule(s)) \/ UNCHANGED scheduleVars
    PROVE  ScanInv'
<1>1. UNCHANGED <<present, latest, dispatcher>>
  BY DEF Tock, EditSchedule, scheduleVars
<1> QED
  BY <1>1 DEF ScanInv, IsScan, Follows, Missed

\* A run that has read its last batch has seen every document that was there all the time,
\* but one for each document that was deleted meanwhile: however many documents there are and
\* whatever the size of a batch, uploads move no document past the offset and a deletion one.
THEOREM ScansMissDeletedOnly == SchedulesSpec => []ScansEverything
<1>1. SchedulesInit => ScanInv
  <2> SUFFICES ASSUME SchedulesInit PROVE ScanInv
    OBVIOUS
  <2>1. latest \in Nat /\ present = 1..latest
    BY ScheduleBounds DEF SchedulesInit
  <2>2. DOMAIN dispatcher = Dispatchers /\ \A d \in Dispatchers : dispatcher[d] = Unoccupied
    BY DEF SchedulesInit
  <2>3. IsScan(Unoccupied) /\ Follows(Unoccupied)
    BY UnoccupiedTick, NoScan
  <2> QED
    BY <2>1, <2>2, <2>3 DEF ScanInv
<1>2. ScanInv /\ [SchedulesNext]_scheduleVars => ScanInv'
  BY BatchScans, AddScans, RemoveScans, TickScans, StillScans DEF SchedulesNext, Dispatch
<1>3. ScanInv => ScansEverything
  BY DEF ScanInv, Follows, ScansEverything
<1> QED
  BY <1>1, <1>2, <1>3, PTL DEF SchedulesSpec
===============================================================================
