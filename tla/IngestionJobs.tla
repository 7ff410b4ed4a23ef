---------------------------- MODULE IngestionJobs ----------------------------
(***************************************************************************)
(* The ingestion of one document: its jobs, the passes that workers make   *)
(* over it (process_ingestion_job), each stage with its own commit, the    *)
(* checkpoint from which a pass resumes the embedding, and the requests    *)
(* that resume, recover or start over.                                     *)
(***************************************************************************)
EXTENDS Integers, FiniteSets, FiniteSetsExt

CONSTANTS
    Parts,          \* chunks of the document, each a batch of its own
    Ingesters,      \* workers of the ingestion queues
    MaxJobs,        \* bound on the jobs of the document
    MaxPasses,      \* ingestion_max_attempts, which is also max_retries of the task
    MaxSubmits      \* bound on the messages that requests submit

ASSUME IngestionBounds == /\ {MaxJobs, MaxPasses, MaxSubmits} \subseteq Nat \ {0}
                          /\ Cardinality(Parts) \in Nat \ {0}

VARIABLES
    document,       \* documents: [status, quarantined]; text: it has any
    jobs,           \* ingestion_jobs, oldest first: [status, attempts, checkpoint]
    rows,           \* document_chunks and chunk_embeddings: [of, embedded]
    passes,         \* messages in the broker: [job, number, tries]
    ingester,       \* per worker: its stage and what its session has loaded
    submits,        \* messages that requests submitted so far
    undermined      \* the chunks are of a pass that ran beside another, or were
                    \* deleted under one

ingestionVars == <<document, jobs, rows, passes, ingester, submits, undermined>>

JobIds == 1..MaxJobs
PassMessages == [job : JobIds, number : 0..MaxSubmits, tries : 0..MaxPasses]
Working == "active"             \* downloading, parsing and chunking
Stages == {"queued", Working, "embedding", "indexed", "failed", "dead_lettered"}
NoRows == [of |-> {}, embedded |-> {}]
Resting == [pc |-> "idle", pass |-> {}, attempt |-> 0, of |-> {}, todo |-> {}, total |-> 0,
            seen |-> "queued", held |-> "queued", beside |-> FALSE]

IngestionTypeOK ==
    /\ document \in [status : Stages, quarantined : BOOLEAN, text : BOOLEAN]
    /\ jobs \in [JobIds -> [status : Stages \cup {"none"}, attempts : 0..MaxPasses + MaxSubmits + 1,
                            checkpoint : BOOLEAN]]
    /\ rows \in [of : SUBSET PassMessages, embedded : SUBSET Parts]
    /\ passes \subseteq PassMessages
    /\ ingester \in [Ingesters -> [pc : {"idle", "download", "parse", "chunk", "checkpoint",
                                         "announce", "resume", "embed", "finish"},
                                   pass : SUBSET PassMessages, attempt : 0..MaxPasses + MaxSubmits + 1,
                                   of : SUBSET PassMessages, todo : SUBSET Parts,
                                   total : 0..Cardinality(Parts),
                                   seen : Stages, held : Stages, beside : BOOLEAN]]
    /\ submits \in 0..MaxSubmits /\ undermined \in BOOLEAN

\* An upload has been committed; its message was submitted, or the broker was away.
IngestionInit ==
    /\ document \in [status : {"queued"}, quarantined : {FALSE}, text : BOOLEAN]
    /\ jobs = [j \in JobIds |-> [status |-> IF j = 1 THEN "queued" ELSE "none", attempts |-> 0,
                                 checkpoint |-> FALSE]]
    /\ rows = NoRows
    /\ passes \in {{}, {[job |-> 1, number |-> 0, tries |-> 0]}}
    /\ ingester = [i \in Ingesters |-> Resting]
    /\ submits = 0 /\ undermined = FALSE
-----------------------------------------------------------------------------
\* get_by_document_id: the newest job.
LatestJob == Max({j \in JobIds : jobs[j].status # "none"})

Busy(i) == ingester[i].pc # "idle"
InStage(i, pc) == ingester[i].pc = pc
PassOf(i) == CHOOSE p \in ingester[i].pass : TRUE
JobOf(i) == PassOf(i).job
Rests(i) == ingester' = [ingester EXCEPT ![i] = Resting]
Moves(i, pc) == ingester' = [ingester EXCEPT ![i].pc = pc]

JobBecomes(j, status) == jobs' = [jobs EXCEPT ![j].status = status]
DocumentBecomes(status) == document' = [document EXCEPT !.status = status]

\* A session writes a status only when it holds another one, of the document (seen) and
\* of the job (held): what somebody else has written meanwhile stays otherwise.
WritesEmbedding(i) ==
    /\ IF ingester[i].held = "embedding" THEN UNCHANGED jobs ELSE JobBecomes(JobOf(i), "embedding")
    /\ IF ingester[i].seen = "embedding" THEN UNCHANGED document ELSE DocumentBecomes("embedding")

\* A pass counts as an attempt unless its job is superseded or the document is
\* indexed; the message is acknowledged when it is received.  beside is history: another
\* pass has been busy at some time of this one.
StartPass(i, p) ==
    /\ ~Busy(i)
    /\ passes' = passes \ {p}
    /\ LET j == p.job
           attempt == jobs[j].attempts + 1
           others == {o \in Ingesters \ {i} : Busy(o)}
           begins(pc) == ingester' = [o \in Ingesters |->
               IF o = i THEN [Resting EXCEPT !.pc = pc, !.pass = {p}, !.attempt = attempt,
                                             !.seen = document.status, !.held = jobs[j].status,
                                             !.beside = others # {}]
               ELSE IF o \in others THEN [ingester[o] EXCEPT !.beside = TRUE]
               ELSE ingester[o]]
       IN  \/ /\ j # LatestJob
              /\ JobBecomes(j, "failed") /\ UNCHANGED ingester
           \/ /\ j = LatestJob /\ document.status = "indexed"
              /\ JobBecomes(j, "indexed") /\ UNCHANGED ingester
           \/ /\ j = LatestJob /\ document.status # "indexed" /\ jobs[j].checkpoint
              /\ jobs' = [jobs EXCEPT ![j].attempts = attempt]
              /\ begins("resume")
           \/ /\ j = LatestJob /\ document.status # "indexed" /\ ~jobs[j].checkpoint
              /\ begins("download") /\ UNCHANGED jobs
    /\ UNCHANGED <<document, rows, submits, undermined>>

\* 'downloading' is committed before the original is read, 'parsing' before it is
\* parsed: one of them differs from what was loaded.
Download(i) ==
    /\ InStage(i, "download")
    /\ jobs' = [jobs EXCEPT ![JobOf(i)].status = Working,
                            ![JobOf(i)].attempts = ingester[i].attempt]
    /\ DocumentBecomes(Working)
    /\ Moves(i, "parse")
    /\ UNCHANGED <<rows, passes, submits, undermined>>

\* 'chunking' is committed before there are chunks; a document without text is kept as a
\* download.
Parse(i) ==
    /\ InStage(i, "parse")
    /\ IF document.text
       THEN JobBecomes(JobOf(i), Working) /\ DocumentBecomes(Working) /\ Moves(i, "chunk")
       ELSE JobBecomes(JobOf(i), "indexed") /\ DocumentBecomes("indexed") /\ Rests(i)
    /\ UNCHANGED <<rows, passes, submits, undermined>>

\* replace_document_chunks: the embeddings go with the rows they belong to.  The session
\* holds 'chunking' already, so that this commit writes no status.
ReplaceChunks(i) ==
    /\ InStage(i, "chunk")
    /\ rows' = [of |-> ingester[i].pass, embedded |-> {}]
    /\ ingester' = [ingester EXCEPT ![i].pc = "checkpoint", ![i].of = ingester[i].pass,
                                    ![i].todo = Parts, ![i].total = Cardinality(Parts)]
    /\ undermined' = ingester[i].beside
    /\ UNCHANGED <<document, jobs, passes, submits>>

SetCheckpoint(i) ==
    /\ InStage(i, "checkpoint")
    /\ jobs' = [jobs EXCEPT ![JobOf(i)].status = "embedding", ![JobOf(i)].checkpoint = TRUE]
    /\ Moves(i, "announce")
    /\ UNCHANGED <<document, rows, passes, submits, undermined>>

\* The document follows with a commit of its own.
AnnounceEmbedding(i) ==
    /\ InStage(i, "announce")
    /\ DocumentBecomes("embedding")
    /\ ingester' = [ingester EXCEPT ![i].pc = "embed", ![i].seen = "embedding",
                                    ![i].held = "embedding"]
    /\ UNCHANGED <<jobs, rows, passes, submits, undermined>>

\* Mutation: the document is taken as embedded when a part of it is.
MissingUnlessAny == IF rows.embedded = {} THEN Parts ELSE {}
Missing == IF rows.of = {} THEN {} ELSE Parts \ rows.embedded

\* _resume_embedding_checkpoint continues with the chunks that have no embedding.
LoadMissing(i) ==
    /\ InStage(i, "resume")
    /\ IF Missing = {}
       THEN JobBecomes(JobOf(i), "indexed") /\ DocumentBecomes("indexed") /\ Rests(i)
       ELSE /\ ingester' = [ingester EXCEPT ![i].pc = "embed", ![i].of = rows.of,
                                            ![i].todo = Missing, ![i].total = Cardinality(Parts)]
            /\ UNCHANGED <<document, jobs>>
    /\ UNCHANGED <<rows, passes, submits, undermined>>

\* The next batch, while its chunk rows exist.  The first one of a resumed pass also
\* writes the statuses.
Embed(i) ==
    /\ InStage(i, "embed") /\ rows.of = ingester[i].of
    /\ LET part == CHOOSE c \in ingester[i].todo : TRUE
           rest == ingester[i].todo \ {part}
       IN  /\ rows' = [rows EXCEPT !.embedded = @ \cup {part}]
           /\ ingester' = [ingester EXCEPT ![i].pc = IF rest = {} THEN "finish" ELSE "embed",
                                           ![i].todo = rest, ![i].seen = "embedding",
                                           ![i].held = "embedding"]
    /\ WritesEmbedding(i)
    /\ UNCHANGED <<passes, submits, undermined>>

\* The yield is computed from the embeddings the document has by now; a resumed pass has
\* no more use for the checkpoint.
Finish(i) ==
    /\ InStage(i, "finish")
    /\ document' = [document EXCEPT !.status = "indexed",
                       !.quarantined = @ \/ 2 * Cardinality(rows.embedded) < ingester[i].total]
    /\ LET resumed == ingester[i].of # ingester[i].pass
       IN  jobs' = [jobs EXCEPT ![JobOf(i)].status = "indexed",
                                ![JobOf(i)].checkpoint = @ /\ ~resumed]
    /\ Rests(i)
    /\ UNCHANGED <<rows, passes, submits, undermined>>

MayRetry(j) == jobs[j].attempts < MaxPasses

\* _handle_failure, for an error of any stage: storage, parser, provider or quota, or
\* chunk rows that are gone.
HandleFailure(i, retryable) ==
    /\ Busy(i)
    /\ LET j == JobOf(i)
           p == PassOf(i)
           again == retryable /\ MayRetry(j)
           status == IF retryable /\ ~again THEN "dead_lettered" ELSE "failed"
       IN  /\ JobBecomes(j, status) /\ DocumentBecomes(status)
           /\ passes' = IF again /\ p.tries < MaxPasses
                        THEN passes \cup {[p EXCEPT !.tries = @ + 1]} ELSE passes
    /\ Rests(i)
    /\ UNCHANGED <<rows, submits, undermined>>

\* A worker that is killed; its message is not delivered again.
LoseIngester(i) ==
    /\ Busy(i)
    /\ Rests(i)
    /\ UNCHANGED <<document, jobs, rows, passes, submits, undermined>>
-----------------------------------------------------------------------------
(* Requests.  What they read is minutes old to a worker that is slow: a pass may *)
(* be running although nothing has been written for two minutes.                 *)

\* _enqueue_ingestion: the message, unless the broker is away - or a worker took it
\* before the job was committed and dropped it.
Enqueues(j) ==
    /\ submits < MaxSubmits
    /\ submits' = submits + 1
    /\ passes' \in {passes, passes \cup {[job |-> j, number |-> submits', tries |-> 0]}}

\* _recover_stale_queued_job_if_needed
RecoverQueued ==
    /\ document.status = "queued" /\ jobs[LatestJob].status = "queued"
    /\ jobs[LatestJob].attempts = 0
    /\ Enqueues(LatestJob)
    /\ UNCHANGED <<document, jobs, rows, ingester, undermined>>

\* resume_document_from_checkpoint
ResumeDocument ==
    /\ rows.of # {} /\ rows.embedded # Parts
    /\ jobs' = [jobs EXCEPT ![LatestJob].status = "queued", ![LatestJob].checkpoint = TRUE]
    /\ DocumentBecomes("embedding")
    /\ Enqueues(LatestJob)
    /\ UNCHANGED <<rows, ingester, undermined>>

\* reingest_document and bulk_reprocess_documents start over with a new job.
Reingest ==
    /\ LatestJob < MaxJobs
    /\ jobs' = [j \in JobIds |->
           IF j = LatestJob + 1 THEN [status |-> "queued", attempts |-> 0, checkpoint |-> FALSE]
           ELSE IF jobs[j].status \in {"queued", Working, "embedding"}
               THEN [jobs[j] EXCEPT !.status = "failed"]
           ELSE jobs[j]]
    /\ document' = [document EXCEPT !.status = "queued", !.quarantined = FALSE]
    /\ rows' = NoRows
    /\ undermined' = (\E i \in Ingesters : Busy(i))
    /\ Enqueues(LatestJob + 1)
    /\ UNCHANGED ingester

Ingest(i) == \/ \E p \in passes : StartPass(i, p)
             \/ Download(i) \/ Parse(i) \/ ReplaceChunks(i) \/ SetCheckpoint(i)
             \/ AnnounceEmbedding(i) \/ LoadMissing(i) \/ Embed(i) \/ Finish(i)

IngestionNext ==
    \/ \E i \in Ingesters :
           \/ Ingest(i) \/ LoseIngester(i)
           \/ \E retryable \in BOOLEAN : HandleFailure(i, retryable)
    \/ RecoverQueued \/ ResumeDocument \/ Reingest

IngestionSpec == IngestionInit /\ [][IngestionNext]_ingestionVars
-----------------------------------------------------------------------------
FullyEmbedded == rows.of # {} /\ rows.embedded = Parts

\* What is shown as indexed can be retrieved as a whole, through crashes, retries,
\* resumed and repeated passes, unless its chunks are of a pass beside which another one
\* ran, or were deleted under a pass.
IndexedIsComplete == document.status = "indexed" /\ document.text /\ ~undermined => FullyEmbedded

\* "explicitly starts a clean reprocessing pass": when all passes have ended, a
\* document that is indexed has the chunks and embeddings of one.
ReprocessedIsComplete ==
    passes = {} /\ (\A i \in Ingesters : ~Busy(i)) /\ document.status = "indexed" /\ document.text
        => FullyEmbedded
=============================================================================
