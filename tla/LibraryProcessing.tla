-------------------------- MODULE LibraryProcessing --------------------------
(***************************************************************************)
(* What happens to a published Library file: text extraction, and the      *)
(* dataset profile or the media manifest, in tasks of different queues     *)
(* that all keep their result in the same JSON column of the file          *)
(* (metadata_json): each reads the row once, works, and writes the whole   *)
(* column back.                                                            *)
(***************************************************************************)
EXTENDS Integers, FiniteSets

CONSTANTS
    Extractors,     \* workers of the library_extraction queue
    MaxAttempts,    \* extractions that may start before the file is given up
    MaxTaskRetries, \* max_retries of the tasks
    MaxEnqueued     \* bound on the extraction tasks that are submitted

ASSUME ProcessingBounds == /\ MaxAttempts \in Nat \ {0}
                           /\ {MaxTaskRetries, MaxEnqueued} \subseteq Nat

VARIABLES
    meta,           \* metadata_json: extraction status, attempts, profile
    text,           \* extracted_text is set
    tabular,        \* DatasetDerivativeService.supports the type of the file
    extraction,     \* extraction tasks in the broker: [number, tries]
    enqueued,       \* extraction tasks submitted so far
    extractor,      \* per worker: the task it runs and the column it has read
    profiler        \* the profile or manifest task: [pc, tries, seen]

processingVars == <<meta, text, tabular, extraction, enqueued, extractor, profiler>>

States == {"not_attempted", "processing", "done", "unavailable"}
Profiles == {"none", "queued", "ready", "failed"}
Metas == [status : States, attempts : 0..MaxAttempts, profile : Profiles]
ExtractionTasks == [number : 1..MaxEnqueued, tries : 0..MaxTaskRetries]

NoMeta == [status |-> "not_attempted", attempts |-> 0, profile |-> "none"]
IdleExtractor == [pc |-> "idle", task |-> {}, seen |-> NoMeta]

ProcessingTypeOK ==
    /\ meta \in Metas /\ text \in BOOLEAN /\ tabular \in BOOLEAN
    /\ extraction \subseteq ExtractionTasks /\ enqueued \in 0..MaxEnqueued
    /\ extractor \in [Extractors -> [pc : {"idle", "extract"}, task : SUBSET ExtractionTasks,
                                     seen : Metas]]
    /\ profiler \in [pc : {"off", "queued", "build"}, tries : 0..MaxTaskRetries, seen : Metas]

\* A file from an upload waits for its extraction and, when it is tabular, for its
\* profile; a file from before the extraction status has none.
ProcessingInit ==
    /\ tabular \in BOOLEAN
    /\ meta \in {[status |-> "processing", attempts |-> 0,
                  profile |-> IF tabular THEN "queued" ELSE "none"], NoMeta}
    /\ text = FALSE
    /\ extraction = IF meta.status = "processing" THEN {[number |-> 1, tries |-> 0]} ELSE {}
    /\ enqueued = Cardinality(extraction)
    /\ extractor = [x \in Extractors |-> IdleExtractor]
    /\ profiler = [pc |-> IF meta = NoMeta THEN "off" ELSE "queued", tries |-> 0, seen |-> NoMeta]
-----------------------------------------------------------------------------
\* _enqueue_library_file_processing for a finalization that is delivered again: a
\* second extraction while the first may still run, or no broker to take it, and the
\* profile that is not ready (unless its first task still waits or runs).
EnqueueAgain ==
    /\ enqueued < MaxEnqueued
    /\ enqueued' = enqueued + 1
    /\ \/ /\ meta.status = "processing"
          /\ \/ /\ extraction' = extraction \cup {[number |-> enqueued', tries |-> 0]}
                /\ UNCHANGED meta
             \/ /\ meta' = [meta EXCEPT !.status = "unavailable", !.attempts = 0]
                /\ UNCHANGED extraction
       \/ meta.status # "processing" /\ UNCHANGED <<meta, extraction>>
    /\ profiler' = IF meta.profile # "ready" /\ profiler.pc = "off"
                   THEN [profiler EXCEPT !.pc = "queued", !.tries = 0] ELSE profiler
    /\ UNCHANGED <<text, tabular, extractor>>

\* _queue_missing_library_extraction, under the row lock, for a file without text.
QueueMissing ==
    /\ ~text /\ meta.status = "not_attempted" /\ enqueued < MaxEnqueued
    /\ \/ /\ meta' = [meta EXCEPT !.status = "processing"]
          /\ enqueued' = enqueued + 1
          /\ extraction' = extraction \cup {[number |-> enqueued', tries |-> 0]}
       \/ meta' = [meta EXCEPT !.status = "unavailable"] /\ UNCHANGED <<enqueued, extraction>>
    /\ UNCHANGED <<text, tabular, extractor, profiler>>

Taken == UNION {extractor[x].task : x \in Extractors}
Idle(x) == extractor' = [extractor EXCEPT ![x] = IdleExtractor]

\* Mutation: one attempt more than the limit.
MayExtractOnceMore == meta.status = "processing" /\ meta.attempts <= MaxAttempts
MayExtract == meta.status = "processing" /\ meta.attempts < MaxAttempts

\* Mutation: the attempt is counted with its result.
Uncounted == meta
Counted == [meta EXCEPT !.attempts = @ + 1]

\* extract_library_file: nothing to do, too many attempts, or an attempt that is
\* counted before it starts.
StartExtraction(x, t) ==
    /\ extractor[x].pc = "idle" /\ t \notin Taken
    /\ IF MayExtract
       THEN /\ meta' = Counted
            /\ extractor' = [extractor EXCEPT ![x] = [pc |-> "extract", task |-> {t}, seen |-> meta']]
            /\ UNCHANGED extraction
       ELSE /\ meta' = IF meta.status = "processing"
                       THEN [meta EXCEPT !.status = "unavailable", !.attempts = 0] ELSE meta
            /\ extraction' = extraction \ {t}
            /\ UNCHANGED extractor
    /\ UNCHANGED <<text, tabular, enqueued, profiler>>

\* The result, written into the column as it was when the attempt was counted.
FinishExtraction(x, result) ==
    /\ extractor[x].pc = "extract"
    /\ meta' = [extractor[x].seen EXCEPT !.status = result, !.attempts = 0]
    /\ text' = (result = "done")
    /\ extraction' = extraction \ extractor[x].task
    /\ Idle(x)
    /\ UNCHANGED <<tabular, enqueued, profiler>>

\* An exception: a retry, or the status of a row that is read afresh.
FailExtraction(x) ==
    /\ extractor[x].pc = "extract"
    /\ LET t == CHOOSE t \in extractor[x].task : TRUE
           last == t.tries = MaxTaskRetries
       IN  /\ extraction' = (extraction \ {t}) \cup (IF last THEN {} ELSE {[t EXCEPT !.tries = @ + 1]})
           /\ meta' = IF last THEN [meta EXCEPT !.status = "unavailable", !.attempts = 0] ELSE meta
    /\ Idle(x)
    /\ UNCHANGED <<text, tabular, enqueued, profiler>>

\* A worker that is lost while it extracts, any number of times: the message is
\* delivered again with the same number of retries.
LoseExtractor(x) ==
    /\ extractor[x].pc = "extract"
    /\ Idle(x)
    /\ UNCHANGED <<meta, text, tabular, extraction, enqueued, profiler>>
-----------------------------------------------------------------------------
\* profile_library_dataset and profile_library_media.
StartProfile ==
    /\ profiler.pc = "queued"
    /\ profiler' = [profiler EXCEPT !.pc = "build", !.seen = meta]
    /\ UNCHANGED <<meta, text, tabular, extraction, enqueued, extractor>>

FinishProfile ==
    /\ profiler.pc = "build"
    /\ meta' = [profiler.seen EXCEPT !.profile = "ready"]
    /\ profiler' = [profiler EXCEPT !.pc = "off"]
    /\ UNCHANGED <<text, tabular, extraction, enqueued, extractor>>

\* After the last retry a dataset is marked as failed, a manifest is given up.
FailProfile ==
    /\ profiler.pc = "build"
    /\ LET last == profiler.tries = MaxTaskRetries
       IN  /\ profiler' = IF last THEN [profiler EXCEPT !.pc = "off"]
                          ELSE [profiler EXCEPT !.pc = "queued", !.tries = @ + 1]
           /\ meta' = IF last /\ tabular THEN [meta EXCEPT !.profile = "failed"] ELSE meta
    /\ UNCHANGED <<text, tabular, extraction, enqueued, extractor>>

\* A lost worker: this task was acknowledged when it was received.
LoseProfiler ==
    /\ profiler.pc = "build"
    /\ profiler' = [profiler EXCEPT !.pc = "off"]
    /\ UNCHANGED <<meta, text, tabular, extraction, enqueued, extractor>>

Extract(x) == \/ \E t \in extraction : StartExtraction(x, t)
              \/ \E result \in {"done", "unavailable"} : FinishExtraction(x, result)
              \/ FailExtraction(x)

Profile == StartProfile \/ FinishProfile \/ FailProfile

ProcessingNext ==
    \/ EnqueueAgain \/ QueueMissing
    \/ \E x \in Extractors : Extract(x) \/ LoseExtractor(x)
    \/ Profile \/ LoseProfiler

ProcessingSpec == ProcessingInit /\ [][ProcessingNext]_processingVars

ExtractionPending == extraction # {}
-----------------------------------------------------------------------------
\* A file that kills every worker that extracts it does not keep the queue busy for
\* ever: the attempts that are counted before they start end it.
ExtractionEnds == ExtractionPending ~> ~ExtractionPending
=============================================================================
