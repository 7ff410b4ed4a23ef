--------------------------- MODULE DatasetIndexing ---------------------------
(***************************************************************************)
(* The table index of one CSV or TSV document: the request that prepares   *)
(* it, the task that builds the Parquet derivative (index_document), the   *)
(* status request that fails an abandoned pass, and the deletion of the    *)
(* document.  The derivative of a document has one key in storage.         *)
(*                                                                         *)
(* set_db_tenant_context binds a session to its tenant until its           *)
(* transaction ends, and row-level security hides every row from the role  *)
(* of the application without it: a session that commits and goes on sees  *)
(* no row of query_dataset_indexes any more.  In the integration tests all *)
(* sessions join one outer transaction, a commit releases a savepoint of   *)
(* it, and the context survives.                                           *)
(***************************************************************************)
EXTENDS FiniteSets, Integers

CONSTANTS
    Indexers,           \* workers of the queue grounded_query_datasets
    ContextSurvives,    \* a commit leaves the tenant context: as in the tests
    MaxPrepares,        \* bound on the requests
    MaxIndexFaults      \* bound on lost workers, failed submissions, stale passes
                        \* and errors of a pass

ASSUME DatasetBounds == ContextSurvives \in BOOLEAN /\ {MaxPrepares, MaxIndexFaults} \subseteq Nat

VARIABLES
    file,           \* the document: "live", "quarantined" or "deleted"
    index,          \* query_dataset_indexes: [status, stored, stale]
    derivative,     \* the object is in storage
    removal,        \* storage_cleanup_jobs has a job for it
    builds,         \* messages in the broker
    preparer,       \* the request that prepares, and whether it has not committed yet
    indexer,        \* per worker: where it is, and whether it has stored the object
    remover,        \* the request that deletes: [pc, found, stored]
    indexFaults     \* requests, faults and what they excuse so far

datasetVars == <<file, index, derivative, removal, builds, preparer, indexer, remover, indexFaults>>

NoIndex == [status |-> "none", stored |-> FALSE, stale |-> FALSE]
NoPass == [pc |-> "idle", put |-> FALSE]

DatasetTypeOK ==
    /\ file \in {"live", "quarantined", "deleted"}
    /\ index \in [status : {"none", "queued", "processing", "ready", "failed"},
                  stored : BOOLEAN, stale : BOOLEAN]
    /\ derivative \in BOOLEAN /\ removal \in BOOLEAN
    /\ builds \in 0..MaxPrepares
    /\ preparer \in [pc : {"idle", "submit", "report"}, bound : BOOLEAN]
    /\ indexer \in [Indexers -> [pc : {"idle", "load", "store", "publish", "fail", "discard"},
                                 put : BOOLEAN]]
    /\ remover \in [pc : {"idle", "read", "drop", "object"}, found : BOOLEAN, stored : BOOLEAN]
    /\ indexFaults \in [prepares : 0..MaxPrepares, lost : 0..MaxIndexFaults,
                        reported : 0..MaxIndexFaults, lapsed : 0..MaxIndexFaults, raised : 0..MaxIndexFaults,
                        missed : BOOLEAN]

DatasetInit ==
    /\ file \in {"live", "quarantined"}
    /\ index = NoIndex
    /\ derivative = FALSE /\ removal = FALSE
    /\ builds = 0
    /\ preparer = [pc |-> "idle", bound |-> FALSE]
    /\ indexer = [w \in Indexers |-> NoPass]
    /\ remover = [pc |-> "idle", found |-> FALSE, stored |-> FALSE]
    /\ indexFaults = [prepares |-> 0, lost |-> 0, reported |-> 0, lapsed |-> 0, raised |-> 0,
                    missed |-> FALSE]
-----------------------------------------------------------------------------
Building(w) == indexer[w].pc # "idle"
Turns(w, pc) == indexer' = [indexer EXCEPT ![w].pc = pc]
IndexBecomes(status) == index' = [index EXCEPT !.status = status, !.stale = FALSE]
Counts(what) == indexFaults' = [indexFaults EXCEPT ![what] = @ + 1]
Bounded(what) == indexFaults[what] < MaxIndexFaults /\ Counts(what)
RestUnchanged == UNCHANGED <<file, derivative, removal, remover>>

\* A row is seen, and written, in the first transaction of a session.
SeesIndexLater == ContextSurvives /\ index.status # "none"

\* request_index, for a live document that has passed its scan.  It locks the document
\* until it commits: a request that finds the row queued submits it without a commit.
RequestIndex(retry) ==
    /\ preparer.pc = "idle" /\ file = "live" /\ indexFaults.prepares < MaxPrepares
    /\ Counts("prepares")
    /\ LET again == \/ index.status = "none"
                    \/ index.status = "processing" /\ index.stale
                    \/ index.status = "failed" /\ retry
       IN  /\ IF again THEN IndexBecomes("queued") ELSE UNCHANGED index
           /\ preparer' = IF again \/ index.status = "queued"
                          THEN [pc |-> "submit", bound |-> ~again] ELSE preparer
    /\ UNCHANGED <<builds, indexer>> /\ RestUnchanged

\* The message is submitted; or the broker is away, and the request reports it.
SubmitBuild ==
    /\ preparer.pc = "submit"
    /\ \/ builds' = builds + 1 /\ preparer' = [pc |-> "idle", bound |-> FALSE]
          /\ UNCHANGED indexFaults
       \/ preparer' = [preparer EXCEPT !.pc = "report"] /\ Bounded("reported") /\ UNCHANGED builds
    /\ UNCHANGED <<index, indexer>> /\ RestUnchanged

ReportSubmission ==
    /\ preparer.pc = "report"
    /\ preparer' = [pc |-> "idle", bound |-> FALSE]
    /\ IF SeesIndexLater \/ preparer.bound THEN IndexBecomes("failed") ELSE UNCHANGED index
    /\ UNCHANGED <<builds, indexer, indexFaults>> /\ RestUnchanged

\* fail_stale_processing, by a status request.
FailStale ==
    /\ file = "live" /\ index.status = "processing" /\ index.stale
    /\ IndexBecomes("failed")
    /\ UNCHANGED <<builds, preparer, indexer, indexFaults>> /\ RestUnchanged

\* 10 minutes without a write.
GrowStale ==
    /\ index.status = "processing" /\ ~index.stale
    /\ IF \E w \in Indexers : Building(w) THEN Bounded("lapsed") ELSE UNCHANGED indexFaults
    /\ index' = [index EXCEPT !.stale = TRUE]
    /\ UNCHANGED <<builds, preparer, indexer>> /\ RestUnchanged
-----------------------------------------------------------------------------
(* index_document *)

\* Mutation: a pass that is underway does not exclude another one.
MayBuildAnyway == index.status \notin {"none", "ready"}
MayBuild == /\ index.status \notin {"none", "ready"}
            /\ index.status = "processing" => index.stale

\* The row is locked until the commit; the message was acknowledged when received.
BeginBuild(w) ==
    /\ ~Building(w) /\ builds > 0
    /\ builds' = builds - 1
    /\ \/ /\ MayBuild /\ file = "live"
          /\ IndexBecomes("processing") /\ Turns(w, "load")
       \/ /\ MayBuild /\ file = "quarantined"
          /\ IndexBecomes("failed") /\ UNCHANGED indexer
       \/ /\ ~MayBuild \/ file = "deleted"
          /\ UNCHANGED <<index, indexer>>
    /\ UNCHANGED <<preparer, indexFaults>> /\ RestUnchanged

\* The source is read and the derivative is built; the progress is committed on the way.
LoadSource(w) ==
    /\ indexer[w].pc = "load"
    /\ IF SeesIndexLater THEN index' = [index EXCEPT !.stale = FALSE] /\ Turns(w, "store")
       ELSE UNCHANGED index /\ Turns(w, "fail")
    /\ UNCHANGED <<builds, preparer, indexFaults>> /\ RestUnchanged

StoreDerivative(w) ==
    /\ indexer[w].pc = "store"
    /\ derivative' = TRUE
    /\ indexer' = [indexer EXCEPT ![w] = [pc |-> "publish", put |-> TRUE]]
    /\ UNCHANGED <<file, index, removal, builds, preparer, remover, indexFaults>>

\* The commit that publishes it, or finds its row deleted.
PublishIndex(w) ==
    /\ indexer[w].pc = "publish"
    /\ IF SeesIndexLater
       THEN /\ index' = [status |-> "ready", stored |-> TRUE, stale |-> FALSE]
            /\ indexer' = [indexer EXCEPT ![w] = NoPass]
       ELSE UNCHANGED index /\ Turns(w, "fail")
    /\ UNCHANGED <<builds, preparer, indexFaults>> /\ RestUnchanged

\* The file is too large, or storage, the parser or the database fails.
RaiseInBuild(w) ==
    /\ indexer[w].pc \in {"load", "store", "publish"} /\ Bounded("raised")
    /\ Turns(w, "fail")
    /\ UNCHANGED <<index, builds, preparer>> /\ RestUnchanged

\* Mutation: what was stored before the error is left there.
LeftBehind(w) == FALSE
ToDiscard(w) == indexer[w].put

\* The handlers of index_document: the row first.
FailBuild(w) ==
    /\ indexer[w].pc = "fail"
    /\ index' = IF SeesIndexLater THEN [status |-> "failed", stored |-> FALSE, stale |-> FALSE]
                ELSE index
    /\ indexer' = [indexer EXCEPT ![w] = IF ToDiscard(w) THEN [@ EXCEPT !.pc = "discard"]
                                         ELSE NoPass]
    /\ UNCHANGED <<builds, preparer, indexFaults>> /\ RestUnchanged

\* _delete_or_queue_derivative
DiscardDerivative(w) ==
    /\ indexer[w].pc = "discard"
    /\ indexer' = [indexer EXCEPT ![w] = NoPass]
    /\ \/ derivative' = FALSE /\ UNCHANGED removal
       \/ removal' = TRUE /\ UNCHANGED derivative
    /\ UNCHANGED <<file, index, builds, preparer, remover, indexFaults>>

LoseIndexer(w) ==
    /\ Building(w) /\ Bounded("lost")
    /\ indexer' = [indexer EXCEPT ![w] = NoPass]
    /\ UNCHANGED <<index, builds, preparer>> /\ RestUnchanged
-----------------------------------------------------------------------------
(* delete_document, and the periodic storage_cleanup. *)

SoftDelete ==
    /\ file # "deleted" /\ ~preparer.bound
    /\ file' = "deleted"
    /\ remover' = [remover EXCEPT !.pc = "read"]
    /\ UNCHANGED <<index, derivative, removal, builds, preparer, indexer, indexFaults>>

\* delete_indexes_for_documents loads the row after the commit of the deletion ...
ReadIndex ==
    /\ remover.pc = "read"
    /\ remover' = [pc |-> "drop", found |-> SeesIndexLater, stored |-> SeesIndexLater /\ index.stored]
    /\ UNCHANGED <<file, index, derivative, removal, builds, preparer, indexer, indexFaults>>

\* ... and deletes it, with what was written to it in between.
DropIndex ==
    /\ remover.pc = "drop"
    /\ index' = IF remover.found THEN NoIndex ELSE index
    /\ remover' = [remover EXCEPT !.pc = IF remover.stored THEN "object" ELSE "idle"]
    /\ indexFaults' = [indexFaults EXCEPT
           !.missed = @ \/ (remover.found /\ index.stored /\ ~remover.stored)]
    /\ UNCHANGED <<file, derivative, removal, builds, preparer, indexer>>

RemoveDerivative ==
    /\ remover.pc = "object"
    /\ remover' = [remover EXCEPT !.pc = "idle"]
    /\ \/ derivative' = FALSE /\ UNCHANGED removal
       \/ removal' = TRUE /\ UNCHANGED derivative
    /\ UNCHANGED <<file, index, builds, preparer, indexer, indexFaults>>

\* A job that has failed for good stays, as one that an administrator may retry.
CleanUp ==
    /\ removal
    /\ removal' = FALSE /\ derivative' = FALSE
    /\ UNCHANGED <<file, index, builds, preparer, indexer, remover, indexFaults>>

Index(w) == \/ BeginBuild(w) \/ LoadSource(w) \/ StoreDerivative(w) \/ PublishIndex(w)
            \/ FailBuild(w) \/ DiscardDerivative(w)

DatasetNext ==
    \/ \E retry \in BOOLEAN : RequestIndex(retry)
    \/ SubmitBuild \/ ReportSubmission \/ FailStale \/ GrowStale
    \/ \E w \in Indexers : Index(w) \/ RaiseInBuild(w) \/ LoseIndexer(w)
    \/ SoftDelete \/ ReadIndex \/ DropIndex \/ RemoveDerivative \/ CleanUp

DatasetSpec == DatasetInit /\ [][DatasetNext]_datasetVars
-----------------------------------------------------------------------------
\* No two workers build the table of one document at a time, through repeated messages and
\* retries of failed passes: they would store under one key.  Unless a pass that goes on was
\* taken for abandoned, or a request whose message was refused marked it failed.
OnePass ==
    indexFaults.lapsed = 0 /\ indexFaults.reported = 0 =>
        Cardinality({w \in Indexers : indexer[w].pc \notin {"idle", "discard"}}) <= 1

\* "Delete table-index metadata and queue derivative blobs for safe cleanup": when a
\* document has been deleted and nobody works on its table, no derivative is left without a
\* cleanup job - though the pass ran beside the deletion - unless a worker was lost, two
\* passes overlapped (see OnePass), or the pass was published between the read and the delete
\* of its row.
NoDerivativeIsLeft ==
    /\ file = "deleted" /\ remover.pc = "idle" /\ \A w \in Indexers : ~Building(w)
    /\ indexFaults.lost = 0 /\ indexFaults.lapsed = 0 /\ indexFaults.reported = 0
    /\ ~indexFaults.missed
    => (derivative => removal)

\* "assert task_result.result == "ready"": a pass over a document that is not deleted ends
\* with a table that is ready, unless an error occurs in it.
FailedPassesHaveACause ==
    (\E w \in Indexers : indexer[w].pc = "fail") => indexFaults.raised > 0 \/ file = "deleted"
=============================================================================
