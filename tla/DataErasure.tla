----------------------------- MODULE DataErasure -----------------------------
(***************************************************************************)
(* The two ways in which an administrator removes data: the purge of a     *)
(* workspace, which has to be approved and is processed by a worker        *)
(* (DeletionService), and the erasure of an account (delete_user) - here   *)
(* the one that requested the purge - with the documents they delete, the  *)
(* blobs those own in storage, and the jobs that remove what is left.      *)
(***************************************************************************)
EXTENDS FiniteSets

CONSTANTS
    Documents,
    Owned,          \* documents of the account that requests the purge
    Purgers         \* workers that run process_data_deletion

ASSUME ErasureBounds == Owned \subseteq Documents

VARIABLES
    deletion,       \* its data_deletions row: [status, approver]
    admin,          \* the call that approves: "idle", "submit" or "report"
    approved,       \* the message of an approval is in the broker
    purger,         \* per worker: where it is, the blobs it has listed and kept
    eraser,         \* the transaction of the erasure: [pc, listed]
    records,        \* documents with a row
    blobs,          \* documents with an object in storage
    cleanup,        \* per object: its storage_cleanup_jobs row
    unlisted,       \* documents deleted by a transaction that had not listed them
    misreported     \* a submission failed although the broker took the message

erasureVars == <<deletion, admin, approved, purger, eraser, records, blobs, cleanup, unlisted,
                 misreported>>

PurgeStatuses == {"awaiting_approval", "queued", "processing", "completed", "failed",
                  "cancelled", "erased"}
NoPurge == [pc |-> "idle", listed |-> {}, kept |-> {}]

ErasureTypeOK ==
    /\ deletion \in [status : PurgeStatuses, approver : {"none", "self", "other"}]
    /\ admin \in {"idle", "submit", "report"}
    /\ approved \in BOOLEAN /\ misreported \in BOOLEAN
    /\ purger \in [Purgers -> [pc : {"idle", "mark", "list", "remove", "commit"},
                               listed : SUBSET Documents, kept : SUBSET Documents]]
    /\ eraser \in [pc : {"idle", "locked"}, listed : SUBSET Documents]
    /\ records \subseteq Documents /\ blobs \subseteq Documents /\ unlisted \subseteq Documents
    /\ cleanup \in [Documents -> {"none", "pending", "failed"}]

\* A purge has been requested of a workspace that holds documents.
ErasureInit ==
    /\ deletion = [status |-> "awaiting_approval", approver |-> "none"]
    /\ admin = "idle" /\ approved = FALSE /\ misreported = FALSE
    /\ purger = [p \in Purgers |-> NoPurge]
    /\ eraser = [pc |-> "idle", listed |-> {}]
    /\ records \in SUBSET Documents /\ blobs = records
    /\ cleanup = [d \in Documents |-> "none"]
    /\ unlisted = {}

Purging(p) == purger[p].pc \in {"list", "remove", "commit"}
\* Mutation: the erasure reads the requests without a lock.
RowIsNotLocked == TRUE
\* The erasure holds the row FOR UPDATE: who writes it waits.
RowIsFree == eraser.pc # "locked"
\* Mutation: the jobs are not part of the transaction that deletes the rows.
WithoutJobs(kept) == cleanup
WithJobs(kept) == [d \in Documents |-> IF d \in kept THEN "pending" ELSE cleanup[d]]
StoreUnchanged == UNCHANGED <<records, blobs, cleanup, unlisted>>
-----------------------------------------------------------------------------
(* Administrators. *)

\* approve_deletion by another administrator, self_approve_deletion after the delay.
Approve(approver) ==
    /\ admin = "idle" /\ deletion.status = "awaiting_approval" /\ RowIsFree
    /\ deletion' = [status |-> "queued", approver |-> approver]
    /\ admin' = "submit"
    /\ StoreUnchanged /\ UNCHANGED <<approved, purger, eraser, misreported>>

\* The message is sent; or not, and the process has died or an error is raised - which
\* may also happen after the broker took the message.
SubmitPurge ==
    /\ admin = "submit"
    /\ \/ approved' = TRUE /\ admin' = "idle" /\ UNCHANGED misreported
       \/ admin' \in {"idle", "report"} /\ UNCHANGED <<approved, misreported>>
       \/ approved' = TRUE /\ admin' = "report" /\ misreported' = TRUE
    /\ StoreUnchanged /\ UNCHANGED <<deletion, purger, eraser>>

\* mark_enqueue_failed writes the row it approved, whatever happened to it since.
ReportFailure ==
    /\ admin = "report" /\ RowIsFree
    /\ admin' = "idle"
    /\ deletion' = IF deletion.status = "erased" THEN deletion
                  ELSE [deletion EXCEPT !.status = "failed"]
    /\ StoreUnchanged /\ UNCHANGED <<approved, purger, eraser, misreported>>

CancelPurge ==
    /\ deletion.status = "awaiting_approval" /\ RowIsFree
    /\ deletion' = [deletion EXCEPT !.status = "cancelled"]
    /\ StoreUnchanged /\ UNCHANGED <<admin, approved, purger, eraser, misreported>>

\* The account of the approver is deleted: ON DELETE SET NULL.
ApproverLeaves ==
    /\ deletion.approver = "other" /\ RowIsFree
    /\ deletion' = [deletion EXCEPT !.approver = "none"]
    /\ StoreUnchanged /\ UNCHANGED <<admin, approved, purger, eraser, misreported>>
-----------------------------------------------------------------------------
(* process_deletion, which reads the row without a lock. *)

ReceivePurge(p) ==
    /\ approved /\ purger[p].pc = "idle"
    /\ approved' = FALSE
    /\ \/ /\ deletion.status = "queued" /\ deletion.approver = "none" /\ RowIsFree
          /\ deletion' = [deletion EXCEPT !.status = "awaiting_approval"]
          /\ UNCHANGED purger
       \/ /\ \/ deletion.status = "queued" /\ deletion.approver # "none"
             \/ deletion.status = "failed"
          /\ purger' = [purger EXCEPT ![p].pc = "mark"]
          /\ UNCHANGED deletion
       \/ /\ deletion.status \notin {"queued", "failed"}
          /\ UNCHANGED <<deletion, purger>>
    /\ StoreUnchanged /\ UNCHANGED <<admin, eraser, misreported>>

\* A row that is gone cannot be updated: the task raises.
MarkProcessing(p) ==
    /\ purger[p].pc = "mark" /\ RowIsFree
    /\ IF deletion.status = "erased"
       THEN purger' = [purger EXCEPT ![p] = NoPurge] /\ UNCHANGED deletion
       ELSE /\ purger' = [purger EXCEPT ![p].pc = "list"]
            /\ deletion' = [deletion EXCEPT !.status = "processing"]
    /\ StoreUnchanged /\ UNCHANGED <<admin, approved, eraser, misreported>>

ListObjects(p) ==
    /\ purger[p].pc = "list"
    /\ purger' = [purger EXCEPT ![p] = [pc |-> "remove", listed |-> records, kept |-> {}]]
    /\ StoreUnchanged /\ UNCHANGED <<deletion, admin, approved, eraser, misreported>>

\* An object that storage does not delete gets a cleanup job in the transaction.
RemoveObjects(p) ==
    /\ purger[p].pc = "remove"
    /\ \E kept \in SUBSET purger[p].listed :
           /\ purger' = [purger EXCEPT ![p].pc = "commit", ![p].kept = kept]
           /\ blobs' = blobs \ (purger[p].listed \ kept)
    /\ UNCHANGED <<deletion, admin, approved, eraser, records, cleanup, unlisted, misreported>>

\* DELETE takes the rows of the workspace, those that were not listed included.
CommitPurge(p) ==
    /\ purger[p].pc = "commit" /\ RowIsFree /\ deletion.status # "erased"
    /\ deletion' = [deletion EXCEPT !.status = "completed"]
    /\ records' = {} /\ unlisted' = unlisted \cup (records \ purger[p].listed)
    /\ cleanup' = WithJobs(purger[p].kept)
    /\ purger' = [purger EXCEPT ![p] = NoPurge]
    /\ UNCHANGED <<admin, approved, eraser, blobs, misreported>>

\* An error before the first statement is marked on the row.  After one of the transaction
\* the session refuses mark_failed as well, and a worker that is killed marks nothing:
\* what the transaction wrote is rolled back, the row stays "processing".
FailPurge(p) ==
    /\ purger[p].pc # "idle"
    /\ purger' = [purger EXCEPT ![p] = NoPurge]
    /\ \/ UNCHANGED deletion
       \/ /\ purger[p].pc = "list" /\ RowIsFree /\ deletion.status # "erased"
          /\ deletion' = [deletion EXCEPT !.status = "failed"]
    /\ StoreUnchanged /\ UNCHANGED <<admin, approved, eraser, misreported>>
-----------------------------------------------------------------------------
(* delete_user, in one transaction. *)

\* The requests of the account are locked; one that is processing refuses the erasure.
BeginErasure ==
    /\ eraser.pc = "idle" /\ deletion.status \notin {"processing", "erased"}
    /\ eraser' = [pc |-> "locked", listed |-> records \cap Owned]
    /\ StoreUnchanged /\ UNCHANGED <<deletion, admin, approved, purger, misreported>>

CommitErasure ==
    /\ eraser.pc = "locked"
    /\ deletion' = [deletion EXCEPT !.status = "erased"]
    /\ records' = records \ Owned /\ unlisted' = unlisted \cup ((records \cap Owned) \ eraser.listed)
    /\ cleanup' = WithJobs(eraser.listed)
    /\ eraser' = [pc |-> "idle", listed |-> {}]
    /\ UNCHANGED <<admin, approved, purger, blobs, misreported>>

RollBackErasure ==
    /\ eraser.pc = "locked"
    /\ eraser' = [pc |-> "idle", listed |-> {}]
    /\ StoreUnchanged /\ UNCHANGED <<deletion, admin, approved, purger, misreported>>
-----------------------------------------------------------------------------
(* Documents and their blobs. *)

\* A new id: no row, no object, and nobody has listed it.
IsNew(d) == /\ d \notin records \cup blobs \cup eraser.listed /\ cleanup[d] = "none"
            /\ \A p \in Purgers : d \notin purger[p].listed

\* upload_document: the object, then the row.
UploadDocument(d) ==
    /\ IsNew(d)
    /\ d \in Owned => deletion.status # "erased"
    /\ records' = records \cup {d} /\ blobs' = blobs \cup {d}
    /\ unlisted' = unlisted \ {d}
    /\ UNCHANGED <<deletion, admin, approved, purger, eraser, cleanup, misreported>>

\* _delete_document_object_or_queue, after the row was marked deleted; where the insert of the
\* job is refused, because the commit has ended the tenant context, nothing changes.
DeleteObject(d) ==
    /\ d \in records
    /\ \/ blobs' = blobs \ {d} /\ UNCHANGED cleanup
       \/ cleanup' = [cleanup EXCEPT ![d] = "pending"] /\ UNCHANGED blobs
    /\ UNCHANGED <<deletion, admin, approved, purger, eraser, records, unlisted, misreported>>

\* storage_cleanup: a job goes with its object; after twelve attempts it has failed.
RunCleanup(d) ==
    /\ cleanup[d] = "pending"
    /\ \/ blobs' = blobs \ {d} /\ cleanup' = [cleanup EXCEPT ![d] = "none"]
       \/ cleanup' = [cleanup EXCEPT ![d] = "failed"] /\ UNCHANGED blobs
    /\ UNCHANGED <<deletion, admin, approved, purger, eraser, records, unlisted, misreported>>

RetryCleanup(d) ==
    /\ cleanup[d] = "failed"
    /\ cleanup' = [cleanup EXCEPT ![d] = "pending"]
    /\ UNCHANGED <<deletion, admin, approved, purger, eraser, records, blobs, unlisted, misreported>>

Purge(p) == \/ ReceivePurge(p) \/ MarkProcessing(p) \/ ListObjects(p) \/ RemoveObjects(p)
            \/ CommitPurge(p) \/ FailPurge(p)

ErasureNext ==
    \/ \E approver \in {"self", "other"} : Approve(approver)
    \/ SubmitPurge \/ ReportFailure \/ CancelPurge \/ ApproverLeaves
    \/ \E p \in Purgers : Purge(p)
    \/ BeginErasure \/ CommitErasure \/ RollBackErasure
    \/ \E d \in Documents :
           UploadDocument(d) \/ DeleteObject(d) \/ RunCleanup(d) \/ RetryCleanup(d)

ErasureSpec == ErasureInit /\ [][ErasureNext]_erasureVars
-----------------------------------------------------------------------------
\* "so the two operations cannot race": while the erasure of an account is past its check,
\* no purge that the account requested runs - although the worker reads the row without a
\* lock - unless the row was marked failed under the worker by a submission that succeeded.
ErasureExcludesPurge == eraser.pc = "locked" /\ (\E p \in Purgers : Purging(p)) => misreported

\* An object whose document is gone has a cleanup job, through failures of storage,
\* transactions that are rolled back and workers that are killed, unless the document was
\* uploaded between the list of the blobs and the DELETE.
NothingIsOrphaned == \A d \in blobs \ records : cleanup[d] # "none" \/ d \in unlisted
=============================================================================
