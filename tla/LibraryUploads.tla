---------------------------- MODULE LibraryUploads ----------------------------
(***************************************************************************)
(* Chunked uploads into the Library of one conversation: the upload        *)
(* handlers of the API, which read a row without a lock and write it back  *)
(* at their end, and the workers that assemble, store and publish the file *)
(* (finalize_library_upload), with redelivery, retries, lost workers, and  *)
(* storage and database errors.                                            *)
(***************************************************************************)
EXTENDS Integers, FiniteSets, FiniteSetsExt

CONSTANTS
    Uploads,        \* upload sessions, all for a file of the same name and size 1
    Chunks,         \* chunks of a file
    Requests,       \* API requests that run at the same time
    Finalizers,     \* workers of the library_uploads queue
    Capacity,       \* allocated_bytes, in files
    MaxRetries,     \* max_retries of the finalization task
    MaxRequests,    \* bound on the requests that are made
    MaxStale,       \* bound on the requests that write over a row that has changed
    MaxFaults       \* bound on lost workers and errors that leave something in the storage

ASSUME LibraryBounds == {Capacity, MaxRetries, MaxRequests, MaxStale, MaxFaults} \subseteq Nat

VARIABLES
    upload,         \* deepspace_library_uploads: [status, received, name, rename, file]
    chunks,         \* the chunk objects of every upload
    files,          \* deepspace_workspace_files: [id, name, upload]
    objects,        \* the stored originals, by file id
    tasks,          \* finalizations in the broker: [upload, number, tries]
    request, finalizer,
    uploadFaults    \* requests, stale writes, lost workers and errors so far, and the uploads
                    \* whose chunks were kept when they were to be deleted last

uploadVars == <<upload, chunks, files, objects, tasks, request, finalizer, uploadFaults>>

Active == {"pending", "uploading", "queued", "processing"}      \* ACTIVE_UPLOAD_STATUSES
Settled == {"completed", "cancelled", "failed"}

NoFile == [number |-> 0, tries |-> 0, lost |-> 0]
FileIds == [number : 0..MaxRequests, tries : 0..MaxRetries, lost : 0..MaxFaults]
Names == 1..Cardinality(Uploads) + 1                            \* "a", "a (1)", ...
Tasks == [upload : Uploads, number : 1..MaxRequests, tries : 0..MaxRetries]

NoUpload == [status |-> "none", received |-> {}, name |-> 1, rename |-> FALSE, file |-> NoFile]
NoRequest == [op |-> "none", upload |-> CHOOSE u \in Uploads : TRUE, row |-> NoUpload, chunk |-> {},
              number |-> 0]
IdleFinalizer == [pc |-> "idle", task |-> [upload |-> CHOOSE u \in Uploads : TRUE, number |-> 1,
                                           tries |-> 0],
                  name |-> 1, file |-> NoFile]

UploadRows == [status : {"none"} \cup Active \cup Settled, received : SUBSET Chunks, name : Names,
               rename : BOOLEAN, file : FileIds]

UploadsTypeOK ==
    /\ upload \in [Uploads -> UploadRows]
    /\ chunks \in [Uploads -> SUBSET Chunks]
    /\ files \subseteq [id : FileIds, name : Names, upload : Uploads \cup {"earlier"}]
    /\ objects \subseteq FileIds
    /\ tasks \subseteq Tasks
    /\ request \in [Requests -> [op : {"none", "chunk", "stored", "complete", "submit", "cancel",
                                       "purge"},
                                 upload : Uploads, row : UploadRows, chunk : SUBSET Chunks,
                                 number : 0..MaxRequests]]
    /\ finalizer \in [Finalizers -> [pc : {"idle", "assemble", "store", "publish", "discard",
                                           "refused", "fail", "clean", "end"},
                                     task : Tasks, name : Names, file : FileIds]]
    /\ uploadFaults \in [requests : 0..MaxRequests, stale : 0..MaxStale, lost : 0..MaxFaults,
                         errors : 0..MaxFaults, kept : SUBSET Uploads]

\* The folder may hold a file of that name already.
UploadsInit ==
    /\ upload = [u \in Uploads |-> NoUpload]
    /\ chunks = [u \in Uploads |-> {}]
    /\ files \in {{}, {[id |-> NoFile, name |-> 1, upload |-> "earlier"]}}
    /\ objects = {g.id : g \in files} /\ tasks = {}
    /\ request = [q \in Requests |-> NoRequest]
    /\ finalizer = [f \in Finalizers |-> IdleFinalizer]
    /\ uploadFaults = [requests |-> 0, stale |-> 0, lost |-> 0, errors |-> 0, kept |-> {}]

\* An error after which something stays in the storage: it is only logged there.
Errs(kept) == /\ uploadFaults.lost + uploadFaults.errors < MaxFaults
              /\ uploadFaults' = [uploadFaults EXCEPT !.errors = @ + 1, !.kept = kept]

\* Mutation: the chunks are counted from one.
ChunksAfterFirst(u) == [chunks EXCEPT ![u] = @ \cap {CHOOSE c \in Chunks : TRUE}]
NoChunks(u) == [chunks EXCEPT ![u] = {}]

\* delete_upload_chunks deletes one chunk after the other and goes on when the storage
\* refuses one; it may also end early, with an exception or with its process.
DeletesChunks(u) ==
    \/ /\ chunks' = NoChunks(u)
       /\ uploadFaults' = [uploadFaults EXCEPT !.kept = @ \ {u}]
    \/ \E left \in SUBSET chunks[u] \ {{}} :
           /\ chunks' = [chunks EXCEPT ![u] = left]
           /\ Errs(uploadFaults.kept \cup {u})

\* Mutation: the object stays.
KeepsObject(id) == UNCHANGED <<objects, uploadFaults>>

\* delete_object only logs that the storage has refused.
DeletesObject(id) ==
    \/ objects' = objects \ {id} /\ UNCHANGED uploadFaults
    \/ UNCHANGED objects /\ Errs(uploadFaults.kept)
-----------------------------------------------------------------------------
(* The API. *)

\* usage: the files, and the sizes that the active uploads announced.
Usage == Cardinality(files) + Cardinality({u \in Uploads : upload[u].status \in Active})

\* Names of the folder that files have or other active uploads have reserved.
Reserved(u) == {f.name : f \in files}
          \cup {upload[v].name : v \in {v \in Uploads \ {u} : upload[v].status \in Active}}

\* unique_library_filename
Unique(name, reserved) == IF name \in reserved THEN Min(Names \ reserved) ELSE name

\* The conversation and the tenant are locked while the name and the capacity are
\* reserved and the session is created.
CreateUpload(u, rename) ==
    /\ upload[u].status = "none"
    /\ Usage + 1 <= Capacity
    /\ rename \/ 1 \notin Reserved(u)
    /\ Names \ Reserved(u) # {}
    /\ upload' = [upload EXCEPT ![u] = [NoUpload EXCEPT !.status = "pending", !.rename = rename,
                                                        !.name = Unique(1, Reserved(u))]]
    /\ UNCHANGED <<chunks, files, objects, tasks, request, finalizer, uploadFaults>>

\* A request reads the row.
Reads(q, op, u, chunk) ==
    /\ request[q].op = "none" /\ uploadFaults.requests < MaxRequests
    /\ uploadFaults' = [uploadFaults EXCEPT !.requests = @ + 1]
    /\ request' = [request EXCEPT ![q] = [op |-> op, upload |-> u, row |-> upload[u],
                                          chunk |-> chunk, number |-> uploadFaults'.requests]]
    /\ UNCHANGED <<upload, chunks, files, objects, tasks, finalizer>>

\* What a request commits: the session writes the attributes whose value differs
\* from the one it has loaded, whatever the row holds by now.  Of the requests, only
\* one that could not submit its task writes "failed"; it keeps the chunks.
Writes(q, row) ==
    LET u == request[q].upload
        old == request[q].row
    IN  /\ upload' = [upload EXCEPT
               ![u].status   = IF row.status # old.status THEN row.status ELSE @,
               ![u].received = IF row.received # old.received THEN row.received ELSE @]
        /\ uploadFaults' = [uploadFaults EXCEPT
               !.stale = IF upload[u] = old THEN @ ELSE @ + 1,
               !.kept  = IF row.status = "failed" THEN @ \cup {u} ELSE @]
        /\ uploadFaults'.stale <= MaxStale

EndsRequest(q) == request' = [request EXCEPT ![q] = NoRequest]

\* upload_library_chunk: a row that still accepts chunks, the object, the row.
PutChunk(q, u, c) ==
    /\ upload[u].status \in {"pending", "uploading", "queued"}
    /\ Reads(q, "chunk", u, {c})

StoreChunk(q) ==
    /\ request[q].op = "chunk"
    /\ chunks' = [chunks EXCEPT ![request[q].upload] = @ \cup request[q].chunk]
    /\ request' = [request EXCEPT ![q].op = "stored"]
    /\ UNCHANGED <<upload, files, objects, tasks, finalizer, uploadFaults>>

RecordChunk(q) ==
    /\ request[q].op = "stored"
    /\ Writes(q, [request[q].row EXCEPT !.status = "uploading", !.received = @ \cup request[q].chunk])
    /\ EndsRequest(q)
    /\ UNCHANGED <<chunks, files, objects, tasks, finalizer>>

\* complete_library_upload
Complete(q, u) ==
    /\ upload[u].status \notin {"none", "completed", "cancelled"}
    /\ upload[u].received = Chunks
    /\ Reads(q, "complete", u, {})

QueueUpload(q) ==
    /\ request[q].op = "complete"
    /\ LET row == [request[q].row EXCEPT !.status = "queued"]
       IN  /\ Writes(q, row)
           /\ request' = [request EXCEPT ![q].op = "submit", ![q].row = row]
    /\ UNCHANGED <<chunks, files, objects, tasks, finalizer>>

SubmitUpload(q) ==
    /\ request[q].op = "submit"
    /\ tasks' = tasks \cup {[upload |-> request[q].upload, number |-> request[q].number, tries |-> 0]}
    /\ EndsRequest(q)
    /\ UNCHANGED <<upload, chunks, files, objects, finalizer, uploadFaults>>

SubmitFails(q) ==
    /\ request[q].op = "submit"
    /\ Writes(q, [request[q].row EXCEPT !.status = "failed"])
    /\ EndsRequest(q)
    /\ UNCHANGED <<chunks, files, objects, tasks, finalizer>>

\* cancel_library_upload: the row is committed, then the chunks are deleted.
Cancel(q, u) ==
    /\ upload[u].status \notin {"none", "completed", "cancelled"}
    /\ Reads(q, "cancel", u, {})

CancelUpload(q) ==
    /\ request[q].op = "cancel"
    /\ Writes(q, [request[q].row EXCEPT !.status = "cancelled"])
    /\ request' = [request EXCEPT ![q].op = "purge"]
    /\ UNCHANGED <<chunks, files, objects, tasks, finalizer>>

PurgeUpload(q) ==
    /\ request[q].op = "purge"
    /\ DeletesChunks(request[q].upload)
    /\ EndsRequest(q)
    /\ UNCHANGED <<upload, files, objects, tasks, finalizer>>

\* delete_workspace_file: the object, then the row.
DeleteFile(f) ==
    /\ files' = files \ {f}
    /\ DeletesObject(f.id)
    /\ UNCHANGED <<upload, chunks, tasks, request, finalizer>>
-----------------------------------------------------------------------------
(* The worker.  Its message is acknowledged when it ends: tasks keeps it until  *)
(* then, and the finalizer that runs it hides it from the others.               *)

Running == {finalizer[f].task : f \in {f \in Finalizers : finalizer[f].pc # "idle"}}

At(f, pc) == finalizer[f].pc = pc
Of(f) == finalizer[f].task.upload
Goes(f, pc) == finalizer' = [finalizer EXCEPT ![f].pc = pc]

\* Mutation: the row is not looked at.
NeverOver(u) == FALSE
IsOver(u) == upload[u].status \in {"cancelled", "completed"}

\* A new id for every execution.
FileOf(t) == [number |-> t.number, tries |-> t.tries, lost |-> uploadFaults.lost]

\* The row is claimed under its lock, also one that another worker is processing.
Claim(f, t) ==
    /\ At(f, "idle") /\ t \notin Running
    /\ LET done == IsOver(t.upload)
       IN  /\ upload' = IF done THEN upload ELSE [upload EXCEPT ![t.upload].status = "processing"]
           /\ finalizer' = [finalizer EXCEPT ![f] =
                  [pc |-> IF done THEN "clean" ELSE "assemble", task |-> t,
                   name |-> upload[t.upload].name, file |-> FileOf(t)]]
    /\ UNCHANGED <<chunks, files, objects, tasks, request, uploadFaults>>

\* The chunks are read; a renaming upload looks for a free name once more, under
\* the lock of the conversation.
Assemble(f) ==
    /\ At(f, "assemble")
    /\ LET u    == Of(f)
           name == IF upload[u].rename /\ Names \ Reserved(u) # {}
                   THEN Unique(finalizer[f].name, Reserved(u)) ELSE finalizer[f].name
       IN  IF chunks[u] = Chunks
           THEN /\ finalizer' = [finalizer EXCEPT ![f].pc = "store", ![f].name = name]
                /\ upload' = IF name = finalizer[f].name THEN upload
                             ELSE [upload EXCEPT ![u].name = name]
           ELSE Goes(f, "fail") /\ UNCHANGED upload
    /\ UNCHANGED <<chunks, files, objects, tasks, request, uploadFaults>>

\* The object is stored without any lock.
StoreFile(f) ==
    /\ At(f, "store")
    /\ \/ objects' = objects \cup {finalizer[f].file} /\ Goes(f, "publish")
       \/ Goes(f, "fail") /\ UNCHANGED objects
    /\ UNCHANGED <<upload, chunks, files, tasks, request, uploadFaults>>

\* One transaction inserts the file, looks at the row again under its lock and
\* completes it; a name that is taken refuses the insert.
PublishFile(f) ==
    /\ At(f, "publish")
    /\ LET u    == Of(f)
           file == [id |-> finalizer[f].file, name |-> finalizer[f].name, upload |-> u]
           taken == \E g \in files : g.name = file.name
       IN  /\ Goes(f, IF taken THEN "refused" ELSE IF IsOver(u) THEN "discard" ELSE "clean")
           /\ files' = IF taken \/ IsOver(u) THEN files ELSE files \cup {file}
           /\ upload' = IF taken \/ IsOver(u) THEN upload
                        ELSE [upload EXCEPT ![u].status = "completed", ![u].received = Chunks,
                                            ![u].file = file.id]
    /\ UNCHANGED <<chunks, objects, tasks, request, uploadFaults>>

\* An exception of the transaction rolls it back; only that of the insert deletes the
\* object before the task is retried.
PublicationFails(f) ==
    /\ At(f, "publish")
    /\ \/ Goes(f, "refused") /\ UNCHANGED uploadFaults
       \/ Goes(f, "fail") /\ Errs(uploadFaults.kept)
    /\ UNCHANGED <<upload, chunks, files, objects, tasks, request>>

\* The object of an upload that was cancelled or completed meanwhile, or whose insert was
\* refused, is deleted; an exception of the deletion is retried.  The transaction has been
\* rolled back: the session reads the row again to see if the chunks are to be deleted.
Discard(f) ==
    /\ \/ At(f, "refused") /\ Goes(f, "fail")
       \/ At(f, "discard") /\ Goes(f, IF upload[Of(f)].status \in Settled THEN "clean" ELSE "end")
       \/ At(f, "discard") /\ Goes(f, "fail") /\ UNCHANGED objects
    /\ DeletesObject(finalizer[f].file)
    /\ UNCHANGED <<upload, chunks, files, tasks, request>>

\* Mutation: the last exception is only logged.
StatusKept(u) == upload[u].status
StatusAfterFailure(u) == IF IsOver(u) THEN upload[u].status ELSE "failed"

\* An exception is retried, with a message that takes the place of this one; chunks are
\* deleted when the row the session reads again is settled.
RetryFinalizer(f) ==
    /\ At(f, "fail")
    /\ LET t == finalizer[f].task
       IN  /\ t.tries < MaxRetries
           /\ tasks' = (tasks \ {t}) \cup {[t EXCEPT !.tries = @ + 1]}
    /\ IF upload[Of(f)].status \in Settled THEN DeletesChunks(Of(f))
       ELSE UNCHANGED <<chunks, uploadFaults>>
    /\ finalizer' = [finalizer EXCEPT ![f] = IdleFinalizer]
    /\ UNCHANGED <<upload, files, objects, request>>

\* At last it fails the upload, unless that has settled.
FailFinalizer(f) ==
    /\ At(f, "fail") /\ finalizer[f].task.tries >= MaxRetries
    /\ upload' = [upload EXCEPT ![Of(f)].status = StatusAfterFailure(Of(f))]
    /\ Goes(f, "clean")
    /\ UNCHANGED <<chunks, files, objects, tasks, request, uploadFaults>>

\* The chunks are deleted, and the message is acknowledged whether they are or not.
CleanUp(f) ==
    /\ \/ At(f, "clean") /\ DeletesChunks(Of(f))
       \/ At(f, "end") /\ UNCHANGED <<chunks, uploadFaults>>
    /\ tasks' = tasks \ {finalizer[f].task}
    /\ finalizer' = [finalizer EXCEPT ![f] = IdleFinalizer]
    /\ UNCHANGED <<upload, files, objects, request>>

\* A lost worker: the broker delivers its message again (acks_late).
LoseFinalizer(f) ==
    /\ ~At(f, "idle") /\ uploadFaults.lost + uploadFaults.errors < MaxFaults
    /\ finalizer' = [finalizer EXCEPT ![f] = IdleFinalizer]
    /\ uploadFaults' = [uploadFaults EXCEPT !.lost = @ + 1]
    /\ UNCHANGED <<upload, chunks, files, objects, tasks, request>>

Respond(q) == StoreChunk(q) \/ RecordChunk(q) \/ QueueUpload(q) \/ SubmitUpload(q) \/ SubmitFails(q)
              \/ CancelUpload(q) \/ PurgeUpload(q)

Finalize(f) == \/ \E t \in tasks : Claim(f, t)
               \/ Assemble(f) \/ StoreFile(f) \/ PublishFile(f) \/ PublicationFails(f) \/ Discard(f)
               \/ RetryFinalizer(f) \/ FailFinalizer(f) \/ CleanUp(f)

UploadsNext ==
    \/ \E u \in Uploads, rename \in BOOLEAN : CreateUpload(u, rename)
    \/ \E q \in Requests, u \in Uploads :
           \/ \E c \in Chunks : PutChunk(q, u, c)
           \/ Complete(q, u) \/ Cancel(q, u)
    \/ \E q \in Requests : Respond(q)
    \/ \E f \in files : DeleteFile(f)
    \/ \E f \in Finalizers : Finalize(f) \/ LoseFinalizer(f)

UploadsSpec == UploadsInit /\ [][UploadsNext]_uploadVars
-----------------------------------------------------------------------------
(* What a library may rely on. *)

InHand == {finalizer[f].file : f \in {f \in Finalizers :
               finalizer[f].pc \in {"publish", "discard", "refused"}}}

\* An object that no file refers to was left by a lost worker, or by an error: by a
\* deletion that the storage refused or a publication that was rolled back.  There is at
\* most one for each: the other ends of a publication, cancelled, repeated or refused,
\* leave none, whatever the order in which requests, workers and retries come to them.
OrphansHaveACause ==
    Cardinality(objects \ ({g.id : g \in files} \cup InHand))
        <= uploadFaults.lost + uploadFaults.errors

Serial == uploadFaults.stale = 0

\* An upload publishes one file, however often its finalization is submitted,
\* redelivered or retried, and a cancelled upload none - unless a request wrote
\* over a row that had changed since it was read.
PublishesOnce ==
    [][\A u \in Uploads :
           (\E g \in files' \ files : g.upload = u) =>
               (Serial => upload[u].file = NoFile /\ upload[u].status # "cancelled")]_uploadVars

\* "Upload chunks are deleted after completion, cancellation, or failure": also
\* when the worker that should delete them is lost, and however requests and workers
\* follow each other; but not if the last to delete them met an error, which nobody
\* hears of, nor after a task that could not be submitted, when they are not deleted.
NoLeftovers ==
    \A u \in Uploads :
        (/\ upload[u].status \in Settled /\ Serial /\ u \notin uploadFaults.kept
         /\ \A q \in Requests : request[q].upload = u => request[q].op = "none"
         /\ \A t \in tasks : t.upload # u) => chunks[u] = {}

\* A queued upload does not stay queued, nor one in processing.
UploadsSettle ==
    \A u \in Uploads : upload[u].status \in {"queued", "processing"}
                       ~> upload[u].status \notin {"queued", "processing"}
=============================================================================
