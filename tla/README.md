# Verification of AverQel

AverQel is a multi-tenant workspace: documents, retrieval, connectors, and
DeepSpace, a durable chat agent whose messages are queued, executed by Celery
workers, stopped, paused for the user, retried, and recovered after crashes.
This directory models four groups of protocols of the backend:

- **one conversation's turn queue, its agent runs and the processes that share
  them**. No lock spans it. It lives in the statuses of three tables, two kinds
  of Redis keys and the order of commits, and that is what the modules follow;
- **the event stream of one request**: a worker that stores and publishes frames
  through two queues, other processes that append an error, and browsers that
  read from two sources;
- **seven services around them** that keep promises across workers, retries and
  lost messages: Library uploads and the processing of their files, retention,
  webhook deliveries, refresh tokens, ingestion, and the deletion of data;
- **background work of the beat and of small queues**: notification e-mails,
  table indexes of Grounded Query, and the automation schedules of documents.

Paths below are under `src/backend/app/` unless they say otherwise.

## 1. Inventory

| Component | State | Operations | Interacts through | What is hard, what makes it correct |
| --- | --- | --- | --- | --- |
| Agent run store (`deepspace/services/runtime_store.py`) | run status, cancel flag, heartbeat, last error, pending decision; status of the assistant message | create, checkpoint, heartbeat, cancel, claim a question, resolve an approval, finish | called by workers, handlers, the beat | most writes overwrite the status; a run must end when its turn does |
| Turn queue store (`deepspace/services/turn_queue.py`) | queue rows (status, priority, sequence, stamps, parent), queue control | enqueue, retry, promote, pause, resume, cancel, clear, claim, release, resume_paused, finish, recover | called by everyone | one active turn, FIFO, a bounded queue, recovery that neither loses nor repeats a turn |
| Queue dispatcher (`deepspace/workers/tasks.py:69`) | none of its own | recover, claim, submit, release | claim committed before the job is sent | a crash or a broker error between the two |
| Run worker (`tasks.py:151`) | Redis worker lock, outcome in memory | lock, check, run, frame, finalize run, finalize turn, wake, unlock | jobs in; rows, frames, wakes out | four commits at the end; redelivery; exceptions |
| Agent stream (`deepspace/services/chat_service.py`, `stream_turn`) | the rows above | start, retry, answer, approval, rounds, cancel, deadline, fail, save | inside the worker | durable effects interleave with users and the beat |
| Queue handlers (`deepspace/api/chats.py`) | none | enqueue, steer, retry, run-now, pause, resume, clear, list, state, cancel, cancel queued, answer, decide, approve | rows, marker, wakes | handlers commit several times |
| Maintenance beat (`system/workers/tasks_maintenance.py:76`) | a list of expired runs read at the start | expire leases, close streams, recover, wake | rows, frames, wakes | acts on what it read before other commits |
| Event log, SSE readers (`deepspace/services/run_events.py`, `chats.py:2822`) | sequenced frames, a durable and a live queue, cursors of browsers | append, persist, publish, replay, receive | worker to log and Redis to browser | two writers of a sequence; frames that are shown and not stored; a gap behind a cursor |
| Schedules (`deepspace/workers/schedules.py`) | due times, schedule runs | submit due prompts | submits to the worker past the queue | two executors, send before commit |
| Conversation deletion, prompt edits (`chats.py:1681`, `:2216`, `:2412`) | conversation rows | delete, bulk delete, edit | cancels runs and turns | a worker still runs |
| Library uploads (`deepspace/api/library.py`, `services/library_uploads.py`, `workers/library_uploads.py`) | upload rows, chunk objects, files, stored originals | create, chunk, complete, cancel, finalize, delete | API and `library_uploads` queue | handlers write back what they read before storage calls; redelivery; one upload, one file, no orphans |
| Processing of Library files (`workers/library_uploads.py:345`) | `metadata_json`, extracted text | enqueue, extract, profile, manifest | two queues, one column | a file that kills its workers; lost updates |
| Artifacts, media jobs | job rows | export | own Celery queues | small |
| Tools, MCP, task loop, context, memory, provider circuit, voice and client proxies | caches, registries, Redis counters | calls out | inside `stream_turn` | nondeterministic outcomes here |
| Authentication (`auth/services/auth_service.py`) | refresh tokens, sessions | login, refresh, logout, logout all | row locks | one live token per session; deadlocks of the lock orders |
| Ingestion (`ingestion/services/ingestion_service.py`) | jobs, document status, chunks, embeddings | stages of a pass, checkpoint, resume, retry, recover, reingest | Celery, requests | two passes over one document; indexed means complete |
| Data deletion (`documents/services/deletion_service.py`, `auth/services/admin_user_service.py:292`) | deletion requests, documents, objects, cleanup jobs | approve, submit, purge, erase an account, clean up | workers and administrators on one row | storage and database fail apart; the worker takes no lock |
| Webhooks (`documents/workers/tasks_webhooks.py`) | deliveries, failure count | dispatch, scan the outbox, claim, send, retry, pause | Celery, an endpoint | sent twice, or never |
| Retention (`system/services/storage_lifecycle.py`, `system/workers/tasks_retention.py`) | lifecycle items, manifests, scan leases | preview, archive, restore, pin | scans and users | archived under active work |
| Notification e-mails (`system/workers/tasks_notifications.py`, `system/api/notifications.py`) | outbox rows with leases, preferences | add, claim, group, recheck, send, record, change preferences | beat, SMTP, requests | sent twice, sent after an opt-out, never sent |
| Table indexes (`query/services/dataset_indexing.py`) | index row, derivative, cleanup jobs | prepare, build, status, delete | own queue, requests | commits between the steps of one task; passes, retries and deletions of one document |
| Document schedules (`documents/workers/tasks_classification.py`) | schedules, runs | tick, run rules, edit | beat, requests | ticks that overlap; documents that move under a scan |
| Query answering, providers, integrations, connectors | little | calls out | HTTP | data, not control |
| Other system services (`system/`) | idempotency keys, quota ledger, support | check, insert | all | check-then-act |
| Realtime, analytics, platform, inference, core | configuration, metrics | | all | infrastructure |
| Sandbox executor, research renderer, scripts, migrations, web and desktop clients | | | HTTP | outside the backend's protocol |

`PROJECT.json` lists the same components with what is modelled of each, the
hazards at their lines, the source lines of every definition, the runs, the
mutants every property was tried on, the findings and the theorems.

## 2. Modules

    RunStore            rows of runs, messages, terminal frames; what each method writes
      TurnQueue         queue rows and control; one operator per transaction
        Broker          Celery queues, worker locks, cancellation markers
          TurnWorkers       dispatchers and workers
          QueueApi          HTTP handlers
          LeaseMaintenance  the maintenance beat
            DeepSpaceRuntime      all of them, time, crashes, redelivery; Spec, FairSpec
              DeepSpaceProperties   what must hold
                MCDeepSpace           symmetry for TLC
                DeepSpaceRowProofs    TypeInv, type correctness, the worker lock, completion stamps
                  DeepSpaceTurnProofs   one turn at a time
                    DeepSpaceOutcomeProofs  durable outcomes, order, retries, pauses, ends of streams
                      DeepSpaceLedgerProofs   all of it implements TurnLedger
    TurnLedger          what the queue of a conversation promises its users (abstract)

    EventLog            what the durable log of a request promises (abstract)
    RunEventStream      fan-out of the worker, failure report, beat, browsers
      RunEventProperties  what must hold; RunEventStream implements EventLog
        RunEventProofs      types, durable ends, no holes, the contract

    LibraryUploads  LibraryProcessing  WebhookDelivery
      MCServices          these and the streams for TLC: what must come to an end
      ServiceProofs       webhook deliveries and uploads

    StorageRetention  AuthSessions  IngestionJobs  DataErasure
    EmailOutbox       DatasetIndexing  DocumentSchedules
      MCBackground        these and the streams for TLC: safety
      BackgroundProofs    erasure, sessions, retention, e-mails
      DocumentProofs      ingestion, table indexes, schedules

**One step is one commit.** A store method that commits once is one operator; a
handler, a task or a beat that commits several times is a process with a `pc`
that names what comes next, so that everybody else may act between two commits.
A broker submission that follows the last commit is part of it: a message that
has been sent may wait as long as it likes, and sending it may fail
(`SubmitWake`, `Submit`).

**Data.** A request is a model value; its agent run and its assistant message are
one record `run[r]`, because the code finds one through the other
(`metadata.client_request_id`). `frames[k]` keeps the terminal frames of a
stream (`done` with its status, `error`) and no other. `turn[r]` is a queue row.
Timestamps are cut where the code compares them: a heartbeat is `fresh`, `aged`
(over ten minutes, `STALE_DISPATCH_AFTER`) or `expired` (over thirty,
`DEEPSPACE_RUN_STALE_MINUTES`), a queue stamp `fresh` or `stale`. `pending` is
what the checkpoint holds of a question or an approval; `lease` says that
`last_error` names an expired lease, which decides whether recovery closes the
stream. `Anon` stands for a request id that has no queue row.

**Ledger.** `TurnLedger` is the queue as a user may think of it: turns with a
stage (absent, queued, active, or their outcome), a priority and a place, whether
the queue is held, which turn is being executed and which ever were. No process
appears in it. A turn begins only if the queue is not held, no turn is active and
it goes first; only an active turn is executed, one at a time; what is executed
is neither returned to the queue nor finished; what is completed has been
executed and stays completed; a turn that was put back may still get its outcome
(recovery puts back one whose run is ready while its worker still reports it, as
in `ready_run`). `DeepSpaceProperties`
maps `stage` to the statuses of the rows (the four active ones are one), `serving`
to the keys of the workers in the provider loop and `served` to the requests that
have a run, and states `KeepsLedger == Ledger!Spec`.

**Processes.** `disp[d]` is `dispatch_deepspace_turn_queue`; `worker[w]` is
`run_deepspace_task` around `stream_turn`, with the job and the outcome it
carries; `api[c]` is a handler between two commits; `beat` is
`maintenance_heartbeat`, with the list of expired runs it read and still works
through. `stream_turn` is reduced to its durable effects; what providers and
tools do is the choice among `WorkRound`, `WorkHeartbeat`, `WorkSeesCancel`,
`WorkDeadline`, `WorkFails` and `WorkAnswers`.

**Streams.** `log` is the rows `[seq, kind, by]` of one request, `by` the
execution that wrote them. `durable` and `live` are the two queues of
`AsyncRunEventFanout`, `batch` what `_persist_loop` has taken. Every frame is
put into the durable queue first and, unless it is an end, into the live one at
once; an end is published only after the durable queue was joined. The failure
report of the task and the beat read the latest number and insert the next one in
another step, and the unique key makes one of two writers fail. A browser is a
cursor, an inbox of live frames, and what it has shown. `EventLog` is the
abstract specification: rows take the next numbers, an end is the last row of
its transaction, only a pause may be resumed, and anybody may report an error.
`RunEventProperties` maps its `resumable` to "no end since the base of the
current turn" and checks `FollowsContract == Contract!Spec`.

**Services.** Each module is a component with its own variables; they share
nothing, so `MCServices` and `MCBackground` run each alone (`subject`) instead of
the product, the first under fairness and the second for safety.
Handlers that hold a stale ORM row between two storage calls carry it in their
state (`request[q].row`, `extractor[x].seen`, `sender[w].failures`,
`ingester[i].seen`, `ingester[i].held`), because the session writes back exactly what differs from
it. A row lock is a set of locked rows that a call keeps until it returns, and
who wants one of them waits (`LockedByOthers`, `SessionFree`, `RowIsFree`).
Files, chunks, parts and blobs are tokens; an object in storage is named by who
stored it. Celery acknowledges late on the `library_uploads` and
`library_extraction` queues (a lost worker's message comes back), and on receipt
everywhere else (it is gone).

**Background work.** An e-mail stands
for an outbox row whose notification has a domain of its own, so that `muted` is
a set of e-mails; `due` and `leased` are what `next_attempt_at` and
`leased_until` say at the moment. Documents are numbered as they are uploaded
and `list_by_tenant` returns the highest first. The tenant of a database session
is a setting that ends with its transaction (`platform/database/session.py:117`)
and row-level security hides all rows without it. `DatasetIndexing` makes this a
constant, because the component is written, and tested, as if it were otherwise:
with `ContextSurvives`, as in the integration tests, whose sessions share one
outer transaction (`src/backend/tests/conftest.py:359-402`), the protocol between
requests, passes and deletion can be checked; without it a pass ends at its first
commit, which the run `tables` shows. The worker of the
schedules does not take the role that row-level security binds.

**Time.** `TurnAges`, `EndAges` and `LeaseAges` make a stamp older. A worker that
executes keeps its lease (heartbeats every five seconds of provider stream), and
the short steps before and after a run take less than ten minutes. Two further
assumptions are constants, so that they can be dropped:

- `PromptDelivery`: a submitted job reaches a worker within ten minutes. Without
  it a slow broker makes recovery submit a second job for the same claim. All
  runs assume it.
- `PatientUsers`: a user answers once the queue shows the turn as paused, which
  is after the worker wrote it. Run `early_answer` drops it.

A lock of a dead worker (`Dead`) lasts until `LockExpires`; a live worker is
assumed to finish within the day its lock lives.

**Failures.** `Crash` stops one worker, dispatcher, handler or the beat between
two commits. Celery acknowledges on delivery here, so the job is gone with its
worker. `Abort` is an exception `stream_turn` does not handle, or an event log
that refuses the terminal frame. `Redeliver` hands out a message and leaves it
in the queue. Lost submissions need no budget, they are always possible.

## 3. Runs

The first six runs, `early_answer` and `ready_run` are of `MCDeepSpace`; constants
not named there are one client, one
dispatcher, two requests, one worker, queue limit 2, one waiting wake, no
failure, no redelivery, no pausing. The runs of safety properties use symmetry;
`liveness`, where symmetry would be unsound, has the constraint that one of the
requests is the one enqueued first. Two requests are enough for every relation
the properties state between turns (the retried one and its retry, the active
one and the one behind it); three are used where a chain matters.

| Run | What may happen | Checks | Distinct states |
| --- | --- | --- | --- |
| `faults` | enqueue; two workers; a crash anywhere; one redelivery | `OneWorkerPerKey` `OneExecutor` `NoOvertaking` | 1.5 M |
| `questions` | questions, approvals, denials, two calls, patient users | `ResumesKeepTheirTurn` `EndedRunsEnd` `CompletedIsDurable` | 0.8 M |
| `stop` | a cancellation, commit by commit, against worker, recovery and beat | `ExecutedTurnIsActive` `StreamEndsOnce` `KeepsLedger` | 1.3 M |
| `controls` | one of pause, resume, run-now, cancel queued, clear, steer, list or state, against worker, recovery and beat | `TypeOK` `EndsAreStamped` `AtMostOneActiveTurn` `PauseStopsTheActiveTurn` | 1.5 M |
| `retries` | three requests, retry, two calls | `OneLiveRetry` | 1.4 M |
| `liveness` | enqueue, a crash or an exception anywhere, lost submissions, `FairSpec` | `QueueDrains` | 0.4 M |
| `services` (`MCServices`) | streams of a worker that lives, with two lost live frames and a browser that reconnects once; uploads, processing and webhooks with lost workers and repeated messages, uploads also with storage and database errors | `ServicesTypeOK`; streams: `WatchersSeeAnEnd`; uploads: `OrphansHaveACause` `NoLeftovers` `PublishesOnce` `UploadsSettle`; processing: `ExtractionEnds`; webhooks: `OneSender` `DeliveredIsFinal` `DeliveriesSettle` | 0.3 M |
| `background` (`MCBackground`) | streams of two turns of at most two frames, with a crash, an expired lease, a lost live frame and a full quota; each of the seven other components, see below | `BackgroundTypeOK`; streams: `NoHoles` `EndsAreDurable` `FollowsContract`; retention: `WorkIsNotArchived`; sessions: `OneLiveToken`; ingestion: `IndexedIsComplete`; erasure: `ErasureExcludesPurge` `NothingIsOrphaned`; tables: `OnePass` `NoDerivativeIsLeft`; schedules: `OncePerSlotAlone` `ScansEverything`; e-mails: `DuplicatesHaveACause` `SilencedStaysUnsent` | 2.2 M |
| `early_answer` | a question answered before its turn is paused | `ResumesKeepTheirTurn` is violated | |
| `ready_run` | a worker that dies after its run is ready | `DurableOutcomeIsPreserved` is violated | |
| `reingest` (`IngestionJobs`) | a reingest under a running pass | `ReprocessedIsComplete` is violated | |
| `tables` (`DatasetIndexing`) | a pass in a session whose context ends with its commit | `FailedPassesHaveACause` is violated | |

Deadlock is not a question here: a conversation, a stream or a service with
nothing to do stops. (Deadlocks of row locks are steps of `AuthSessions`.)
Every property of a passing run was also tried on a changed definition that a
plausible bug would give (listed as mutants): `LockIgnored` takes the lock
without NX, `ClaimableDuringTurn` forgets the active turn, `CancelledAtOnce`
ends a turn under its worker, and so on; each is caught by its property.

The bounds. `MaxTurns` is the queue limit of the code, made small so that it is
reached. `MaxCalls` bounds what users do beyond enqueueing, `MaxFailures` and
`MaxRedeliveries` the faults, `MaxWakes` the waiting dispatches (a second one
only repeats the first), `MaxFrames` the pauses of one stream. One crash meets
every point of every process; two failures in one behaviour are not explored
(an exception whose job is then redelivered after a crash completes a turn whose
run failed). `stop` checks `ExecutedTurnIsActive` without run-now, which it
does not survive (section 4).

`stop` explores the ledger where processes work against a user who cancels. It
holds as well (each tried once, with at most 2.7 M states) when `Ops` of `stop` has
steer, pause and clear instead, or with `MaxFrames = 1`, which is what reaches
`Reopen`, and with the crash and the redelivery of `faults`. With run-now, which
`OrderlyUse` leaves out, it does not: such a job starts a turn whose claim is then
released (section 4).

`controls` makes one call: a resume is explored from a queue that `Init` finds
paused, and not after a pause in the same behaviour.

The queues of a stream hold two frames and a batch takes two, so that a queue is
full, a batch is partial and one frame waits behind it; a second turn is needed
for the base of a resumption, one crash and one lapse for the two other writers
(`background`). In `services` streams have no crash, no lapse and no full quota,
because `WatchersSeeAnEnd` promises nothing to a browser of such a stream, and
lose two live frames instead of one.

In `services`, further: one upload of one chunk with two concurrent requests,
three in all, two finalizers (duplicate and cancelled completions) and one
fault, a lost worker or an error after which something stays in the storage, in a
folder that may already hold a file of that name; two concurrent uploads of one
name are not explored, a second publication of the same upload is; two
extractors, two submitted extractions and three attempts; one delivery, two
senders, a pause after two failures. What a bound of requests, faults,
stale writes or manual actions limits is named after it.

In `background`, further: two scanners, one browser and two policies; three
concurrent calls of four over three tokens, the least with a chain of waiting
transactions; a document of two parts, two ingesters, two jobs of two
attempts; two documents of which the erased account owns one;
two e-mails (a digest, or two messages), two workers, two
attempts, two changes of the preferences (the least for an opt-out that is taken
back) and one fault; two workers of one table,
three requests, and one each of lost workers, refused messages, passes taken for
abandoned and errors; two schedules, two ticks, two points of time, two documents
in batches of one, and one trouble (an edit, a deleted document or a lost
worker).

Fairness of the services (`ServicesFairness` in `MCServices`): a request that has
begun and a worker that is alive go on, a message in the broker is delivered, the
beat scans the outbox, the loops of a stream's worker and a browser that is
connected go on (all weak). Of what `background` runs only safety is checked.
Users, faults and retries by users are never fair.

Fairness of the queue (`Fairness` in `DeepSpaceRuntime`): Celery keeps executing the task it
has started and delivers waiting messages (weak fairness of dispatchers, of
workers' steps that change their pc, of deliveries and of handlers in progress);
the beat is scheduled every five minutes and time passes (weak); a submission
that is tried again and again is not refused every time (strong, for a
dispatcher's job and for the beat's wake); a dead lock expires (weak). No
handler is fair: a user may never come back.

## 4. What the runs show

With patient users and prompt delivery the core holds: two workers are never
on one request nor inside the tool loop of one conversation, order is kept,
a completed turn has a durable frame, a stream ends once,
a pause leaves no turn running, retries do not double, all steps of all processes
together are those of a simple ledger of turns, and a queue that is
not paused drains after any crash. The disagreements between the code and what its own comments
and runbook say (`findings` in `PROJECT.json`):

1. **`early_answer`**. The question is durable before the turn is paused; an
   answer in between goes out under a fresh id and the turn stays paused behind
   it (`chats.py:2768` against the comment at 2795).
2. **`ready_run`**. Recovery tests for `completed`, runs finish as `ready`; a
   finished prompt is put back into the queue.
3. **`reingest`**. A pass that outlives a reingest marks the document indexed,
   and the new job takes that for its own result (`ingestion_service.py:778`):
   the document is indexed and has no chunks.
4. **`tables`**. `index_document` commits at 891 and its next statement, in a
   session that has lost its tenant, matches no row (`dataset_indexing.py:913`);
   the table stays `processing` until somebody asks for its status. The test that
   expects `ready` runs in one outer transaction. For the same reason
   `delete_document` leaves the index row and the derivative of the document
   (`documents.py:3244`).

Six more are described in the model and have no run of their own:

- A browser that subscribes while a frame has been published and is not stored
  yet finds the row in neither source; the next live frame moves its cursor past
  it, and the stream ends without that row (`chats.py:2974` against the comment at
  2963-2965). `RunEventStream` reaches this with one turn and no fault.
- A tick of the document schedules holds its row locks only until the first
  schedule of its list is reserved; a tick that starts meanwhile runs the others
  too (`tasks_classification.py:222-234` against its comment). `OncePerSlot` is
  what the comment says, `OncePerSlotAlone` what the code keeps of it.
- `resolve_approval` (`runtime_store.py:677`) does not refresh the heartbeat. An
  approval decided after half an hour lets the beat expire the run while it
  executes, and the next turn starts beside it; `OneExecutor` holds for
  approvals that come in time.
- A waiting turn that is cancelled is re-opened by recovery ten minutes later
  (`turn_queue.py:1207`), because the run stays `cancelling` and its last frame
  says `awaiting_user`. `TurnLedger` has to admit it: `Reopen` is the only action
  that takes an ended turn back, and nothing but this recovery needs it.
- The beat looks only at stale `running` claims (`tasks_maintenance.py:201`); a
  stale `cancelling` turn without a run waits until somebody opens the queue.
- The worker drops a run-now job because its turn is `queued` (`tasks.py:229`),
  though the runbook offers run-now while the queue is paused.

Seen while modelling and not the subject of a run: a run-now job delivered just
after the dispatcher claimed its turn starts it, and if the dispatcher's own
submission then fails, `release_claim` (`turn_queue.py:969`) re-queues the turn
under the worker (`stop` with `"run_now"` in `Ops` violates
`ExecutedTurnIsActive` so); a stop noticed at
`chat_service.py:9670` returns without a terminal frame, so the worker records a
failure; a run that a retry revives keeps `cancel_requested`; `"event: done" in
frame` (`tasks.py:345`) is a substring test; a run that was paused, resumed and
then expired gets no closing frame because the earlier pause counts as terminal
(`tasks_maintenance.py:145-156`); scheduled prompts bypass the queue
(`schedules.py:50`); a run blocked at its deadline lets recovery fail the turn
while its worker is still finalizing.

Of the streams: after a crash, frames that were shown
may be missing from the log. A page that reloads a resumed stream closes at the
earlier pause (`UpToEnd`). `close()` of the fan-out waits for ever when a frame is put
into the durable queue after its loop has failed and emptied it
(`run_events.py:254-335`); `WatchersSeeAnEnd` exempts this through `full`.

Of the services: what holds does so with the conditions named in each property.
Outside of them the models show that
- the upload handlers write back rows that changed meanwhile, so that a cancelled
  upload may be completed or leave chunks (`Serial`), and a failed upload is
  activated again past the quota (`library.py:1391`);
- chunks stay for good, against "Upload chunks are deleted after completion,
  cancellation, or failure" (`src/backend/docs/library/04-large-library-imports.md:67`),
  when the task of a completion cannot be submitted (`library.py:1398-1403`), and
  when the last to delete them meets an error: `delete_object` only logs what the
  storage refuses, the worker logs any exception of its clean-up and ends
  (`workers/library_uploads.py:242`), and cancelling commits before it deletes
  (`library.py:1425`). No task is left then, and none looks for them (`kept`);
- an original stays without a file when the storage refuses to delete it, and when
  the database refuses what follows it: after an exception between the stored
  object and the commit (`workers/library_uploads.py:163-191`) the task is retried
  with a new file id and the first object is forgotten. No worker need be lost for
  that, which is why `OrphansHaveACause` counts errors too;
- extraction and profile overwrite each other's result in `metadata_json`
  (`workers/library_uploads.py:503`, `:617`);
- a delivery whose sender was lost stays `delivering`: the outbox scan does not
  look for it (`tasks_webhooks.py:245-252`); parallel senders lose increments of
  the failure count;
- a preview marks an item as eligible that was used after it had been selected
  (`storage_lifecycle.py:351-434`), and a scan may archive it: archiving looks for
  active work and pins again, and not for the age of the last activity;
- a purge whose worker is lost stays `processing` and blocks the erasure of the
  account with 409 for good; `mark_enqueue_failed` writes over a purge that runs
  (`misreported`); documents uploaded between the list of objects and the DELETE
  leave their object without a job (`unlisted`).

Of the background work:
- two passes over one document may leave it indexed without embeddings, also
  without a reingest: `ingestion_service.py` commits `chunking` at 889-895 and
  replaces the rows at 964-974 in a session that holds `chunking` already and
  writes no status. A resumed pass that finishes in between has set `indexed`,
  and the document shows it over chunks without embeddings until 997-1002, or
  for good if that worker is lost. `IndexedIsComplete` therefore exempts
  chunks of a pass that ran `beside` another, even if the other has ended;
- an e-mail is sent more than once only after a lost worker, a lease that ended
  under one, or an error that hides an acceptance, as the platform document says;
- a pass that fails after it stored its object deletes it after the commit that
  allows a retry, so that the object of the retry may go, and likewise by a
  cleanup job of the first (`dataset_indexing.py:951-981`): `OnePass` therefore
  says nothing of that last step;
- a tick that has loaded several schedules may run one that was disabled, and one
  that was deleted ends the tick and leaves its run `running`; a run finds every
  document but one for each that is deleted meanwhile (`ScansEverything`).

## 5. Proofs

For every value of the constants, from the assumptions the modules state
(`Anon`, `None`, `Free`, `Dead` are not requests or workers, bounds are
naturals). Each proof has the same shape: an inductive invariant, one lemma per
group of actions, and a temporal step at the end.

### The queue

- `TypeCorrect`: `Spec => []TypeOK`. `TypeOK` alone is not inductive: a worker's
  step writes `worker[w].out` into a run, and a dispatcher's its key into a job,
  so both must be known to be of the right kind. `TypeInv` adds to the types
  `WorkerCarries` (a busy worker has a job, and its outcome fits its pc) and the
  same for dispatchers. One lemma per group of actions follows `Next`.
- `WorkersExclude`: `Spec => []OneWorkerPerKey`, by `LockHeld`: whenever a worker
  is busy, the lock of its key carries that worker. The lock is taken only when
  free, given back only by its holder, and a crash leaves it `Dead`; no other
  step touches it. Exclusion follows because one lock has one value.
- `EndsStamped`: `Spec => []EndsAreStamped`. The property is inductive row by row
  (`Stamped`), relative to `TypeInv`: lemmas say that every operator of
  `TurnQueue` that writes a row, from `CancelledTurn` to recovery, keeps it
  stamped, and one lemma per process lifts this to its steps.

The next nine are about **orderly use**: they assume `OrderlyUse` (in
`DeepSpaceTurnProofs`), which restricts what users do, and nothing about the
number of requests, workers, dispatchers, clients, wakes, crashes, exceptions and
redeliveries. It keeps enqueueing, steering, pausing, resuming, clearing,
cancelling and listing, or instead of everything that cancels, answering
questions. It holds in the runs `faults`, `liveness` and `stop`. What it leaves
out is what breaks one of the nine, each found with TLC:

| Left out | What happens otherwise |
| --- | --- |
| slow delivery, users who answer at once (`PromptDelivery`, `PatientUsers`) | a second job for one claim; an answer beside its turn (run `early_answer`) |
| `run_now` | a job without a claim starts a turn that is queued, or beside an active one |
| `retry` | it relabels a run whose worker, or the beat, still has it in hand |
| `decide`, `approve` | the heartbeat is not refreshed, and the beat expires the run under its worker |
| `answer` together with a cancellation | the answer re-opens a turn that a handler or the beat is about to end |

- `OneActiveTurn`, `OneExecutes`, `ExecutedIsActive`, `AnswersKeepTheirTurn`,
  `EndedRunsHaveEnded` all follow from one invariant, `TurnInv`. `claim_next`
  looks at the active turn and the active run of the conversation in one
  transaction; `OneBusy` says that at most one request has either. That is not
  inductive: recovery re-queues a claimed turn whose run is gone, and a stale
  list of the beat ends runs. So `Core` follows the claim: who still carries it
  (a dispatcher, a job, a worker before its look at the queue: `Carried`) does so
  in time (`CarriedInTime`) and nobody carries a waiting turn (`WaitsAlone`); a
  worker that executes has a claimed turn and a run that is alive (`WorkerFits`);
  a run whose heartbeat aged has nobody left who works on it (`Silent`); and what
  the beat has read is either still so or already ended (`BeatIsRight`).
  `EndedRunsHaveEnded` assumes that nobody cancels (`Uncancelled`): a waiting
  turn that is cancelled leaves its run `cancelling` (section 4).
  Most steps are *calm* (`CalmStep`: they claim and start nothing) or *own* (a
  worker changes the rows of its own request only), and two lemmas cover these;
  the claim, the start, the recovery and the beat are proved one by one.
- `CompletedAreDurable`, `CompletedAreFinal` (an action property) by `Durable`: a
  completed turn has a frame that says so, no active run, and no worker that is
  past its look at the queue; a worker that is about to complete one has written
  the frame. The second half is why a redelivered job cannot re-open it. No run
  lists `CompletedIsFinal`: `KeepsLedger`, in `stop`, says it and more.
- `NobodyOvertakes`, without steering, by `Ordered`: priorities are equal,
  numbers differ, and a busy turn is older than every queued one, so a
  re-queued turn is again the first.
- `RetriesAreSingle`, for any use of the queue, crashes and redeliveries, as long as
  no turn waits for the user (`MaxFrames = 0`): then nothing is left that would
  make a turn wait (`NothingAsked`), ended turns stay ended, and the one look that
  `RetryFailed` takes under its lock is enough.
- `PausingStops`, under `OrderlyUse`, for handlers that do not die and turns that
  do not ask. Under a user pause a turn that runs has a handler that is still on
  its way to stop it (`PauseInv`): only a claim starts a turn, a claim looks at the
  pause, and by `OneBusy` the run that the handler finds under the conversation
  is the one that runs. With a question it fails (TLC, `MaxFrames = 1`): a worker
  that reports one writes `awaiting_user` over `cancelling`.
- `StreamsEndOnce`, under `OrderlyUse` and while no process dies; tasks may fail,
  messages come twice, turns ask, leases expire and claims are recovered. `EndInv`
  says of a stream that has ended why nobody writes to it again (`EndStands`): its
  turn has ended, or its run lost the lease, or the worker that wrote the end is
  still ending the rows (`Finishing`). A run that has lost its lease, or that the
  beat holds as expired, is deserted: no worker, job or dispatcher has it, and its
  turn is not queued, so that nobody will (`Secluded`). With a crash it fails: a worker
  that dies behind its terminal frame leaves a claim that is recovered or delivered
  again, and the second execution writes a second end.

- `LedgerKept` (`DeepSpaceLedgerProofs`): `Spec => KeepsLedger`, the refinement,
  under `OrderlyUse` and without any restriction of crashes, exceptions, expired
  leases, redeliveries or questions. Each action of the runtime is mapped: the
  claim is `Begin`, `ReleaseClaim` and the recovery of a claim without a run
  `Return`, the start of a run `Serve`, whatever takes a worker out of the
  provider loop `Leave`, the statuses written by workers, recovery, cancellation
  and beat `Finish`, and most other steps change nothing of it (`LedgerRests`). That a
  claim may begin, that a returned turn is not executed and that a completed one
  stays follow from `TurnInv` and `Durable`. Two facts are new (`LedgerInv`).
  `Started`: a message that counts as answered, a worker that is past its loop
  and a run the beat holds as expired belong to a request that has been executed;
  otherwise recovery could complete a turn nobody ran. `Lingers`: a run that is
  alive under an ended turn is there because the turn was cancelled; otherwise
  recovery, which reconciles the turn with its run, could re-open a failed one.
  Recovery changes many rows at once and is still one step of the ledger: by
  `OneBusy` at most one request has anything to recover.

### The event stream

- `StreamTypeCorrect`, `EndsDurable`, `NoHolesEver` (`RunEventProofs`): for
  `RunEventStream`. Ends are durable because whoever shows one got it from the log
  or from `live`, and `SubmitLive` puts an end there only after the join; the
  invariant therefore follows an end from the worker's `event` over `live` and
  the inboxes. Holes cannot arise because every append, by whichever process,
  takes the numbers from the latest one on or fails.
- `ContractFollowed` (`RunEventProofs`): `Spec => FollowsContract`, the refinement.
  A batch is a `Progress` because, as long as it is not refused, nobody has
  written behind the base of the turn but its own worker (`Writing`): an error of
  the beat takes the number that the worker will use next, so that the whole rest
  of the turn is refused. A `Begin` is a `Resume` because a turn is due only if
  the last execution that wrote anything paused (`Dues`), which needs that
  later executions write behind earlier ones (`Aged`). Every other step is a
  `Report` or a stutter.

### The services

- `SendersExclude`, `DeliveredStays` (`ServiceProofs`): a posting worker's
  delivery is `delivering` and young, so nobody else may claim it, as long as
  nothing aged it and no administrator queued it again (`HeldSends`).
- `OncePublished`, `ChunksAreDeleted`, from `UploadInv`: a request holds the row
  it has loaded, a finalizer has a task, and while requests do not write over each
  other (`Serial`) an upload that has a file is completed, and one that is settled
  and still has chunks has a request or a task left that deletes them, unless they
  were `kept` by the last deletion or a refused submission (`Kept`). A finalizer
  that takes its object back finds the upload over when it reads the row again,
  so that it does not skip the chunks (`Sees`). The loaded rows must be in the
  invariant, because a handler decides by them and writes them back after storage
  calls.
- `OrphansBounded`: objects that neither a file nor anybody's hand holds are at
  most as many as lost workers and errors together. What leaves one is the loss of a
  finalizer between storing and publishing, a transaction rolled back there, and a
  deletion that the storage refuses, of a discarded object or of a file; each adds
  to the count. This is counting (`OrphanInv`), step by step with the cardinality
  of a set that grows by at most that object.
- `ErasureExcludes`, `NothingOrphaned` (`BackgroundProofs`): from an invariant that
  relates the status of the request to the pcs of its worker and of the eraser,
  and the lists they carry to the rows that exist.
- `OneTokenLives`: a rotation holds the lock of the token that
  it found live, so that no other can retire it or add a successor; with this the
  live tokens are at most one in every step of every transaction, including those
  that a deadlock rolls back.
- `WorkWins`: the property is inductive with the types of the item. Whatever a
  scan or a preview has read, a run makes the item active in its own transaction,
  and archiving looks for runs again under the lock.
- `DuplicatesCaused`: the budget is inductive. What has been accepted, plus the
  workers that have the message in hand unsent, plus one if it is loose in the
  outbox, is at most one more than the faults so far (`Budget`): a claim moves a
  message from the outbox to a hand, an acceptance spends the hand, and only a
  lost worker, a lapsed lease or a hidden acceptance puts one back.
- `SilencedUnsent` (an action property): what is silenced is `suppressed` and in
  nobody's hand (`Silent` of `BackgroundProofs`), and no step leaves that status.
- `IndexedComplete` (`DocumentProofs`): while the chunks are not undermined, a pass
  behind its chunks works on the chunks that are there, and every chunk is either
  left to do or embedded; a checkpoint of the newest job means that there are
  chunks. While a pass runs that has been beside no other, the document is not
  `indexed` (`Alone`), so that replacing its chunks without writing a status is safe.
  It needs that jobs are numbered without holes, so that a new job is the
  newest and nothing else changes which one is.
- `OnePassAtATime`, `NoDerivativeLeft`, for both values of `ContextSurvives`: the
  row says who works (`OneWorks`), and whatever derivative is in storage has
  somebody answerable for it: a row that is ready, the pass that stored it, the
  request that deletes the document, or a cleanup job (`Answerable`). The
  exceptions are the ones that the property names.
- `OncePerSlotWhenAlone`: a tick that has loaded one schedule reserved its slot
  under a lock on what is still the next one, and slots that were run are past
  (`SlotInv`).
- `ScansMissDeletedOnly`: by the rank of a document, newest first (`Rank`). A
  batch with an offset reads the documents of the next ranks; an upload raises
  ranks, so that it repeats and never skips one, and a deletion lowers them by one,
  so that at most one document slips below the offset (`Missed`). That ranks are a
  bijection onto the first numbers is a lemma (`Ranks`), from the library's
  theorems about finite cardinality.

### What stays with the model checker

- `StreamEndsOnce` with crashes, `PauseStopsTheActiveTurn` with questions: both fail
  there (above), and the runs that list them leave these faults out.
- `ServicesTypeOK`, `BackgroundTypeOK`: the proofs carry the types they need in
  their own invariants, most of them weaker than these.
- Everything with fairness (`QueueDrains`, `WatchersSeeAnEnd`, `UploadsSettle`,
  `ExtractionEnds`, `DeliveriesSettle`): liveness is out of the prover's reach, as
  are ENABLED and induction over data. None of the modules needs the latter: the
  folds of the code are sets and cardinalities here.

## 6. Limits of the model

- One conversation. Conversations share workers and the beat only. One stream,
  one session, one document, one webhook, one purge request, one account with
  e-mails, one table.
- The runs and the streams are separate models: `DeepSpaceRuntime` keeps terminal
  frames only, `RunEventStream` has no queue.
- Streams: a live queue that is full, the reconnection of Redis and the text of
  frames are left out; an error frame of the stream itself counts as its `done`.
- The claim's `skip_locked=True` (`turn_queue.py:1376`): no step of the model sees
  a transaction that is under way. A claim that races the uncommitted cancellation
  of the first turn may take the one behind it; the order is wrong only until that
  cancellation commits, and stays so if it aborts.
- Uploads: one fault in a behaviour (the proofs know no bound); a commit whose
  outcome is unknown; a database error while the last failure of a task is
  recorded, which leaves the upload `processing`; an error in the submission of the
  processing of a published file (`workers/library_uploads.py:192`), whose retry
  finds the upload completed. A retry
  replaces its message in one step. The process of a request does not die between
  its steps, except in the deletion of a cancelled upload's chunks.
- Errors of the storage are modelled where this document says so (uploads,
  erasure, table indexes) and nowhere else.
- Documents have distinct times of creation; `list_by_tenant` orders by them with
  no tiebreaker (`documents/repositories/documents.py:160`), and equal ones could
  swap between two batches of a schedule.
- Erasure: redelivered messages, self-service deletion
  (`auth_service.py:749-873`), several requests for one workspace, a crash of an
  upload between object and row.
- Not modelled in the modelled parts: editing a queued prompt, deleting a
  conversation, regeneration, `update_schedule_run`, `record_step`, database
  errors after a terminal frame was written (other than its own append) or
  before the queue row was read.
- The list of expired runs the beat has read names runs by request id and is not
  followed when a retry relabels a run in between.
- `Continue` submits under `Anon` whatever the id of the HTTP request is; two
  such resumes at once share it.
- A recovered queue is announced to the browser in the code; these events are
  left out with all frames that are not terminal.

## 7. Not modelled, and what could come next

Not modelled, with the reason for each in `PROJECT.json`: deletion of
conversations and scheduled prompts (they bypass the protocol above rather than
take part in it), tools, context and memory (their outcome is a nondeterministic
choice in the worker), pure functions of one request (runtime policy, execution
batches, context budgets), query answering, document CRUD and search, support tickets, collections,
connectors, providers, realtime, analytics and the clients. Most of the
repository's lines are of these kinds, which is why the share of lines that the
map names stays small.

Next, where the effort would pay: `OneActiveTurn` with retries and approvals that
come in time, which needs the relabelled run in the invariant; conversation
deletion and schedules as further actions of `DeepSpaceRuntime`;
idempotency keys and the provider circuit.
