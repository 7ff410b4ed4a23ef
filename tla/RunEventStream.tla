--------------------------- MODULE RunEventStream ---------------------------
(***************************************************************************)
(* The event stream of one DeepSpace request: the worker's fan-out with    *)
(* its durable and its live queue (AsyncRunEventFanout), the error frame   *)
(* that append_event adds for a worker that failed or is gone, and the     *)
(* browsers that read the stream (iterator of the SSE endpoint): replay    *)
(* from PostgreSQL, live frames from Redis, gap checks in between.         *)
(***************************************************************************)
EXTENDS Integers, Sequences, FiniteSets

CONSTANTS
    Readers,        \* browser connections
    MaxTurns,       \* bound on executions of the request: the first and its resumptions
    MaxDeltas,      \* bound on the frames a turn sends before its end
    QueueSize,      \* _QUEUE_SIZE
    BatchSize,      \* _MAX_BATCH_SIZE
    MaxLosses,      \* bound on the live frames Redis drops
    MaxCrashes,     \* bound on worker crashes
    MaxLapses,      \* bound on the leases that expire under a live worker
    MaxOpens,       \* bound on (re)connections of one browser
    QuotaFills      \* TRUE: the tenant may run out of storage

ASSUME BoundsAssumption == /\ {QueueSize, BatchSize, MaxTurns} \subseteq Nat \ {0}
                           /\ {MaxDeltas, MaxLosses, MaxCrashes, MaxLapses, MaxOpens} \subseteq Nat
                           /\ QuotaFills \in BOOLEAN
                           /\ IsFiniteSet(Readers)

VARIABLES
    log,            \* rows of deepspace_run_events: [seq, kind, by]
    worker,         \* run_deepspace_task around the fan-out
    durable, batch, \* _durable_queue; the events _persist_loop has taken
    failed,         \* _durable_error is set: the loop has ended
    live,           \* _live_queue
    turn,           \* how many executions began, whether one more is due, and the
                    \* initial_sequence of the last one
    beat,           \* the process that closes streams of expired leases
    reader,         \* per browser: where it is and what it has shown
    full,           \* ensure_capacity refuses every append from now on
    faults          \* how often each bounded fault happened

vars == <<log, worker, durable, batch, failed, live, turn, beat, reader, full, faults>>
FanoutVars == <<worker, durable, batch, failed, live>>

\* `done` frames report an end or a pause; `error` frames are those that
\* append_event adds.  (An error frame of the stream itself is treated like done.)
Pauses == {"pause"}
Ends == {"pause", "done", "error"}
Frames == {"delta"} \cup Ends

\* The greatest number of some rows.
LastSeq(rows, otherwise) ==
    LET top == {e.seq : e \in {d \in rows : \A f \in rows : f.seq <= d.seq}}
    IN  IF top = {} THEN otherwise ELSE CHOOSE n \in top : TRUE

Latest == LastSeq(log, 0)       \* latest_sequence
HasEnd == \E e \in log : e.kind \in Ends
Paused == \E e \in log : e.seq = Latest /\ e.kind \in Pauses
-----------------------------------------------------------------------------
WorkerPcs == {"idle", "run", "put", "join", "publish", "close", "report", "report_commit", "crashed"}
ReaderPcs == {"off", "replay", "live", "closed"}

NoEvent == [seq |-> 0, kind |-> "delta", by |-> 0]
IdleWorker == [pc |-> "idle", next |-> 0, event |-> NoEvent, ended |-> FALSE]
ClosedReader == [pc |-> "off", start |-> 0, cursor |-> 0, inbox |-> <<>>, seen |-> {}, opens |-> 0]

Rows == [seq : Nat, kind : Frames, by : 0..MaxTurns]

TypeOK ==
    /\ log \subseteq Rows
    /\ worker \in [pc : WorkerPcs, next : Nat, event : Rows, ended : BOOLEAN]
    /\ durable \in Seq(Rows) /\ Len(durable) <= QueueSize
    /\ batch \in Seq(Rows) /\ Len(batch) <= BatchSize
    /\ live \in Seq(Rows) /\ Len(live) <= QueueSize
    /\ failed \in BOOLEAN /\ full \in BOOLEAN
    /\ turn \in [began : 0..MaxTurns, due : BOOLEAN, base : Nat, deltas : 0..MaxDeltas]
    /\ beat \in [pc : {"idle", "latest", "commit"}, seq : Nat]
    /\ reader \in [Readers -> [pc : ReaderPcs, start : Nat, cursor : Nat, inbox : Seq(Rows),
                               seen : SUBSET Rows, opens : 0..MaxOpens]]
    /\ faults \in [losses : 0..MaxLosses, crashes : 0..MaxCrashes, lapses : 0..MaxLapses]

Init ==
    /\ log = {}
    /\ worker = IdleWorker
    /\ durable = <<>> /\ batch = <<>> /\ live = <<>> /\ failed = FALSE
    /\ turn = [began |-> 0, due |-> TRUE, base |-> 0, deltas |-> 0]
    /\ beat = [pc |-> "idle", seq |-> 0]
    /\ reader = [r \in Readers |-> ClosedReader]
    /\ full = FALSE
    /\ faults = [losses |-> 0, crashes |-> 0, lapses |-> 0]
-----------------------------------------------------------------------------
(* The worker and its fan-out. *)

\* The first frame creates the fan-out, which continues after the latest row.
Begin ==
    /\ worker.pc = "idle" /\ turn.due
    /\ worker' = [IdleWorker EXCEPT !.pc = "run", !.next = Latest + 1]
    /\ failed' = FALSE
    /\ turn' = [began |-> turn.began + 1, due |-> FALSE, base |-> Latest, deltas |-> 0]
    /\ UNCHANGED <<log, durable, batch, live, beat, reader, full, faults>>

\* Mutation: an end does not wait.
AfterPutAtOnce(event) == IF failed THEN "close" ELSE "publish"

\* After the put, submit looks for an error again; an end waits until everything
\* is durable, any other frame goes on to the live queue at once.
AfterPut(event) == IF failed THEN "close"
                   ELSE IF event.kind \in Ends THEN "join" ELSE "publish"

\* Mutation: one more than the queue holds.
RoomForOneMore(queue) == Len(queue) <= QueueSize
Room(queue) == Len(queue) < QueueSize

\* submit: number the frame and put it on the durable queue, or wait for room.
Submit(kind) ==
    /\ worker.pc = "run" /\ ~failed
    /\ kind = "delta" => turn.deltas < MaxDeltas
    /\ turn' = IF kind = "delta" THEN [turn EXCEPT !.deltas = @ + 1] ELSE turn
    /\ LET event == [seq |-> worker.next, kind |-> kind, by |-> turn.began]
       IN  /\ durable' = IF Room(durable) THEN Append(durable, event) ELSE durable
           /\ worker' = [worker EXCEPT !.pc = IF Room(durable) THEN AfterPut(event) ELSE "put",
                                       !.next = @ + 1, !.event = event]
    /\ UNCHANGED <<log, batch, failed, live, beat, reader, full, faults>>

\* A put that waited is woken when an event leaves the queue, the draining of a
\* failed loop included.
PutWakes ==
    /\ worker.pc = "put" /\ Room(durable)
    /\ durable' = Append(durable, worker.event)
    /\ worker' = [worker EXCEPT !.pc = AfterPut(worker.event)]
    /\ UNCHANGED <<log, batch, failed, live, turn, beat, reader, full, faults>>

Drained == durable = <<>> /\ batch = <<>>       \* _durable_queue.join() returns

EndIsDurable ==
    /\ worker.pc = "join" /\ Drained
    /\ worker' = [worker EXCEPT !.pc = IF failed THEN "close" ELSE "publish"]
    /\ UNCHANGED <<log, durable, batch, failed, live, turn, beat, reader, full, faults>>

\* The frame joins the live queue.  After an end the stream is exhausted and the
\* fan-out closed.
SubmitLive ==
    /\ worker.pc = "publish" /\ Room(live)
    /\ live' = Append(live, worker.event)
    /\ LET ended == worker.event.kind \in Ends
       IN  worker' = [worker EXCEPT !.pc = IF ended THEN "close" ELSE "run", !.ended = ended]
    /\ UNCHANGED <<log, durable, batch, failed, turn, beat, reader, full, faults>>

\* The stream breaks off without an end, or submit finds the loop dead.
StreamStops ==
    /\ worker.pc = "run"
    /\ worker' = [worker EXCEPT !.pc = "close"]
    /\ UNCHANGED <<log, durable, batch, failed, live, turn, beat, reader, full, faults>>

\* close: both queues are drained; a failed loop or a missing end is reported.
Close ==
    /\ worker.pc = "close" /\ Drained /\ live = <<>>
    /\ worker' = IF worker.ended /\ ~failed THEN IdleWorker
                 ELSE [worker EXCEPT !.pc = "report"]
    /\ UNCHANGED <<log, durable, batch, failed, live, turn, beat, reader, full, faults>>

\* _persist_loop collects a batch ...
Collect ==
    /\ ~failed /\ durable # <<>> /\ Len(batch) < BatchSize
    /\ batch' = Append(batch, Head(durable))
    /\ durable' = Tail(durable)
    /\ UNCHANGED <<log, worker, failed, live, turn, beat, reader, full, faults>>

Events(s) == {s[i] : i \in DOMAIN s}

\* ... and inserts it in one transaction, which the storage quota or the unique
\* (request, sequence) may refuse.
\* Mutation: without the unique constraint.
RefusedByQuota(rows) == full
Refused(rows) == full \/ \E e \in rows, d \in log : e.seq = d.seq

Persist ==
    /\ ~failed /\ batch # <<>>
    /\ ~Refused(Events(batch))
    /\ log' = log \cup Events(batch)
    /\ batch' = <<>>
    /\ UNCHANGED <<worker, durable, failed, live, turn, beat, reader, full, faults>>

\* Mutation: the loop goes on with the next batch.
PersistGoesOn ==
    /\ ~failed /\ batch # <<>>
    /\ Refused(Events(batch))
    /\ batch' = <<>>
    /\ UNCHANGED <<log, worker, durable, failed, live, turn, beat, reader, full, faults>>

\* The error ends the loop, which drops what the queue holds.
PersistFails ==
    /\ ~failed /\ batch # <<>>
    /\ Refused(Events(batch))
    /\ failed' = TRUE
    /\ batch' = <<>> /\ durable' = <<>>
    /\ UNCHANGED <<log, worker, live, turn, beat, reader, full, faults>>
-----------------------------------------------------------------------------
(* Redis: a published frame reaches the browsers that are subscribed. *)

Subscribed == {r \in Readers : reader[r].pc \in {"replay", "live"}}

Published(event, to) ==
    /\ faults' = [faults EXCEPT !.losses = @ + Cardinality(Subscribed \ to)]
    /\ faults'.losses <= MaxLosses
    /\ reader' = [r \in Readers |-> IF r \in to THEN [reader[r] EXCEPT !.inbox = Append(@, event)]
                                                ELSE reader[r]]

\* _publish_loop
Publish ==
    /\ live # <<>>
    /\ live' = Tail(live)
    /\ \E to \in SUBSET Subscribed : Published(Head(live), to)
    /\ UNCHANGED <<log, worker, durable, batch, failed, turn, beat, full>>

\* append_event: read the latest number in one statement, insert in the next;
\* published only when committed.
ErrorRow(seq, by) == [seq |-> seq, kind |-> "error", by |-> by]

AppendError(row) ==
    IF Refused({row})
    THEN UNCHANGED <<log, reader, faults>>
    ELSE /\ log' = log \cup {row}
         /\ \E to \in SUBSET Subscribed : Published(row, to)

ReportReads ==
    /\ worker.pc = "report"
    /\ worker' = [worker EXCEPT !.pc = "report_commit", !.next = Latest + 1]
    /\ UNCHANGED <<log, durable, batch, failed, live, turn, beat, reader, full, faults>>

ReportCommits ==
    /\ worker.pc = "report_commit"
    /\ AppendError(ErrorRow(worker.next, turn.began))
    /\ worker' = IdleWorker
    /\ UNCHANGED <<durable, batch, failed, live, turn, beat, full>>

\* maintenance_heartbeat and _close_expired_stream: the stream of an expired
\* lease is closed unless it has an end already.
LeaseExpires ==
    /\ beat.pc = "idle"
    /\ ~HasEnd
    /\ \/ worker.pc = "crashed" /\ UNCHANGED faults
       \/ /\ worker.pc \notin {"idle", "crashed"} /\ faults.lapses < MaxLapses
          /\ faults' = [faults EXCEPT !.lapses = @ + 1]
    /\ beat' = [beat EXCEPT !.pc = "latest"]
    /\ UNCHANGED <<log, FanoutVars, turn, reader, full>>

BeatReads ==
    /\ beat.pc = "latest"
    /\ beat' = [pc |-> "commit", seq |-> Latest + 1]
    /\ UNCHANGED <<log, FanoutVars, turn, reader, full, faults>>

BeatCommits ==
    /\ beat.pc = "commit"
    /\ AppendError(ErrorRow(beat.seq, 0))
    /\ beat' = [pc |-> "idle", seq |-> 0]
    /\ UNCHANGED <<FanoutVars, turn, full>>
-----------------------------------------------------------------------------
(* Browsers. *)

\* A page that opens or reloads reads the stream from its beginning: the client
\* sends no after_sequence.  The subscription precedes the first replay.
Subscribe(r, cursor) ==
    reader' = [reader EXCEPT ![r] = [ClosedReader EXCEPT !.pc = "replay", !.start = cursor,
                                         !.cursor = cursor, !.opens = reader[r].opens + 1]]

Open(r) ==
    /\ reader[r].opens < MaxOpens
    /\ Subscribe(r, 0)
    /\ UNCHANGED <<log, FanoutVars, turn, beat, full, faults>>

\* Answering a question, or deciding an approval, of a turn that is paused resumes
\* it and subscribes behind the pause.
Answer(r) ==
    /\ worker.pc = "idle" /\ ~turn.due /\ turn.began < MaxTurns /\ Paused
    /\ reader[r].opens < MaxOpens
    /\ turn' = [turn EXCEPT !.due = TRUE]
    /\ Subscribe(r, Latest)
    /\ UNCHANGED <<log, FanoutVars, beat, full, faults>>

\* read_replay, and every row up to the first end.
UpToEnd(rows) == {e \in rows : \A d \in rows : d.kind \in Ends => e.seq <= d.seq}

Replayed(r) == UpToEnd({e \in log : e.seq > reader[r].cursor})

Shows(r, rows) ==
    [reader[r] EXCEPT !.seen = @ \cup rows,
                      !.cursor = LastSeq(rows, @),
                      !.pc = IF \E e \in rows : e.kind \in Ends THEN "closed" ELSE "live",
                      !.inbox = IF \E e \in rows : e.kind \in Ends THEN <<>> ELSE @]

\* Mutation: only the first replay.
PollsOnce(r) == reader[r].pc = "replay"
Polls(r) == reader[r].pc \in {"replay", "live"}

\* The first replay, and the gap check that runs at most once a second.
Replay(r) ==
    /\ Polls(r)
    /\ reader' = [reader EXCEPT ![r] = Shows(r, Replayed(r))]
    /\ UNCHANGED <<log, FanoutVars, turn, beat, full, faults>>

\* A live frame is shown unless it was shown before; before an end the rows that
\* are missing are replayed.
Receive(r) ==
    /\ reader[r].pc = "live" /\ reader[r].inbox # <<>>
    /\ LET event  == Head(reader[r].inbox)
           gap    == IF event.kind \in Ends THEN Replayed(r) ELSE {}
           rows   == IF \E e \in gap : e.kind \in Ends THEN gap ELSE gap \cup {event}
           rest   == [reader[r] EXCEPT !.inbox = Tail(@)]
           shown  == Shows(r, rows)
       IN  reader' = [reader EXCEPT ![r] =
               IF event.seq <= reader[r].cursor THEN rest
               ELSE [shown EXCEPT !.inbox = IF shown.pc = "closed" THEN <<>> ELSE Tail(@)]]
    /\ UNCHANGED <<log, FanoutVars, turn, beat, full, faults>>
-----------------------------------------------------------------------------
(* Faults. *)

\* A crash loses what the two queues hold.
Crash ==
    /\ worker.pc \notin {"idle", "crashed"} /\ faults.crashes < MaxCrashes
    /\ faults' = [faults EXCEPT !.crashes = @ + 1]
    /\ worker' = [IdleWorker EXCEPT !.pc = "crashed"]
    /\ durable' = <<>> /\ batch' = <<>> /\ live' = <<>> /\ failed' = FALSE
    /\ UNCHANGED <<log, turn, beat, reader, full>>

QuotaReached ==
    /\ QuotaFills /\ ~full
    /\ full' = TRUE
    /\ UNCHANGED <<log, FanoutVars, turn, beat, reader, faults>>

Work == \/ Begin \/ PutWakes \/ EndIsDurable \/ SubmitLive \/ Close
        \/ Collect \/ Persist \/ PersistFails \/ Publish \/ ReportReads \/ ReportCommits
        \/ \E kind \in Frames \ {"error"} : Submit(kind)
        \/ StreamStops

Beat == LeaseExpires \/ BeatReads \/ BeatCommits

Next ==
    \/ Work
    \/ Beat
    \/ \E r \in Readers : Open(r) \/ Answer(r) \/ Replay(r) \/ Receive(r)
    \/ Crash \/ QuotaReached

Spec == Init /\ [][Next]_vars

(* Fairness.  The coroutines of the fan-out, the beat and the loop of every     *)
(* browser keep running, and a due turn is executed; nobody has to open a page, *)
(* to answer or to fail.                                                        *)
Fairness ==
    /\ WF_vars(Work)
    /\ WF_vars(Collect) /\ WF_vars(Persist) /\ WF_vars(PersistFails) /\ WF_vars(Publish)
    /\ WF_vars(Beat)
    /\ \A r \in Readers : WF_vars(Replay(r)) /\ WF_vars(Receive(r))

FairSpec == Spec /\ Fairness
=============================================================================
