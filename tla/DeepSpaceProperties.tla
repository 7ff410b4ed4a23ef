-------------------------- MODULE DeepSpaceProperties --------------------------
(***************************************************************************)
(* What one DeepSpace conversation must never do, and what it must do in   *)
(* the end, whatever the interleaving of clients, dispatchers, workers and *)
(* the maintenance beat.                                                   *)
(***************************************************************************)
EXTENDS DeepSpaceRuntime

Active == InStatus(ActiveQueueStatuses)
Ended == InStatus(TerminalQueueStatuses)
-----------------------------------------------------------------------------
(* The queue. *)

\* Never two active turns: "A user has one active turn per conversation"
\* (claim_next).  The check and the claim are one commit, but a resume, a
\* worker's last write and recovery each make a turn active without it.
AtMostOneActiveTurn == \A r, q \in Active : r = q

\* Never two workers inside the provider and tool loop of one conversation,
\* whatever happened to the rows that were to prevent it.
OneExecutor == \A w, v \in Workers : ExecutesRun(w) /\ ExecutesRun(v) => w = v

\* Never two workers on one request id: the Redis lock holds against Celery
\* redelivery, and after a crash until the key expires.
OneWorkerPerKey ==
    \A w, v \in Workers : /\ worker[w].pc # "idle" /\ worker[v].pc # "idle"
                          /\ Key(w) = Key(v)
                          => w = v

\* A turn whose run a worker executes is active in the queue: recovery never
\* re-queues or ends a turn because its provider takes long, and a cancellation
\* leaves it `cancelling` until the worker reports.
ExecutedTurnIsActive == \A w \in Workers : ExecutesRun(w) /\ Key(w) \in Requests => Key(w) \in Active

\* FIFO: a turn of the same priority never waits behind a later one that is
\* active, also when recovery has put the earlier one back into the queue.
NoOvertaking ==
    \A r \in Active, q \in InStatus({"queued"}) :
        turn[q].priority = turn[r].priority => turn[r].sequence < turn[q].sequence

\* completed_at is set exactly on ended turns; recovery of abandoned runs reads
\* it, and a re-opened turn that kept it would be taken for an old one.
EndsAreStamped == \A r \in Requests : r \in Ended <=> turn[r].completed # "null"

\* A failed turn has at most one retry pending or active.
OneLiveRetry == \A c, d \in InStatus(QueueableStatuses) :
                    turn[c].parent = turn[d].parent /\ turn[c].parent # None => c = d

\* Once pause_queue has returned, an active turn is one that is being stopped:
\* no claim slips in between the pause and the stop.
PauseStopsTheActiveTurn ==
    /\ control = "user_pause"
    /\ \A c \in Clients : api[c].pc \notin {"pause_marker", "pause_runs", "pause_turn"}
    => \A r \in Active : turn[r].status = "cancelling"
-----------------------------------------------------------------------------
(* The queue, the run and the stream together. *)

\* A turn is completed only on a durable `done` frame that says so.
CompletedIsDurable == \A r \in InStatus({"completed"}) :
                          HasTerminalFrame(r) /\ LastFrame(r) \in {"ready", "blocked"}

\* When a turn has ended and no worker is left on it, its run has ended too: an
\* active run under an ended turn keeps claim_next from every later turn.
EndedRunsEnd == \A r \in Ended : (\A w \in Workers : Key(w) # r) => run[r].status \notin ActiveRunStatuses

\* A stream reports one end: every terminal frame before the last one was a
\* question or an approval that the user then resolved.
StreamEndsOnce == \A k \in Keys : \A i \in 1..Len(frames[k]) :
                      i # Len(frames[k]) => frames[k][i] \in PausedQueueStatuses

\* An answer or an approval continues under the request id of the turn that
\* asked: "Keep the paused turn's stream key and queue slot" (api/chats.py).
ResumesKeepTheirTurn == \A job \in jobs : job.kind # "turn" => job.key = job.target
-----------------------------------------------------------------------------
(* Steps. *)

\* A completed turn stays completed, whatever recovery, a late cancellation or a
\* second delivery does. What KeepsLedger, below, implies of one stage; on its own
\* for the theorem that rests on less.
CompletedIsFinal ==
    [][\A r \in InStatus({"completed"}) : turn'[r].status = "completed"]_vars

\* "If a worker did start and completed before the process died in its final
\* queue update, preserve that durable outcome" (recover_stale_claims).
DurableOutcomeIsPreserved ==
    [][\A r \in Active : run[r].status = "ready" => turn'[r].status # "queued"]_vars
-----------------------------------------------------------------------------
(* What the queue promises to its users, whoever works on it. *)

\* How TurnLedger is read off the rows and the workers.
Stage == [r \in Requests |-> IF r \in Active THEN "active" ELSE turn[r].status]
Priorities == [r \in Requests |-> turn[r].priority]
Places == [r \in Requests |-> turn[r].sequence]
Serving == {Key(w) : w \in {v \in Workers : ExecutesRun(v)}}
Served == {r \in Requests : run[r].status # "none"}

Ledger == INSTANCE TurnLedger WITH
    Capacity <- MaxTurns,
    stage    <- Stage,
    priority <- Priorities,
    place    <- Places,
    held     <- Paused,
    serving  <- Serving,
    served   <- Served

\* The processes of a conversation together implement the ledger, as long as its
\* queue is used in an orderly way: no client skips the claim, retries a turn
\* under its worker, decides on an approval, or answers a turn that is cancelled.
KeepsLedger == Ledger!Spec
-----------------------------------------------------------------------------
(* Eventually. *)

\* Unless the user pauses it, the queue always drains again: no crash, lost
\* dispatch or stale lock leaves a turn queued or active for ever.
QueueDrains == []<>(InStatus(QueueableStatuses) = {} \/ control = "user_pause")
=============================================================================
