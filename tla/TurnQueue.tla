------------------------------ MODULE TurnQueue -----------------------------
(***************************************************************************)
(* The durable turn queue of one DeepSpace conversation: the rows of       *)
(* deepspace_queued_turns and the row of deepspace_queue_controls, with    *)
(* one operator per transaction of DeepSpaceTurnQueueStore.  A transaction *)
(* locks the conversation or the rows it changes and commits before it     *)
(* returns, so each is one step; a method that commits twice is two.       *)
(***************************************************************************)
EXTENDS RunStore

CONSTANTS
    None,       \* no request: the parent of a turn that retries nothing
    MaxTurns    \* MAX_TURNS_PER_CONVERSATION

ASSUME NoneAssumption == None \notin Requests /\ None # Anon
ASSUME MaxTurnsAssumption == MaxTurns \in Nat \ {0}

VARIABLES
    turn,       \* turn[r]: the queue row of request r
    control     \* "open", "user_pause", or "failure_pause" (written by older releases)

ActiveQueueStatuses == {"running", "cancelling", "awaiting_user", "awaiting_approval"}
PausedQueueStatuses == {"awaiting_user", "awaiting_approval"}
QueueableStatuses == ActiveQueueStatuses \cup {"queued"}
TerminalQueueStatuses == {"completed", "cancelled", "failed"}
QueueStatuses == QueueableStatuses \cup TerminalQueueStatuses

\* Age of started_at and completed_at against STALE_DISPATCH_AFTER.
Stamps == {"null", "fresh", "stale"}

TurnRows == [status    : QueueStatuses \cup {"absent"},
             priority  : Nat,
             sequence  : Nat,
             started   : Stamps,
             completed : Stamps,
             parent    : Requests \cup {None}]

NoTurn == [status |-> "absent", priority |-> 0, sequence |-> 0,
           started |-> "null", completed |-> "null", parent |-> None]

ControlStates == {"open", "user_pause", "failure_pause"}

TurnTypeOK == /\ turn \in [Requests -> TurnRows]
              /\ control \in ControlStates

TurnInit == /\ turn = [r \in Requests |-> NoTurn]
            /\ control \in ControlStates      \* a pause may be older than the turns

StoreVars == <<run, frames, turn, control>>

InStatus(S) == {r \in Requests : turn[r].status \in S}
HasRow(r) == turn[r].status # "absent"
Paused == control # "open"
-----------------------------------------------------------------------------
(* Adding work. *)

Room == Cardinality(InStatus(QueueableStatuses)) < MaxTurns

\* A new row is numbered one above the highest sequence (an absent row counts 0).
NewTurn(priority, parent) ==
    {[NoTurn EXCEPT !.status = "queued", !.priority = priority,
                    !.sequence = turn[top].sequence + 1, !.parent = parent] :
        top \in {t \in Requests : \A q \in Requests : turn[q].sequence <= turn[t].sequence}}

\* A request id that already has a row returns that row and changes nothing.
Enqueue(r, steer) ==
    /\ turn[r].status = "absent"
    /\ Room
    /\ \E row \in NewTurn(IF steer THEN 1 ELSE 0, None) : turn' = [turn EXCEPT ![r] = row]
    /\ UNCHANGED <<run, frames, control>>

\* Mutation: an earlier retry is not looked for.
RetryForgotten(failed) == FALSE
RetryPending(failed) ==
    \E c \in Requests : /\ turn[c].parent = failed
                        /\ turn[c].status \in QueueableStatuses \cup {"completed"}

\* A retry is one new row linked to the failed one, unless an earlier retry is
\* still pending or already succeeded.
RetryFailed(failed, r) ==
    /\ turn[failed].status = "failed"
    /\ turn[r].status = "absent"
    /\ ~RetryPending(failed)
    /\ Room
    /\ \E row \in NewTurn(turn[failed].priority + 1, failed) : turn' = [turn EXCEPT ![r] = row]
    /\ UNCHANGED <<run, frames, control>>

\* promote puts a queued turn above every queued priority.
Promote(r) ==
    /\ turn[r].status = "queued"
    /\ \E top \in InStatus({"queued"}) :
         /\ \A q \in InStatus({"queued"}) : turn[q].priority <= turn[top].priority
         /\ turn' = [turn EXCEPT ![r].priority = turn[top].priority + 1]
    /\ UNCHANGED <<run, frames, control>>
-----------------------------------------------------------------------------
(* Pausing and cancelling. *)

Pause == control' = "user_pause" /\ UNCHANGED <<run, frames, turn>>

Resume == control' = "open" /\ UNCHANGED <<run, frames, turn>>

\* Only a pause that names a failed request is lifted without the user.
ResumeAfterFailure ==
    /\ control' = IF control = "failure_pause" THEN "open" ELSE control
    /\ UNCHANGED <<run, frames, turn>>

\* Mutation: completed_at is forgotten.
CancelledUnstamped(row) == [row EXCEPT !.status = "cancelled"]
CancelledTurn(row) == [row EXCEPT !.status = "cancelled", !.completed = "fresh"]

\* Mutations: a turn under a worker is ended at once; an ended turn is not left alone.
CancelledAtOnce(row) == IF row.status \in QueueableStatuses THEN CancelledTurn(row) ELSE row
CancelledAgain(row) == [row EXCEPT !.status = "cancelling"]

\* request_cancel and request_cancel_by_request_id: work nobody executes ends
\* at once, work a worker may hold becomes `cancelling`.
CancelRequestedTurn(row) ==
    IF row.status \in {"queued"} \cup PausedQueueStatuses THEN CancelledTurn(row)
    ELSE IF row.status \in QueueableStatuses THEN [row EXCEPT !.status = "cancelling"]
    ELSE row

\* clear_for_conversation leaves every active turn, paused ones too, `cancelling`.
ClearedTurn(row) ==
    CASE row.status \in ActiveQueueStatuses -> [row EXCEPT !.status = "cancelling"]
      [] row.status \in {"queued", "failed"} -> CancelledTurn(row)
      [] OTHER -> row
-----------------------------------------------------------------------------
(* Claiming, releasing and finishing. *)

\* Mutation: ORDER BY priority DESC, sequence DESC
LatestFirst(r, q) == \/ turn[r].priority > turn[q].priority
                     \/ /\ turn[r].priority = turn[q].priority
                        /\ turn[r].sequence >= turn[q].sequence

\* ORDER BY priority DESC, sequence ASC
RunsBefore(r, q) ==
    \/ turn[r].priority > turn[q].priority
    \/ /\ turn[r].priority = turn[q].priority
       /\ turn[r].sequence <= turn[q].sequence

FirstQueued(r) == /\ turn[r].status = "queued"
                  /\ \A q \in InStatus({"queued"}) : RunsBefore(r, q)

\* Mutations: a paused queue is claimed from, or one with an active turn.
ClaimableInPause(r) == InStatus(ActiveQueueStatuses) = {} /\ ~RunIsActive /\ FirstQueued(r)
ClaimableDuringTurn(r) == ~Paused /\ ~RunIsActive /\ FirstQueued(r)

Claimable(r) == /\ ~Paused
                /\ InStatus(ActiveQueueStatuses) = {}
                /\ ~RunIsActive
                /\ FirstQueued(r)

Claim(r) ==
    /\ Claimable(r)
    /\ turn' = [turn EXCEPT ![r].status = "running", ![r].started = "fresh"]
    /\ UNCHANGED <<run, frames, control>>

Requeued(row) == [row EXCEPT !.status = "queued", !.started = "null"]

ReleaseClaim(r) ==
    /\ turn' = [turn EXCEPT ![r] = IF @.status = "running" THEN Requeued(@) ELSE @]
    /\ UNCHANGED <<run, frames, control>>

\* The paused turn an answer or an approval resumes; its started_at is kept.
\* Mutation: only questions are thought of.
FirstQuestion == {r \in InStatus({"awaiting_user"}) :
                    \A q \in InStatus({"awaiting_user"}) : turn[r].sequence <= turn[q].sequence}
FirstPaused == {r \in InStatus(PausedQueueStatuses) :
                  \A q \in InStatus(PausedQueueStatuses) : turn[r].sequence <= turn[q].sequence}
Resumed(row) == [row EXCEPT !.status = "running"]

\* finish maps an unknown status to failed and overwrites the row.
FinishStatus(status) ==
    IF status \in TerminalQueueStatuses \cup PausedQueueStatuses THEN status ELSE "failed"
FinishedTurn(row, status) ==
    [row EXCEPT !.status = FinishStatus(status),
                !.completed = IF FinishStatus(status) \in TerminalQueueStatuses
                              THEN "fresh" ELSE "null"]
-----------------------------------------------------------------------------
(* recover_stale_claims: two transactions, each followed by                *)
(* _close_expired_worker_stream, which commits the message and then        *)
(* appends a terminal event.  Either may not happen (a database error, a   *)
(* failed append): closing says how far it came.                           *)

Closings == {"nothing", "message", "stream"}

\* Runs that still look alive although their turn ended ten minutes ago.
Orphaned(r) ==
    /\ run[r].status \in WorkerRunStatuses
    /\ run[r].beat \in OlderThanTen
    /\ run[r].msg # "absent"
    /\ turn[r].status \in TerminalQueueStatuses
    /\ turn[r].completed = "stale"

\* The outcome recovery gives an orphan: what its last terminal frame reports,
\* or without one what the cancellation flag and the turn say.
OrphanOutcome(r) ==
    IF HasTerminalFrame(r) THEN (IF LastFrame(r) = "error" THEN "failed" ELSE LastFrame(r))
    ELSE IF run[r].cancel \/ turn[r].status = "cancelled" THEN "cancelled" ELSE "failed"

TurnOutcome(status) ==
    CASE status \in {"failed", "blocked"} -> "failed"
      [] status = "ready" -> "completed"
      [] OTHER -> status

ReconciledRun(r, closing) ==
    [FinishedRun(run[r], OrphanOutcome(r)) EXCEPT
        !.lease = IF HasTerminalFrame(r) THEN @ ELSE TRUE,
        !.msg = IF HasTerminalFrame(r) \/ closing # "nothing" THEN ClosedMessage(@, OrphanOutcome(r)) ELSE @]

CloseFrame(status) == IF status = "cancelled" THEN "cancelled" ELSE "error"

RecoverTerminalRuns(closing) ==
    LET orphans == {r \in Requests : Orphaned(r)}
    IN  /\ run' = [r \in Requests |-> IF r \in orphans THEN ReconciledRun(r, closing) ELSE run[r]]
        /\ turn' = [r \in Requests |->
                      IF r \in orphans
                      THEN FinishedTurn(turn[r], TurnOutcome(OrphanOutcome(r))) ELSE turn[r]]
        /\ frames' = [k \in Keys |->
                        IF k \in orphans /\ ~HasTerminalFrame(k) /\ closing = "stream"
                        THEN <<CloseFrame(OrphanOutcome(k))>> ELSE frames[k]]
        /\ UNCHANGED control

\* Mutation: only interrupted cancellations are recovered.
StaleCancellations == {r \in InStatus({"cancelling"}) : turn[r].started = "stale"}
StaleClaims == {r \in InStatus({"running", "cancelling"}) : turn[r].started = "stale"}

\* Mutation: a blocked run is taken for a completed one.
BlockedCompletes(r) ==
    CASE run[r].status = "failed" -> FinishedTurn(turn[r], "failed")
      [] run[r].status = "blocked" -> FinishedTurn(turn[r], "completed")
      [] run[r].status = "cancelled" -> FinishedTurn(turn[r], "cancelled")
      [] OTHER -> Requeued(turn[r])

RecoveredTurn(r) ==
    CASE run[r].status \in {"failed", "blocked"} -> FinishedTurn(turn[r], "failed")
      [] run[r].status \in {"completed", "cancelled"} -> FinishedTurn(turn[r], run[r].status)
      [] OTHER -> Requeued(turn[r])

\* A recovered claim whose run the lease expiry ended still owes its stream an end.
OwesTerminalFrame(r) == /\ run[r].lease
                        /\ run[r].status \in {"failed", "cancelled"}
                        /\ ~HasTerminalFrame(r)

RecoverClaims(closing) ==
    LET claims == IF RunIsActive THEN {} ELSE StaleClaims
        owed == {r \in claims : OwesTerminalFrame(r)}
    IN  /\ turn' = [r \in Requests |-> IF r \in claims THEN RecoveredTurn(r) ELSE turn[r]]
        /\ run' = [r \in Requests |->
                     IF r \in owed /\ closing # "nothing" THEN [run[r] EXCEPT !.msg = ClosedMessage(@, run[r].status)]
                     ELSE run[r]]
        /\ frames' = [k \in Keys |->
                        IF k \in owed /\ closing = "stream" THEN <<CloseFrame(run[k].status)>> ELSE frames[k]]
        /\ UNCHANGED control
=============================================================================
