------------------------------ MODULE RunStore ------------------------------
(***************************************************************************)
(* The durable rows one DeepSpace conversation keeps about execution:      *)
(*   run     the agent run of each request (deepspace_agent_runs) together *)
(*           with the assistant message it is found through,               *)
(*   frames  the terminal frames of each request's event log               *)
(*           (deepspace_run_events whose event is `done` or `error`).      *)
(* Definitions named after a method of DeepSpaceRuntimeStore are what that *)
(* method writes to a row; the modules above decide when it is called.     *)
(***************************************************************************)
EXTENDS Naturals, Sequences, FiniteSets

CONSTANTS
    Requests,   \* client request ids that may get a row in the turn queue
    Anon        \* a request id without a queue row (a resume whose turn was not paused)

ASSUME AnonAssumption == Anon \notin Requests

VARIABLES
    run,        \* run[r]: the newest agent run labelled r, and its message
    frames      \* frames[k]: terminal frames persisted under stream key k, oldest first

Keys == Requests \cup {Anon}

ActiveRunStatuses == {"running", "awaiting_user", "awaiting_approval", "cancelling"}
WorkerRunStatuses == {"running", "cancelling"}
RunStatuses == ActiveRunStatuses \cup {"ready", "failed", "blocked", "cancelled"}

\* What a terminal frame reports: the status of a `done`, or an `error`.
DoneStatuses == {"ready", "cancelled", "failed", "blocked", "awaiting_user", "awaiting_approval"}
FrameKinds == DoneStatuses \cup {"error"}

\* The age of a timestamp, cut where the code compares it: ten minutes for the
\* queue's recovery, thirty for the maintenance beat.
Ages == {"null", "fresh", "aged", "expired"}
OlderThanTen == {"null", "aged", "expired"}
OlderThanThirty == {"null", "expired"}

\* checkpoint["pending_user_question"] and checkpoint["pending_approval"]
PendingDecisions == {"none", "question", "claimed", "approval", "approved", "denied"}

MessageStatuses == {"absent", "streaming", "error"} \cup DoneStatuses

RunRows == [status  : RunStatuses \cup {"none"},
            cancel  : BOOLEAN,
            beat    : Ages,
            lease   : BOOLEAN,
            pending : PendingDecisions,
            msg     : MessageStatuses]

NoRun == [status |-> "none", cancel |-> FALSE, beat |-> "null", lease |-> FALSE,
          pending |-> "none", msg |-> "absent"]

RunTypeOK == /\ run \in [Requests -> RunRows]
             /\ frames \in [Keys -> Seq(FrameKinds)]

RunInit == /\ run = [r \in Requests |-> NoRun]
           /\ frames = [k \in Keys |-> <<>>]

RunVars == <<run, frames>>
-----------------------------------------------------------------------------
(* Rows as the methods leave them. *)

\* create_run keeps the message and starts everything else afresh.
CreatedRun(row) == [NoRun EXCEPT !.status = "running", !.beat = "fresh", !.msg = row.msg]

\* update_checkpoint overwrites the status whatever it was; only the worker
\* statuses refresh the heartbeat, and the cancellation flag is left alone.
Checkpointed(row, status, pending) ==
    [row EXCEPT !.status = status,
                !.pending = pending,
                !.beat = IF status \in WorkerRunStatuses THEN "fresh" ELSE @]

CanBeat(row) == row.status \in WorkerRunStatuses /\ ~row.cancel

\* finish overwrites the status unconditionally.
FinishedRun(row, status) == [row EXCEPT !.status = status, !.beat = "null"]

\* A message still streaming takes the status of the run that ends.
ClosedMessage(msg, status) ==
    IF msg # "streaming" THEN msg
    ELSE CASE status = "failed"  -> "error"
           [] status = "blocked" -> "blocked"
           [] OTHER              -> "ready"

\* finish_for_request touches the run only while it is active.
FinishedForRequest(row, status) ==
    LET closed == [row EXCEPT !.msg = ClosedMessage(@, status)]
    IN  IF row.status \in ActiveRunStatuses THEN FinishedRun(closed, status) ELSE closed

\* request_cancel flags every active run of the conversation.
CancelRequested(row) ==
    IF row.status \in ActiveRunStatuses
    THEN [row EXCEPT !.status = "cancelling", !.cancel = TRUE] ELSE row

\* finish_requested_cancellations ends every run that was flagged.
CancellationFinished(row) ==
    IF row.status = "cancelling" /\ row.cancel
    THEN [FinishedRun(row, "cancelled") EXCEPT !.lease = FALSE] ELSE row

\* claim_user_question: the row lock makes this happen once per question.
CanClaimQuestion(row) == row.status = "awaiting_user" /\ row.pending = "question"
QuestionClaimed(row) == [row EXCEPT !.status = "running", !.pending = "claimed", !.beat = "fresh"]

\* resolve_approval: one decision per approval; the heartbeat is not refreshed.
HoldsApproval(row) == row.status \in {"awaiting_approval", "running", "blocked"}
CanResolveApproval(row) == HoldsApproval(row) /\ row.pending = "approval"
ApprovalResolved(row, decision) ==
    [row EXCEPT !.status = IF decision = "approved" THEN "running" ELSE "blocked",
                !.pending = decision]

RunIsActive == \E r \in Requests : run[r].status \in ActiveRunStatuses

HasTerminalFrame(k) == frames[k] # <<>>
LastFrame(k) == frames[k][Len(frames[k])]
=============================================================================
