------------------------------ MODULE QueueApi ------------------------------
(***************************************************************************)
(* The HTTP handlers of one DeepSpace conversation that change the queue,  *)
(* its run or its stream (deepspace/api/chats.py).  A handler that commits *)
(* more than once is a client at a pc between its commits; a broker        *)
(* submission that follows the last commit belongs to it, because the      *)
(* message may wait in the broker for as long as it likes.                 *)
(***************************************************************************)
EXTENDS Broker

CONSTANTS
    Clients,    \* concurrent HTTP requests
    Ops,        \* the handlers users call
    MaxCalls,   \* bound on the calls of all handlers but enqueueing
    PatientUsers    \* TRUE: users answer once the queue shows the turn as paused

Handlers == {"enqueue", "retry", "steer", "pause", "resume", "clear", "cancel",
             "cancel_queued", "answer", "decide", "approve", "run_now", "list"}

ASSUME OpsAssumption == Ops \subseteq Handlers
ASSUME MaxCallsAssumption == MaxCalls \in Nat
ASSUME UsersAssumption == PatientUsers \in BOOLEAN

VARIABLES
    api,        \* api[c]: the handler a client is in, between two commits
    calls       \* calls made so far

ApiPcs == {"idle", "cancel_turn", "cancel_signal", "queued_signal", "pause_marker",
           "pause_runs", "pause_turn", "clear_rows", "steer_wake", "retry_wake", "run_now",
           "list_claims", "list_reclaims", "list_resume", "list_wakes"}

IdleClient == [pc |-> "idle", key |-> None]

ApiTypeOK == /\ api \in [Clients -> [pc : ApiPcs, key : Requests \cup {None}]]
             /\ calls \in 0..MaxCalls

ApiInit == /\ api = [c \in Clients |-> IdleClient]
           /\ calls = 0

ApiVars == <<api, calls>>

\* A client starts a handler, stays in it, or returns.
Enters(c, op, pc, key) ==
    /\ op \in Ops
    /\ api[c].pc = "idle"
    /\ calls < MaxCalls
    /\ calls' = calls + 1
    /\ api' = [api EXCEPT ![c] = [pc |-> pc, key |-> key]]
Calls(c, op) == Enters(c, op, "idle", None)
Moves(c, from, pc) == /\ api[c].pc = from
                      /\ api' = [api EXCEPT ![c].pc = pc]
                      /\ UNCHANGED calls
Returns(c, from) == /\ api[c].pc = from
                    /\ api' = [api EXCEPT ![c] = IdleClient]
                    /\ UNCHANGED calls

\* active_request_id: the active turn with the lowest sequence.
ActiveRequest == {r \in InStatus(ActiveQueueStatuses) :
                    \A q \in InStatus(ActiveQueueStatuses) : turn[r].sequence <= turn[q].sequence}
-----------------------------------------------------------------------------
(* Adding and reordering work. *)

\* One commit, by a request of its own.  Repeating the POST finds the row and only
\* sends another wake; one wake waits in the broker for as long as it likes anyway.
EnqueueTurn(r) ==
    /\ "enqueue" \in Ops
    /\ Enqueue(r, FALSE)
    /\ SubmitWake
    /\ UNCHANGED <<ApiVars, jobs, lock, marker>>

\* The same handler with steer set: the new turn goes before the normal ones.
EnqueueSteered(c, r) ==
    /\ Calls(c, "steer")
    /\ Enqueue(r, TRUE)
    /\ SubmitWake
    /\ UNCHANGED <<jobs, lock, marker>>

\* Here too a repeated POST finds its row, and only wakes the queue again.
RetryTurn(c, failed, r) ==
    /\ Enters(c, "retry", "retry_wake", r)
    /\ RetryFailed(failed, r)
    /\ UNCHANGED <<jobs, wakes, lock, marker>>

\* A retry lifts a legacy failure pause and wakes the queue unless the user paused it.
RetryWake(c) ==
    /\ Returns(c, "retry_wake")
    /\ ResumeAfterFailure
    /\ IF control = "user_pause" THEN UNCHANGED wakes ELSE SubmitWake
    /\ UNCHANGED <<jobs, lock, marker>>

SteerTurn(c, r) ==
    /\ Enters(c, "steer", "steer_wake", r)
    /\ Promote(r)
    /\ UNCHANGED <<jobs, wakes, lock, marker>>

SteerWake(c) ==
    /\ Returns(c, "steer_wake")
    /\ Resume
    /\ SubmitWake
    /\ UNCHANGED <<jobs, lock, marker>>

\* run-now looks whether the queue is paused and no turn is active, and enqueues
\* in another transaction.  The run is submitted directly, without a claim.
RunNow(c, r) ==
    /\ Enters(c, "run_now", "run_now", r)
    /\ Paused
    /\ ActiveRequest = {}
    /\ UNCHANGED <<StoreVars, jobs, wakes, lock, marker>>

RunNowSubmits(c, r) ==
    /\ api[c].key = r
    /\ Returns(c, "run_now")
    /\ \/ /\ \/ Enqueue(r, FALSE)
             \/ HasRow(r) /\ UNCHANGED StoreVars      \* a repeated POST
          /\ Submit([kind |-> "turn", key |-> r, target |-> r])
       \/ /\ ~HasRow(r) /\ ~Room                      \* DEEPSPACE_QUEUE_FULL
          /\ UNCHANGED <<StoreVars, jobs>>
    /\ UNCHANGED <<wakes, lock, marker>>
-----------------------------------------------------------------------------
(* Pausing, resuming, clearing, listing. *)

PauseQueue(c) ==
    /\ Enters(c, "pause", "pause_marker", None)
    /\ Pause
    /\ UNCHANGED <<jobs, wakes, lock, marker>>

\* An active turn is stopped too: marker, then runs, then its queue row.
PauseMarks(c) ==
    \/ /\ ActiveRequest = {}
       /\ Returns(c, "pause_marker")
       /\ UNCHANGED <<StoreVars, jobs, wakes, lock, marker>>
    \/ \E r \in ActiveRequest :
         /\ api[c].pc = "pause_marker"
         /\ api' = [api EXCEPT ![c] = [pc |-> "pause_runs", key |-> r]]
         /\ marker' = [marker EXCEPT ![r] = TRUE]
         /\ UNCHANGED <<StoreVars, jobs, wakes, lock, calls>>

CancelRuns == run' = [r \in Requests |-> CancelRequested(run[r])]

PauseRuns(c) ==
    /\ Moves(c, "pause_runs", "pause_turn")
    /\ CancelRuns
    /\ UNCHANGED <<frames, turn, control, jobs, wakes, lock, marker>>

CancelTurn(r) == turn' = [turn EXCEPT ![r] = CancelRequestedTurn(@)]

PauseTurn(c) ==
    /\ Returns(c, "pause_turn")
    /\ CancelTurn(api[c].key)
    /\ UNCHANGED <<run, frames, control, jobs, wakes, lock, marker>>

ResumeQueue(c) ==
    /\ Calls(c, "resume")
    /\ Resume
    /\ IF InStatus({"queued"}) # {} THEN SubmitWake ELSE UNCHANGED wakes
    /\ UNCHANGED <<jobs, lock, marker>>

\* With an active turn, the runs are flagged and the rows cleared in one commit.
ClearQueue(c) ==
    \/ /\ ActiveRequest = {}
       /\ Calls(c, "clear")
       /\ turn' = [r \in Requests |-> ClearedTurn(turn[r])]
       /\ control' = "open"
       /\ UNCHANGED <<run, frames, jobs, wakes, lock, marker>>
    \/ \E r \in ActiveRequest :
         /\ Enters(c, "clear", "clear_rows", r)
         /\ marker' = [marker EXCEPT ![r] = TRUE]
         /\ UNCHANGED <<StoreVars, jobs, wakes, lock>>

ClearRows(c) ==
    /\ Returns(c, "clear_rows")
    /\ CancelRuns
    /\ turn' = [r \in Requests |-> ClearedTurn(turn[r])]
    /\ control' = "open"
    /\ SubmitWake
    /\ UNCHANGED <<frames, jobs, lock, marker>>

\* Reading the queue, or its state, runs both transactions of recover_stale_claims,
\* and the pc remembers whether either of them recovered anything.  (list_open
\* runs them once more at the end, which is what reading again does.)
ListQueue(c) ==
    /\ \E closing \in Closings : RecoverTerminalRuns(closing)
    /\ Enters(c, "list", IF run' = run THEN "list_claims" ELSE "list_reclaims", None)
    /\ UNCHANGED <<jobs, wakes, lock, marker>>

ListClaims(c) ==
    /\ \E closing \in Closings : RecoverClaims(closing)
    /\ \/ Moves(c, "list_claims", IF turn' = turn THEN "list_resume" ELSE "list_wakes")
       \/ Moves(c, "list_reclaims", "list_wakes")
    /\ UNCHANGED <<jobs, wakes, lock, marker>>

\* A legacy failure pause is lifted, and if anything changed the queue is woken:
\* by the queue's handler unless it is paused, by the state's if it has work.
ListResume(c) ==
    /\ ResumeAfterFailure
    /\ \E from \in {"list_resume", "list_wakes"} :
         /\ Returns(c, from)
         /\ IF /\ from = "list_wakes" \/ control' # control
               /\ control' = "open" \/ InStatus({"queued"}) # {}
            THEN SubmitWake
            ELSE UNCHANGED wakes
    /\ UNCHANGED <<jobs, lock, marker>>
-----------------------------------------------------------------------------
(* Cancelling one request. *)

\* Stop: the conversation's runs, then the request's row, then marker and wake.
CancelRequest(c, r) ==
    /\ HasRow(r)
    /\ Enters(c, "cancel", "cancel_turn", r)
    /\ CancelRuns
    /\ UNCHANGED <<frames, turn, control, jobs, wakes, lock, marker>>

CancelRequestTurn(c) ==
    /\ Moves(c, "cancel_turn", "cancel_signal")
    /\ CancelTurn(api[c].key)
    /\ UNCHANGED <<run, frames, control, jobs, wakes, lock, marker>>

Signal(c, from) ==
    /\ Returns(c, from)
    /\ SetMarker(api[c].key)
    /\ SubmitWake
    /\ UNCHANGED <<StoreVars, jobs, lock>>

CancelSignal(c) == Signal(c, "cancel_signal")

\* Cancelling a queued request touches its row only, never the run.
CancelQueued(c, r) ==
    /\ HasRow(r)
    /\ Enters(c, "cancel_queued", "queued_signal", r)
    /\ CancelTurn(r)
    /\ UNCHANGED <<run, frames, control, jobs, wakes, lock, marker>>

QueuedSignal(c) == Signal(c, "queued_signal")
-----------------------------------------------------------------------------
(* Answers and approvals. *)

\* The turn that continues is whichever is paused first; if none is, the job
\* goes out under the request id of this HTTP request, which has no turn.
Continue(job) ==
    \/ /\ FirstPaused = {}
       /\ UNCHANGED turn
       /\ Submit([job EXCEPT !.key = Anon])
    \/ \E r \in FirstPaused :
         /\ turn' = [turn EXCEPT ![r] = Resumed(@)]
         /\ Submit([job EXCEPT !.key = r])

Answerable(r) == PatientUsers => turn[r].status \in PausedQueueStatuses

\* The question is claimed and its turn resumed in one commit.
Answer(c, r) ==
    /\ Calls(c, "answer")
    /\ Answerable(r)
    /\ CanClaimQuestion(run[r])
    /\ run' = [run EXCEPT ![r] = QuestionClaimed(@)]
    /\ Continue([kind |-> "answer", key |-> Anon, target |-> r])
    /\ UNCHANGED <<frames, control, wakes, lock, marker>>

\* The decision is one request, continuing the run is another one.
Decide(c, r) ==
    /\ Calls(c, "decide")
    /\ Answerable(r)
    /\ CanResolveApproval(run[r])
    /\ \E decision \in {"approved", "denied"} :
         run' = [run EXCEPT ![r] = ApprovalResolved(@, decision)]
    /\ UNCHANGED <<frames, turn, control, jobs, wakes, lock, marker>>

Approve(c, r) ==
    /\ Calls(c, "approve")
    /\ Answerable(r)
    /\ run[r].pending \in {"approved", "denied"}
    /\ Continue([kind |-> "approval", key |-> Anon, target |-> r])
    /\ UNCHANGED <<run, frames, control, wakes, lock, marker>>
-----------------------------------------------------------------------------
ApiStep(c) ==
    \/ \E r \in Requests : \/ EnqueueTurn(r) \/ EnqueueSteered(c, r) \/ SteerTurn(c, r) \/ RunNow(c, r)
                           \/ CancelRequest(c, r) \/ CancelQueued(c, r)
                           \/ Answer(c, r) \/ Decide(c, r) \/ Approve(c, r)
                           \/ \E failed \in Requests : RetryTurn(c, failed, r)
    \/ PauseQueue(c) \/ ResumeQueue(c) \/ ClearQueue(c) \/ ListQueue(c)

\* The rest of a handler that has started.
ApiFinishes(c) ==
    \/ SteerWake(c) \/ RetryWake(c) \/ PauseMarks(c) \/ PauseRuns(c) \/ PauseTurn(c) \/ ClearRows(c)
    \/ \E r \in Requests : RunNowSubmits(c, r)
    \/ ListClaims(c) \/ ListResume(c) \/ CancelRequestTurn(c) \/ CancelSignal(c) \/ QueuedSignal(c)
=============================================================================
