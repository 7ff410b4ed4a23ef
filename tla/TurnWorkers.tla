----------------------------- MODULE TurnWorkers ----------------------------
(***************************************************************************)
(* The two Celery tasks that move a turn: dispatch_deepspace_turn_queue    *)
(* claims one, run_deepspace_task executes it through                      *)
(* DeepSpaceChatService.stream_turn.  A process is at a pc between two of  *)
(* its commits; everything between two commits is one step.                *)
(***************************************************************************)
EXTENDS Broker

CONSTANTS
    Dispatchers,    \* processes that execute deepspace.dispatch_turn_queue
    MaxFrames       \* bound on the terminal frames of a stream: a run that has
                    \* reached it asks the user nothing more

ASSUME MaxFramesAssumption == MaxFrames \in Nat

VARIABLES
    disp,       \* disp[d]: pc, and the turn it claimed
    worker      \* worker[w]: pc, the job it executes, and the outcome it will report

DispPcs == {"idle", "terminal_runs", "claims", "resume", "claim", "submit"}

WorkerPcs == {"idle", "check", "early_runs", "early_turn", "start", "create", "revive",
              "apply", "stream", "final_check", "save", "emit", "final_run", "final_turn", "unlock"}

NoJob == [kind |-> "none", key |-> Anon, target |-> None]
Outcomes == FrameKinds \cup {"none"}

WorkersTypeOK ==
    /\ disp \in [Dispatchers -> [pc : DispPcs, key : Requests \cup {None}]]
    /\ worker \in [Workers -> [pc : WorkerPcs, job : Jobs \cup {NoJob}, out : Outcomes]]

IdleDispatcher == [pc |-> "idle", key |-> None]
IdleWorker == [pc |-> "idle", job |-> NoJob, out |-> "none"]

WorkersInit == /\ disp = [d \in Dispatchers |-> IdleDispatcher]
               /\ worker = [w \in Workers |-> IdleWorker]
-----------------------------------------------------------------------------
(* dispatch_deepspace_turn_queue: claim_next is four transactions, then    *)
(* the run is submitted; a failed submission releases the claim.           *)

DispGoto(d, pc) == disp' = [disp EXCEPT ![d].pc = pc]

DispTake(d) ==
    /\ disp[d].pc = "idle"
    /\ wakes > 0
    /\ wakes' = wakes - 1
    /\ DispGoto(d, "terminal_runs")
    /\ UNCHANGED <<StoreVars, jobs, lock, marker, worker>>

DispTerminalRuns(d) ==
    /\ disp[d].pc = "terminal_runs"
    /\ \E closing \in Closings : RecoverTerminalRuns(closing)
    /\ DispGoto(d, "claims")
    /\ UNCHANGED <<jobs, wakes, lock, marker, worker>>

DispClaims(d) ==
    /\ disp[d].pc = "claims"
    /\ \E closing \in Closings : RecoverClaims(closing)
    /\ DispGoto(d, "resume")
    /\ UNCHANGED <<jobs, wakes, lock, marker, worker>>

DispResume(d) ==
    /\ disp[d].pc = "resume"
    /\ ResumeAfterFailure
    /\ DispGoto(d, "claim")
    /\ UNCHANGED <<jobs, wakes, lock, marker, worker>>

DispClaim(d) ==
    /\ disp[d].pc = "claim"
    /\ \E r \in Requests : /\ Claim(r)
                           /\ disp' = [disp EXCEPT ![d] = [pc |-> "submit", key |-> r]]
    /\ UNCHANGED <<jobs, wakes, lock, marker, worker>>

DispFindsNothing(d) ==
    /\ disp[d].pc = "claim"
    /\ \A r \in Requests : ~Claimable(r)
    /\ disp' = [disp EXCEPT ![d] = IdleDispatcher]
    /\ UNCHANGED <<StoreVars, jobs, wakes, lock, marker, worker>>

DispSubmit(d) ==
    /\ disp[d].pc = "submit"
    /\ jobs' = jobs \cup {[kind |-> "turn", key |-> disp[d].key, target |-> disp[d].key]}
    /\ disp' = [disp EXCEPT ![d] = IdleDispatcher]
    /\ UNCHANGED <<StoreVars, wakes, lock, marker, worker>>

DispRelease(d) ==
    /\ disp[d].pc = "submit"
    /\ ReleaseClaim(disp[d].key)
    /\ disp' = [disp EXCEPT ![d] = IdleDispatcher]
    /\ UNCHANGED <<jobs, wakes, lock, marker, worker>>

DispStep(d) == \/ DispTake(d) \/ DispTerminalRuns(d) \/ DispClaims(d) \/ DispResume(d)
                   \/ DispClaim(d) \/ DispFindsNothing(d) \/ DispSubmit(d) \/ DispRelease(d)
-----------------------------------------------------------------------------
(* run_deepspace_task up to the stream. *)

Goto(w, pc) == worker' = [worker EXCEPT ![w].pc = pc]
GotoWith(w, pc, out) == worker' = [worker EXCEPT ![w].pc = pc, ![w].out = out]

Key(w) == worker[w].job.key
Target(w) == worker[w].job.target

\* Mutation: SET without NX.
LockIgnored(k) == TRUE
LockIsFree(k) == lock[k] = Free

\* SET NX on the worker lock; a delivery that does not get it is dropped.
\* redelivered = TRUE leaves the message in the broker.
WorkTake(w, job, redelivered) ==
    /\ worker[w].pc = "idle"
    /\ job \in jobs
    /\ jobs' = IF redelivered THEN jobs ELSE jobs \ {job}
    /\ IF LockIsFree(job.key)
       THEN /\ lock' = [lock EXCEPT ![job.key] = w]
            /\ worker' = [worker EXCEPT ![w] = [pc |-> "check", job |-> job, out |-> "none"]]
       ELSE UNCHANGED <<lock, worker>>
    /\ UNCHANGED <<StoreVars, wakes, marker, disp>>

HasTurn(k) == k \in Requests /\ HasRow(k)

\* A turn that is no longer claimed is not executed and not finalized.  A
\* marker ends the request before it starts, with a `done` frame of its own.
WorkCheck(w) ==
    /\ worker[w].pc = "check"
    /\ IF HasTurn(Key(w)) /\ turn[Key(w)].status \notin {"running", "cancelling"}
       THEN Goto(w, "unlock") /\ UNCHANGED frames
       ELSE IF marker[Key(w)]
       THEN /\ frames' = [frames EXCEPT ![Key(w)] = Append(@, "cancelled")]
            /\ GotoWith(w, "early_runs", "cancelled")
       ELSE Goto(w, "start") /\ UNCHANGED frames
    /\ UNCHANGED <<run, turn, control, jobs, wakes, lock, marker, disp>>

WorkEarlyRuns(w) ==
    /\ worker[w].pc = "early_runs"
    /\ run' = [r \in Requests |-> CancellationFinished(run[r])]
    /\ Goto(w, "early_turn")
    /\ UNCHANGED <<frames, turn, control, jobs, wakes, lock, marker, disp>>

FinishTurnOf(k, status) ==
    turn' = IF HasTurn(k) THEN [turn EXCEPT ![k] = FinishedTurn(@, status)] ELSE turn

\* Mutation: the terminal frame is published once more.
EarlyTurnEmits(w) ==
    /\ worker[w].pc = "early_turn"
    /\ FinishTurnOf(Key(w), "cancelled")
    /\ Goto(w, "emit")
    /\ UNCHANGED <<run, frames, control, jobs, wakes, lock, marker, disp>>

WorkEarlyTurn(w) ==
    /\ worker[w].pc = "early_turn"
    /\ FinishTurnOf(Key(w), "cancelled")
    /\ Goto(w, "final_run")
    /\ UNCHANGED <<run, frames, control, jobs, wakes, lock, marker, disp>>
-----------------------------------------------------------------------------
(* stream_turn: which run the job continues or creates. *)

\* A first execution writes the prompt and its streaming message; a request
\* that already has one replays how that message ended.
StartFirst(w) ==
    /\ turn[Key(w)].parent = None
    /\ IF run[Key(w)].msg = "absent"
       THEN /\ run' = [run EXCEPT ![Key(w)].msg = "streaming"]
            /\ Goto(w, "create")
       ELSE /\ GotoWith(w, "emit", IF run[Key(w)].msg \in DoneStatuses
                                   THEN run[Key(w)].msg ELSE "error")
            /\ UNCHANGED run

\* The message a retry reuses: the failed request's own, or the one a later
\* retry of the same prompt took over.
SavedMessage(p) == {x \in Requests : /\ run[x].msg # "absent"
                                     /\ x = p \/ (turn[p].parent = None /\ turn[x].parent = p)}

\* Worker w goes to pc, and whoever still holds the run that was labelled x
\* holds it under w's request id now.
GotoRelabelled(w, pc, x) ==
    worker' = [v \in Workers |->
                 IF v = w THEN [worker[v] EXCEPT !.pc = pc]
                 ELSE IF Target(v) = x THEN [worker[v] EXCEPT !.job.target = Key(w)]
                 ELSE worker[v]]

\* A retry relabels the saved message, with the run found through it; a failed
\* or blocked run is revived, otherwise the prompt starts over in a new run.
StartRetry(w) ==
    LET p == turn[Key(w)].parent
    IN  /\ p # None
        /\ \/ /\ SavedMessage(p) = {}
              /\ GotoWith(w, "emit", "error")
              /\ UNCHANGED run
           \/ \E x \in SavedMessage(p) :
                /\ run' = [run EXCEPT ![x] = NoRun,
                                      ![Key(w)] = [run[x] EXCEPT !.msg = "streaming"]]
                /\ GotoRelabelled(w, IF run[p].status \in {"failed", "blocked"} THEN "revive" ELSE "create", x)

StartTurn(w) == worker[w].job.kind = "turn" /\ (StartFirst(w) \/ StartRetry(w))

\* An answer continues the run the endpoint claimed for it, or a waiting one.
StartAnswer(w) ==
    /\ worker[w].job.kind = "answer"
    /\ IF \/ run[Target(w)].status = "running" /\ run[Target(w)].pending = "claimed"
          \/ CanClaimQuestion(run[Target(w)])
       THEN /\ run' = [run EXCEPT ![Target(w)] = Checkpointed(@, "running", "claimed")]
            /\ Goto(w, "stream")
       ELSE GotoWith(w, "emit", "error") /\ UNCHANGED run

\* An approved action is executed before its approval is removed; a denied one,
\* or one whose tool has changed, is removed at once and ends the turn as blocked.
StartApproval(w) ==
    /\ worker[w].job.kind = "approval"
    /\ \/ /\ HoldsApproval(run[Target(w)]) /\ run[Target(w)].pending = "approved"
          /\ Goto(w, "apply")
          /\ UNCHANGED run
       \/ /\ HoldsApproval(run[Target(w)]) /\ run[Target(w)].pending \in {"approved", "denied"}
          /\ run' = [run EXCEPT ![Target(w)] = Checkpointed(@, "running", "none")]
          /\ GotoWith(w, "final_check", "blocked")
       \/ /\ ~(HoldsApproval(run[Target(w)]) /\ run[Target(w)].pending \in {"approved", "denied"})
          /\ GotoWith(w, "emit", "error")
          /\ UNCHANGED run

WorkStart(w) ==
    /\ worker[w].pc = "start"
    /\ StartTurn(w) \/ StartAnswer(w) \/ StartApproval(w)
    /\ UNCHANGED <<frames, turn, control, jobs, wakes, lock, marker, disp>>

WorkCreate(w) ==
    /\ worker[w].pc = "create"
    /\ run' = [run EXCEPT ![Key(w)] = CreatedRun(@)]
    /\ Goto(w, "stream")
    /\ UNCHANGED <<frames, turn, control, jobs, wakes, lock, marker, disp>>

\* The revived run keeps cancel_requested and loses its last error.
WorkRevive(w) ==
    /\ worker[w].pc = "revive"
    /\ run' = [run EXCEPT ![Key(w)] = [Checkpointed(@, "running", "none") EXCEPT !.lease = FALSE]]
    /\ Goto(w, "stream")
    /\ UNCHANGED <<frames, turn, control, jobs, wakes, lock, marker, disp>>

\* The approved action has run; its result is saved and the approval removed.
WorkApply(w) ==
    /\ worker[w].pc = "apply"
    /\ run' = [run EXCEPT ![Target(w)] = Checkpointed(@, "running", "none")]
    /\ Goto(w, "stream")
    /\ UNCHANGED <<frames, turn, control, jobs, wakes, lock, marker, disp>>
-----------------------------------------------------------------------------
(* The rounds of stream_turn. *)

\* Provider chunks refresh the heartbeat of a run nobody asked to cancel.
WorkHeartbeat(w) ==
    /\ worker[w].pc = "stream"
    /\ CanBeat(run[Target(w)]) /\ run[Target(w)].beat # "fresh"
    /\ run' = [run EXCEPT ![Target(w)].beat = "fresh"]
    /\ UNCHANGED <<frames, turn, control, jobs, wakes, lock, marker, disp, worker>>

\* A round checkpoint sets the run running again, a cancelling one too.
WorkRound(w) ==
    /\ worker[w].pc = "stream"
    /\ run' = [run EXCEPT ![Target(w)] = Checkpointed(@, "running", "none")]
    /\ run' # run
    /\ UNCHANGED <<frames, turn, control, jobs, wakes, lock, marker, disp, worker>>

\* Between rounds the durable flag is read, during one the marker as well.
WorkSeesCancel(w) ==
    /\ worker[w].pc = "stream"
    /\ run[Target(w)].cancel \/ marker[Key(w)]
    /\ run' = [run EXCEPT ![Target(w)] = [FinishedRun(@, "cancelled") EXCEPT !.lease = FALSE]]
    /\ GotoWith(w, "final_check", "cancelled")
    /\ UNCHANGED <<frames, turn, control, jobs, wakes, lock, marker, disp>>

\* At its deadline the run is blocked, before the message is.
WorkDeadline(w) ==
    /\ worker[w].pc = "stream"
    /\ run' = [run EXCEPT ![Target(w)] =
                 [FinishedRun(Checkpointed(@, "blocked", "none"), "blocked") EXCEPT !.lease = FALSE]]
    /\ GotoWith(w, "final_check", "blocked")
    /\ UNCHANGED <<frames, turn, control, jobs, wakes, lock, marker, disp>>

\* A provider or tool error ends the run and its message, then reports an error.
WorkFails(w) ==
    /\ worker[w].pc = "stream"
    /\ run' = [run EXCEPT ![Target(w)] = [FinishedRun(@, "failed") EXCEPT !.lease = FALSE,
                                                                         !.msg = "error"]]
    /\ GotoWith(w, "emit", "error")
    /\ UNCHANGED <<frames, turn, control, jobs, wakes, lock, marker, disp>>

\* An exception the stream does not handle (a database error, a deleted message)
\* ends in the task's own handler, which leaves the run to WorkFinalRun.
WorkAborts(w) ==
    /\ worker[w].pc \in {"start", "create", "revive", "apply", "stream", "final_check", "save"}
    /\ GotoWith(w, "emit", "error")
    /\ UNCHANGED <<StoreVars, jobs, wakes, lock, marker, disp>>

\* The model answers, cannot go on, or needs the user.
WorkAnswers(w) ==
    /\ worker[w].pc = "stream"
    /\ \E out \in {"ready", "blocked"} \cup
                  (IF Len(frames[Key(w)]) < MaxFrames THEN PausedQueueStatuses ELSE {}) :
         GotoWith(w, "final_check", out)
    /\ UNCHANGED <<StoreVars, jobs, wakes, lock, marker, disp>>

\* The last look at the flag: a cancelled run returns without a terminal frame,
\* which run_deepspace_task reports as an error.
WorkFinalCheck(w) ==
    /\ worker[w].pc = "final_check"
    /\ IF run[Target(w)].cancel
       THEN GotoWith(w, "emit", "error") /\ UNCHANGED run
       ELSE /\ run' = [run EXCEPT ![Target(w)].msg = worker[w].out]
            /\ Goto(w, "save")
    /\ UNCHANGED <<frames, turn, control, jobs, wakes, lock, marker, disp>>

WorkSave(w) ==
    /\ worker[w].pc = "save"
    /\ run' = [run EXCEPT ![Target(w)] =
                 CASE worker[w].out = "awaiting_user"     -> Checkpointed(@, "awaiting_user", "question")
                   [] worker[w].out = "awaiting_approval" -> Checkpointed(@, "awaiting_approval", "approval")
                   [] OTHER                               -> FinishedRun(@, worker[w].out)]
    /\ Goto(w, "emit")
    /\ UNCHANGED <<frames, turn, control, jobs, wakes, lock, marker, disp>>
-----------------------------------------------------------------------------
(* The end of run_deepspace_task: the terminal frame is durable before the *)
(* rows are finalized.                                                     *)

WorkEmit(w) ==
    /\ worker[w].pc = "emit"
    /\ frames' = [frames EXCEPT ![Key(w)] = Append(@, worker[w].out)]
    /\ Goto(w, "final_run")
    /\ UNCHANGED <<run, turn, control, jobs, wakes, lock, marker, disp>>

\* The event log refuses the frame: the task reports a failure instead, whose
\* frame it may not be able to write either.
WorkEmitFails(w) ==
    /\ worker[w].pc = "emit"
    /\ frames' \in {frames, [frames EXCEPT ![Key(w)] = Append(@, "error")]}
    /\ GotoWith(w, "final_run", "error")
    /\ UNCHANGED <<run, turn, control, jobs, wakes, lock, marker, disp>>

\* terminal_run_status and terminal_status for the reported outcome.
\* Mutations: the outcome is not translated; a question ends the turn.
VerbatimOf(out) == out
AnyDoneCompletes(out) == IF out = "error" THEN "failed" ELSE IF out = "cancelled" THEN out ELSE "completed"
RunStatusOf(out) == IF out = "error" THEN "failed" ELSE out
TurnStatusOf(out) == CASE out = "error" -> "failed"
                       [] out \in {"ready", "blocked"} -> "completed"
                       [] OTHER -> out

\* finish_for_request finds the run through the message labelled with the key
\* and does nothing for a run that waits for the user.
WorkFinalRun(w) ==
    /\ worker[w].pc = "final_run"
    /\ run' = IF /\ Key(w) \in Requests
                 /\ run[Key(w)].status # "none"
                 /\ worker[w].out \notin PausedQueueStatuses
              THEN [run EXCEPT ![Key(w)] = FinishedForRequest(@, RunStatusOf(worker[w].out))]
              ELSE run
    /\ Goto(w, "final_turn")
    /\ UNCHANGED <<frames, turn, control, jobs, wakes, lock, marker, disp>>

\* The turn takes the outcome whatever happened to it since it was checked, and
\* the next turn is dispatched unless the user has to act or paused the queue.
WorkFinalTurn(w) ==
    /\ worker[w].pc = "final_turn"
    /\ FinishTurnOf(Key(w), TurnStatusOf(worker[w].out))
    /\ IF worker[w].out \in PausedQueueStatuses \/ Paused THEN UNCHANGED wakes ELSE SubmitWake
    /\ Goto(w, "unlock")
    /\ UNCHANGED <<run, frames, control, jobs, lock, marker, disp>>

\* The lock is removed only while it still carries this worker's token.
WorkUnlock(w) ==
    /\ worker[w].pc = "unlock"
    /\ lock' = IF lock[Key(w)] = w THEN [lock EXCEPT ![Key(w)] = Free] ELSE lock
    /\ worker' = [worker EXCEPT ![w] = IdleWorker]
    /\ UNCHANGED <<StoreVars, jobs, wakes, marker, disp>>

WorkStep(w) ==
    \/ WorkCheck(w) \/ WorkEarlyRuns(w) \/ WorkEarlyTurn(w)
    \/ WorkStart(w) \/ WorkCreate(w) \/ WorkRevive(w) \/ WorkApply(w)
    \/ WorkHeartbeat(w) \/ WorkRound(w)
    \/ WorkSeesCancel(w) \/ WorkDeadline(w) \/ WorkFails(w) \/ WorkAnswers(w)
    \/ WorkFinalCheck(w) \/ WorkSave(w) \/ WorkEmit(w)
    \/ WorkFinalRun(w) \/ WorkFinalTurn(w) \/ WorkUnlock(w)

\* A worker on its way to the run, one that executes it and keeps its lease
\* alive, and one that reports the outcome.
Starting(w) == worker[w].pc \in {"check", "start", "create", "revive", "early_runs", "early_turn"}
Executing(w) == worker[w].pc \in {"apply", "stream", "final_check", "save"}
ExecutesRun(w) == worker[w].pc \in {"apply", "stream"}
Settling(w) == worker[w].pc \in {"emit", "final_run", "final_turn", "unlock"}
=============================================================================
