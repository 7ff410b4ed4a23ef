-------------------------- MODULE DeepSpaceRowProofs --------------------------
(***************************************************************************)
(* What needs no hypothesis on how a conversation is used: every reachable *)
(* state of DeepSpaceRuntime is well typed, for any requests, workers,     *)
(* dispatchers, clients and bounds; the lock of a request has one worker;  *)
(* and completed_at is set exactly on ended turns.  TypeOK is not          *)
(* inductive: what a worker writes depends on what its pc says about the   *)
(* outcome it carries, so TypeInv adds that.                               *)
(***************************************************************************)
EXTENDS DeepSpaceProperties, TLAPS

\* A worker that is on a job has one, and carries an outcome where it reports one.
WorkerCarries(w) ==
    /\ worker[w].pc # "idle" => worker[w].job \in Jobs
    /\ worker[w].pc \in {"final_check", "save"} => worker[w].out \in DoneStatuses
    /\ worker[w].pc \in {"early_runs", "early_turn", "emit", "final_run", "final_turn"}
         => worker[w].out \in FrameKinds

\* A dispatcher that submits has claimed a turn.
DispatcherCarries(d) == disp[d].pc = "submit" => disp[d].key \in Requests

CarriesOK == /\ \A w \in Workers : WorkerCarries(w)
             /\ \A d \in Dispatchers : DispatcherCarries(d)

TypeInv == TypeOK /\ CarriesOK

-----------------------------------------------------------------------------
(* Rows stay rows. *)

LEMMA TurnRowTypes ==
    ASSUME NEW row \in TurnRows, NEW status
    PROVE  /\ CancelledTurn(row) \in TurnRows
           /\ CancelRequestedTurn(row) \in TurnRows
           /\ ClearedTurn(row) \in TurnRows
           /\ Requeued(row) \in TurnRows
           /\ Resumed(row) \in TurnRows
           /\ FinishedTurn(row, status) \in TurnRows
<1> USE DEF TurnRows, QueueStatuses, QueueableStatuses, ActiveQueueStatuses, PausedQueueStatuses,
            TerminalQueueStatuses, Stamps
<1>1. CancelledTurn(row) \in TurnRows
  BY DEF CancelledTurn
<1>2. CancelRequestedTurn(row) \in TurnRows
  BY <1>1 DEF CancelRequestedTurn
<1>3. ClearedTurn(row) \in TurnRows
  BY <1>1 DEF ClearedTurn
<1>4. Requeued(row) \in TurnRows /\ Resumed(row) \in TurnRows
  BY DEF Requeued, Resumed
<1>5. FinishedTurn(row, status) \in TurnRows
  BY DEF FinishedTurn, FinishStatus
<1> QED
  BY <1>1, <1>2, <1>3, <1>4, <1>5

LEMMA RunRowTypes ==
    ASSUME NEW row \in RunRows,
           NEW status \in RunStatuses, NEW pending \in PendingDecisions
    PROVE  /\ CreatedRun(row) \in RunRows
           /\ Checkpointed(row, status, pending) \in RunRows
           /\ FinishedRun(row, status) \in RunRows
           /\ FinishedForRequest(row, status) \in RunRows
           /\ CancelRequested(row) \in RunRows
           /\ CancellationFinished(row) \in RunRows
           /\ QuestionClaimed(row) \in RunRows
           /\ ClosedMessage(row.msg, status) \in MessageStatuses
<1> USE DEF RunRows
<1>a. /\ {"running", "cancelling", "cancelled"} \subseteq RunStatuses
      /\ {"null", "fresh"} \subseteq Ages
      /\ {"none", "claimed"} \subseteq PendingDecisions
      /\ {"error", "blocked", "ready"} \subseteq MessageStatuses
  BY DEF RunStatuses, ActiveRunStatuses, Ages, PendingDecisions, MessageStatuses, DoneStatuses
<1>1. CreatedRun(row) \in RunRows
  BY <1>a DEF CreatedRun, NoRun
<1>2. Checkpointed(row, status, pending) \in RunRows
  <2>1. CASE status \in WorkerRunStatuses
    BY <2>1, <1>a DEF Checkpointed
  <2>2. CASE status \notin WorkerRunStatuses
    BY <2>2, <1>a DEF Checkpointed
  <2> QED
    BY <2>1, <2>2
<1>3. \A r \in RunRows, s \in RunStatuses : FinishedRun(r, s) \in RunRows
  BY <1>a DEF FinishedRun
<1>4. ClosedMessage(row.msg, status) \in MessageStatuses
  BY <1>a DEF ClosedMessage
<1>5. FinishedForRequest(row, status) \in RunRows
  <2>1. [row EXCEPT !.msg = ClosedMessage(@, status)] \in RunRows
    BY <1>4
  <2> QED
    BY <2>1, <1>3 DEF FinishedForRequest
<1>6. CancelRequested(row) \in RunRows
  BY <1>a DEF CancelRequested
<1>7. CancellationFinished(row) \in RunRows
  <2>1. FinishedRun(row, "cancelled") \in RunRows
    BY <1>a, <1>3
  <2> QED
    BY <2>1 DEF CancellationFinished
<1>8. QuestionClaimed(row) \in RunRows
  BY <1>a DEF QuestionClaimed
<1> QED
  BY <1>1, <1>2, <1>3, <1>4, <1>5, <1>6, <1>7, <1>8
-----------------------------------------------------------------------------
(* Transactions of the queue store keep the tables well typed. *)

StoreTypeOK == RunTypeOK /\ TurnTypeOK

LEMMA AddTypes ==
    ASSUME StoreTypeOK, NEW r \in Requests, NEW failed \in Requests, NEW steer \in BOOLEAN,
           Enqueue(r, steer) \/ RetryFailed(failed, r) \/ Promote(r)
    PROVE  StoreTypeOK'
<1> USE DEF StoreTypeOK, RunTypeOK, TurnTypeOK
<1>0. \A q \in Requests : turn[q].sequence + 1 \in Nat /\ turn[q].priority + 1 \in Nat
  <2>1. \A q \in Requests : turn[q].sequence \in Nat /\ turn[q].priority \in Nat
    BY DEF TurnRows
  <2> QED
    BY <2>1
<1>1. ASSUME NEW priority \in Nat, NEW parent \in Requests \cup {None}
      PROVE  NewTurn(priority, parent) \subseteq TurnRows
  <2>1. \A sequence \in Nat :
          [NoTurn EXCEPT !.status = "queued", !.priority = priority,
                         !.sequence = sequence, !.parent = parent] \in TurnRows
    BY DEF NoTurn, TurnRows, QueueStatuses, QueueableStatuses, Stamps
  <2> QED
    BY <1>0, <2>1 DEF NewTurn
<1>2. CASE Enqueue(r, steer)
  BY <1>1, <1>2 DEF Enqueue
<1>3. CASE RetryFailed(failed, r)
  BY <1>0, <1>1, <1>3 DEF RetryFailed
<1>4. CASE Promote(r)
  <2>1. PICK top \in Requests : turn' = [turn EXCEPT ![r].priority = turn[top].priority + 1]
    BY <1>4 DEF Promote, InStatus
  <2>2. \A priority \in Nat : [turn[r] EXCEPT !.priority = priority] \in TurnRows
    BY DEF TurnRows
  <2> QED
    BY <1>0, <1>4, <2>1, <2>2 DEF Promote
<1> QED
  BY <1>2, <1>3, <1>4

LEMMA ClaimTypes ==
    ASSUME StoreTypeOK, NEW r, Claim(r) \/ ReleaseClaim(r)
    PROVE  StoreTypeOK'
<1> USE DEF StoreTypeOK, RunTypeOK, TurnTypeOK
<1>1. CASE Claim(r)
  <2>1. \A row \in TurnRows : [row EXCEPT !.status = "running", !.started = "fresh"] \in TurnRows
    BY DEF TurnRows, QueueStatuses, QueueableStatuses, ActiveQueueStatuses, Stamps
  <2> QED
    BY <1>1, <2>1 DEF Claim
<1>2. CASE ReleaseClaim(r)
  BY <1>2, TurnRowTypes DEF ReleaseClaim
<1> QED
  BY <1>1, <1>2

LEMMA ControlTypes ==
    ASSUME StoreTypeOK, Pause \/ Resume \/ ResumeAfterFailure
    PROVE  StoreTypeOK'
BY DEF StoreTypeOK, RunTypeOK, TurnTypeOK, Pause, Resume, ResumeAfterFailure, ControlStates

LEMMA OrphanOutcomeType ==
    ASSUME StoreTypeOK, NEW r \in Requests
    PROVE  OrphanOutcome(r) \in RunStatuses
<1>1. ASSUME HasTerminalFrame(r)
      PROVE  LastFrame(r) \in FrameKinds
  BY <1>1 DEF StoreTypeOK, RunTypeOK, Keys, HasTerminalFrame, LastFrame
<1>2. FrameKinds \ {"error"} \subseteq RunStatuses /\ {"failed", "cancelled"} \subseteq RunStatuses
  BY DEF FrameKinds, DoneStatuses, RunStatuses, ActiveRunStatuses
<1> QED
  BY <1>1, <1>2 DEF OrphanOutcome

LEMMA ReconciledRunType ==
    ASSUME StoreTypeOK, NEW r \in Requests, NEW closing
    PROVE  ReconciledRun(r, closing) \in RunRows
<1> DEFINE ended == FinishedRun(run[r], OrphanOutcome(r))
<1>1. run[r] \in RunRows /\ OrphanOutcome(r) \in RunStatuses
  BY OrphanOutcomeType DEF StoreTypeOK, RunTypeOK
<1>2. ended \in RunRows /\ ended.msg = run[r].msg
  BY <1>1 DEF FinishedRun, RunRows, Ages
<1>3. ClosedMessage(run[r].msg, OrphanOutcome(r)) \in MessageStatuses
  BY <1>1, RunRowTypes DEF PendingDecisions
<1> HIDE DEF ended
<1>4. \A lease \in BOOLEAN, msg \in MessageStatuses :
         [ended EXCEPT !.lease = lease, !.msg = msg] \in RunRows
  BY <1>2 DEF RunRows
<1> QED
  BY <1>2, <1>3, <1>4 DEF ReconciledRun, ended, RunRows

LEMMA RecoverTypes ==
    ASSUME StoreTypeOK, NEW closing, RecoverTerminalRuns(closing) \/ RecoverClaims(closing)
    PROVE  StoreTypeOK'
<1>1. \A status : <<CloseFrame(status)>> \in Seq(FrameKinds)
  BY DEF CloseFrame, FrameKinds, DoneStatuses
<1>2. CASE RecoverTerminalRuns(closing)
  <2>1. run' \in [Requests -> RunRows]
    BY <1>2, ReconciledRunType DEF RecoverTerminalRuns, StoreTypeOK, RunTypeOK
  <2>2. turn' \in [Requests -> TurnRows]
    BY <1>2, TurnRowTypes DEF RecoverTerminalRuns, StoreTypeOK, TurnTypeOK
  <2>3. frames' \in [Keys -> Seq(FrameKinds)]
    BY <1>1, <1>2 DEF RecoverTerminalRuns, StoreTypeOK, RunTypeOK
  <2> QED
    BY <1>2, <2>1, <2>2, <2>3 DEF RecoverTerminalRuns, StoreTypeOK, RunTypeOK, TurnTypeOK
<1>3. CASE RecoverClaims(closing)
  <2>1. ASSUME NEW r \in Requests, OwesTerminalFrame(r)
        PROVE  [run[r] EXCEPT !.msg = ClosedMessage(@, run[r].status)] \in RunRows
    <3>1. run[r] \in RunRows /\ run[r].status \in RunStatuses
      BY <2>1 DEF StoreTypeOK, RunTypeOK, OwesTerminalFrame, RunStatuses
    <3>2. ClosedMessage(run[r].msg, run[r].status) \in MessageStatuses
      BY <3>1, RunRowTypes DEF PendingDecisions
    <3> QED
      BY <3>1, <3>2 DEF RunRows
  <2>2. run' \in [Requests -> RunRows]
    BY <1>3, <2>1 DEF RecoverClaims, StoreTypeOK, RunTypeOK
  <2>3. \A r \in Requests : RecoveredTurn(r) \in TurnRows
    BY TurnRowTypes DEF RecoveredTurn, StoreTypeOK, TurnTypeOK
  <2>4. turn' \in [Requests -> TurnRows]
    BY <1>3, <2>3 DEF RecoverClaims, StoreTypeOK, TurnTypeOK
  <2>5. frames' \in [Keys -> Seq(FrameKinds)]
    BY <1>1, <1>3 DEF RecoverClaims, StoreTypeOK, RunTypeOK
  <2> QED
    BY <1>3, <2>2, <2>4, <2>5 DEF RecoverClaims, StoreTypeOK, RunTypeOK, TurnTypeOK
<1> QED
  BY <1>2, <1>3
-----------------------------------------------------------------------------
(* Workers. *)

WorkerOK == /\ worker \in [Workers -> [pc : WorkerPcs, job : Jobs \cup {NoJob}, out : Outcomes]]
            /\ \A w \in Workers : WorkerCarries(w)

\* What a worker needs in order to be at pc with the outcome out.
Fits(pc, out) ==
    /\ pc \in {"final_check", "save"} => out \in DoneStatuses
    /\ pc \in {"early_runs", "early_turn", "emit", "final_run", "final_turn"} => out \in FrameKinds

LEMMA GotoOK ==
    ASSUME WorkerOK, NEW w \in Workers, worker[w].pc # "idle",
           NEW pc \in WorkerPcs, NEW out \in Outcomes, Fits(pc, out),
           \/ GotoWith(w, pc, out)
           \/ Goto(w, pc) /\ out = worker[w].out
    PROVE  WorkerOK'
<1>1. worker' = [worker EXCEPT ![w] = [pc |-> pc, job |-> worker[w].job, out |-> out]]
  BY DEF WorkerOK, Goto, GotoWith
<1>2. worker[w].job \in Jobs
  BY DEF WorkerOK, WorkerCarries
<1> QED
  BY <1>1, <1>2 DEF WorkerOK, WorkerCarries, Fits

LEMMA WorkerUnchangedOK ==
    ASSUME WorkerOK, UNCHANGED worker
    PROVE  WorkerOK'
BY DEF WorkerOK, WorkerCarries

LEMMA WorkerIdleOK ==
    ASSUME WorkerOK, NEW w \in Workers, worker' = [worker EXCEPT ![w] = IdleWorker]
    PROVE  WorkerOK'
BY DEF WorkerOK, WorkerCarries, IdleWorker, WorkerPcs, Outcomes

\* The job a busy worker holds names a stream and a run.
LEMMA JobTypes ==
    ASSUME WorkerOK, NEW w \in Workers, worker[w].pc # "idle"
    PROVE  Key(w) \in Keys /\ Target(w) \in Requests
BY DEF WorkerOK, WorkerCarries, Jobs, Key, Target

\* A retry only changes which run the others hold.
LEMMA RelabelledOK ==
    ASSUME WorkerOK, NEW w \in Workers, worker[w].pc = "start", worker[w].job.kind = "turn",
           NEW pc \in {"create", "revive"}, NEW x \in Requests, GotoRelabelled(w, pc, x)
    PROVE  WorkerOK'
<1>1. worker[w].job \in Jobs /\ Key(w) \in Requests
  BY DEF WorkerOK, WorkerCarries, Jobs, Key
<1>2. ASSUME NEW v \in Workers, v # w, Target(v) = x
      PROVE  [worker[v] EXCEPT !.job.target = Key(w)].job \in Jobs
  <2>1. worker[v].job \in Jobs
    BY <1>2, NoneAssumption DEF WorkerOK, NoJob, Target
  <2> QED
    BY <1>1, <1>2, <2>1 DEF Jobs, WorkerOK
<1>3. ASSUME NEW v \in Workers
      PROVE  /\ worker'[v] \in [pc : WorkerPcs, job : Jobs \cup {NoJob}, out : Outcomes]
             /\ worker'[v].pc # "idle" => worker'[v].job \in Jobs
             /\ worker'[v].out = worker[v].out
             /\ worker'[v].pc # worker[v].pc => worker'[v].pc = pc
  <2>1. CASE v = w
    BY <1>1, <2>1 DEF GotoRelabelled, WorkerOK, WorkerPcs
  <2>2. CASE v # w /\ Target(v) = x
    <3>1. worker'[v] = [worker[v] EXCEPT !.job.target = Key(w)]
      BY <2>2 DEF GotoRelabelled
    <3> QED
      BY <1>2, <2>2, <3>1 DEF WorkerOK
  <2>3. CASE v # w /\ Target(v) # x
    BY <2>3 DEF GotoRelabelled, WorkerOK, WorkerCarries
  <2> QED
    BY <2>1, <2>2, <2>3
<1>4. worker' \in [Workers -> [pc : WorkerPcs, job : Jobs \cup {NoJob}, out : Outcomes]]
  BY <1>3 DEF GotoRelabelled
<1>5. \A v \in Workers : WorkerCarries(v)'
  BY <1>3 DEF WorkerOK, WorkerCarries
<1> QED
  BY <1>4, <1>5 DEF WorkerOK

LEMMA WakeTypes ==
    ASSUME BrokerTypeOK, SubmitWake
    PROVE  wakes' \in 0..MaxWakes
BY MaxWakesAssumption DEF BrokerTypeOK, SubmitWake

\* The type of what a worker step writes outside its own state.
WorkStoreOK == StoreTypeOK /\ wakes \in 0..MaxWakes /\ lock \in [Keys -> Workers \cup {Free, Dead}]

LEMMA WorkStartOK ==
    ASSUME StoreTypeOK, WorkerOK, NEW w \in Workers, WorkStart(w)
    PROVE  StoreTypeOK' /\ WorkerOK'
<1> USE DEF StoreTypeOK, RunTypeOK
<1>0. worker[w].pc # "idle" /\ Target(w) \in Requests /\ TurnTypeOK'
  BY JobTypes DEF WorkStart, TurnTypeOK
<1>a. /\ {"create", "revive", "stream", "apply"} \subseteq WorkerPcs
      /\ {"emit", "final_check"} \subseteq WorkerPcs
      /\ worker[w].out \in Outcomes
      /\ DoneStatuses \subseteq Outcomes /\ DoneStatuses \subseteq FrameKinds
      /\ "error" \in Outcomes /\ "error" \in FrameKinds /\ "blocked" \in DoneStatuses
  BY DEF WorkerPcs, Outcomes, FrameKinds, DoneStatuses, WorkerOK
<1>b. \A pc \in {"create", "revive", "stream", "apply"} : Goto(w, pc) => WorkerOK'
  <2> TAKE pc \in {"create", "revive", "stream", "apply"}
  <2>1. Fits(pc, worker[w].out)
    BY DEF Fits
  <2> QED
    BY <1>0, <1>a, <2>1, GotoOK
<1>c. \A out \in DoneStatuses \cup {"error"} : GotoWith(w, "emit", out) => WorkerOK'
  BY <1>0, <1>a, GotoOK DEF Fits
<1>d. \A s \in {"running"}, p \in {"none", "claimed"} :
         Checkpointed(run[Target(w)], s, p) \in RunRows
  BY <1>0, RunRowTypes DEF RunStatuses, ActiveRunStatuses, PendingDecisions
<1>e. \A row \in RunRows : [row EXCEPT !.msg = "streaming"] \in RunRows
  BY DEF RunRows, MessageStatuses
<1>1. CASE StartFirst(w) /\ worker[w].job.kind = "turn"
  BY <1>0, <1>1, <1>b, <1>c, <1>e DEF StartFirst, WorkStart
<1>2. CASE StartRetry(w) /\ worker[w].job.kind = "turn"
  <2>1. NoRun \in RunRows
    BY DEF NoRun, RunRows, Ages, PendingDecisions, MessageStatuses
  <2>2. CASE UNCHANGED run /\ GotoWith(w, "emit", "error")
    BY <1>0, <1>c, <1>2, <2>2 DEF WorkStart
  <2>3. ASSUME NEW x \in Requests, NEW pc \in {"create", "revive"},
               run' = [run EXCEPT ![x] = NoRun, ![Key(w)] = [run[x] EXCEPT !.msg = "streaming"]],
               GotoRelabelled(w, pc, x)
        PROVE  StoreTypeOK' /\ WorkerOK'
    <3>1. run' \in [Requests -> RunRows]
      BY <2>1, <2>3, <1>e
    <3>2. WorkerOK'
      BY <1>0, <1>2, <2>3, RelabelledOK DEF WorkStart
    <3> QED
      BY <1>0, <1>2, <2>3, <3>1, <3>2 DEF WorkStart
  <2> QED
    BY <1>2, <2>2, <2>3 DEF StartRetry, SavedMessage
<1>3. CASE StartAnswer(w)
  BY <1>0, <1>3, <1>b, <1>c, <1>d DEF StartAnswer, WorkStart
<1>4. CASE StartApproval(w)
  <2>1. Fits("final_check", "blocked")
    BY <1>a DEF Fits
  <2>2. GotoWith(w, "final_check", "blocked") => WorkerOK'
    BY <1>0, <1>a, <2>1, GotoOK
  <2> QED
    BY <1>0, <1>4, <1>b, <1>c, <1>d, <2>2 DEF StartApproval, WorkStart
<1> QED
  BY <1>1, <1>2, <1>3, <1>4 DEF WorkStart, StartTurn

LEMMA WorkRunsOK ==
    ASSUME StoreTypeOK, WorkerOK, NEW w \in Workers,
           \/ WorkCreate(w) \/ WorkRevive(w) \/ WorkApply(w)
           \/ WorkHeartbeat(w) \/ WorkRound(w) \/ WorkSeesCancel(w) \/ WorkDeadline(w) \/ WorkFails(w) \/ WorkAnswers(w)
    PROVE  StoreTypeOK' /\ WorkerOK'
<1> USE DEF StoreTypeOK, RunTypeOK, TurnTypeOK
<1>0. worker[w].pc # "idle" /\ Target(w) \in Requests /\ Key(w) \in Keys
  BY JobTypes DEF WorkCreate, WorkRevive, WorkApply, WorkHeartbeat, WorkRound, WorkSeesCancel,
                  WorkDeadline, WorkFails, WorkAnswers
<1>a. /\ {"stream", "final_check", "emit"} \subseteq WorkerPcs
      /\ worker[w].out \in Outcomes
      /\ DoneStatuses \cup {"error"} \subseteq Outcomes
      /\ DoneStatuses \cup {"error"} \subseteq FrameKinds
      /\ {"cancelled", "ready", "blocked"} \cup PausedQueueStatuses \subseteq DoneStatuses
      /\ {"running", "cancelled", "failed"} \subseteq RunStatuses
      /\ "none" \in PendingDecisions /\ "fresh" \in Ages /\ "error" \in MessageStatuses
  BY DEF WorkerPcs, Outcomes, FrameKinds, DoneStatuses, WorkerOK, PausedQueueStatuses, RunStatuses,
         ActiveRunStatuses, PendingDecisions, Ages, MessageStatuses
<1>b. Goto(w, "stream") => WorkerOK'
  BY <1>0, <1>a, GotoOK DEF Fits
<1>c. \A out \in DoneStatuses : GotoWith(w, "final_check", out) => WorkerOK'
  BY <1>0, <1>a, GotoOK DEF Fits
<1>d. GotoWith(w, "emit", "error") => WorkerOK'
  BY <1>0, <1>a, GotoOK DEF Fits
<1>e. \A row \in RunRows : /\ Checkpointed(row, "running", "none") \in RunRows
                          /\ FinishedRun(row, "cancelled") \in RunRows
                          /\ FinishedRun(row, "failed") \in RunRows
  BY <1>a, RunRowTypes
<1>f. \A row \in RunRows : /\ [row EXCEPT !.lease = FALSE] \in RunRows
                          /\ [row EXCEPT !.lease = FALSE, !.msg = "error"] \in RunRows
                          /\ [row EXCEPT !.beat = "fresh"] \in RunRows
  BY <1>a DEF RunRows
<1>1. CASE WorkCreate(w)
  <2>1. worker[w].job.kind = "turn" \/ worker[w].job.kind # "turn"
    OBVIOUS
  <2>2. run' \in [Requests -> RunRows]
    <3>1. \A r \in Requests : CreatedRun(run[r]) \in RunRows
      BY <1>a, RunRowTypes
    <3> QED
      BY <1>1, <3>1 DEF WorkCreate
  <2> QED
    BY <1>1, <1>b, <2>2 DEF WorkCreate
<1>2. CASE WorkRevive(w)
  BY <1>2, <1>b, <1>e, <1>f DEF WorkRevive
<1>3. CASE WorkApply(w)
  BY <1>0, <1>3, <1>b, <1>e DEF WorkApply
<1>4. CASE WorkHeartbeat(w)
  BY <1>0, <1>4, <1>f, WorkerUnchangedOK DEF WorkHeartbeat
<1>5. CASE WorkRound(w)
  BY <1>0, <1>5, <1>e, WorkerUnchangedOK DEF WorkRound
<1>6. CASE WorkSeesCancel(w)
  BY <1>0, <1>6, <1>a, <1>c, <1>e, <1>f DEF WorkSeesCancel
<1>7. CASE WorkFails(w)
  BY <1>0, <1>7, <1>d, <1>e, <1>f DEF WorkFails
<1>8. CASE WorkDeadline(w)
  <2>1. \A row \in RunRows : FinishedRun(Checkpointed(row, "blocked", "none"), "blocked") \in RunRows
    BY RunRowTypes DEF RunStatuses, PendingDecisions
  <2>2. \A row \in RunRows : [row EXCEPT !.lease = FALSE] \in RunRows
    BY DEF RunRows
  <2>3. run' \in [Requests -> RunRows]
    BY <1>0, <1>8, <2>1, <2>2 DEF WorkDeadline
  <2>4. WorkerOK'
    BY <1>8, <1>a, <1>c DEF WorkDeadline
  <2> QED
    BY <1>8, <2>3, <2>4 DEF WorkDeadline
<1>9. CASE WorkAnswers(w)
  <2>1. PICK out \in DoneStatuses : GotoWith(w, "final_check", out)
    BY <1>9, <1>a DEF WorkAnswers
  <2> QED
    BY <1>9, <1>c, <2>1 DEF WorkAnswers, StoreVars
<1> QED
  BY <1>1, <1>2, <1>3, <1>4, <1>5, <1>6, <1>7, <1>8, <1>9

LEMMA WorkEndsOK ==
    ASSUME WorkStoreOK, BrokerTypeOK, WorkerOK, NEW w \in Workers,
           \/ WorkCheck(w) \/ WorkEarlyRuns(w) \/ WorkEarlyTurn(w)
           \/ WorkFinalCheck(w) \/ WorkSave(w) \/ WorkEmit(w)
           \/ WorkFinalRun(w) \/ WorkFinalTurn(w) \/ WorkUnlock(w)
    PROVE  WorkStoreOK' /\ WorkerOK'
<1> USE DEF WorkStoreOK, StoreTypeOK, RunTypeOK, TurnTypeOK
<1>0. worker[w].pc # "idle" /\ Target(w) \in Requests /\ Key(w) \in Keys
  BY JobTypes DEF WorkCheck, WorkEarlyRuns, WorkEarlyTurn, WorkFinalCheck, WorkSave, WorkEmit,
                  WorkFinalRun, WorkFinalTurn, WorkUnlock
<1>a. /\ worker[w].out \in Outcomes
      /\ {"cancelled", "error"} \subseteq Outcomes
      /\ {"cancelled", "error"} \subseteq FrameKinds
      /\ DoneStatuses \subseteq FrameKinds
      /\ DoneStatuses \subseteq MessageStatuses /\ DoneStatuses \subseteq RunStatuses
      /\ {"cancelled", "failed"} \subseteq DoneStatuses
      /\ {"question", "approval"} \subseteq PendingDecisions /\ "none" \in PendingDecisions
      /\ FrameKinds \ {"error"} \subseteq DoneStatuses
      /\ {"early_runs", "early_turn", "start", "save", "emit", "final_run", "final_turn", "unlock"}
           \subseteq WorkerPcs
  BY DEF WorkerPcs, Outcomes, FrameKinds, DoneStatuses, WorkerOK, RunStatuses,
         ActiveRunStatuses, PendingDecisions, MessageStatuses
<1>b. \A pc \in WorkerPcs : Fits(pc, worker[w].out) /\ Goto(w, pc) => WorkerOK'
  BY <1>0, <1>a, GotoOK
<1>c. \A k \in Keys, f \in FrameKinds : [frames EXCEPT ![k] = Append(@, f)] \in [Keys -> Seq(FrameKinds)]
  OBVIOUS
<1>d. ASSUME NEW k, NEW status, FinishTurnOf(k, status)
      PROVE  turn' \in [Requests -> TurnRows]
  <2>1. \A r \in Requests : FinishedTurn(turn[r], status) \in TurnRows
    BY TurnRowTypes
  <2>2. CASE HasTurn(k)
    <3>1. k \in Requests
      BY <2>2 DEF HasTurn
    <3> QED
      BY <1>d, <2>1, <2>2, <3>1 DEF FinishTurnOf
  <2>3. CASE ~HasTurn(k)
    BY <1>d, <2>3 DEF FinishTurnOf
  <2> QED
    BY <2>2, <2>3
<1>e. \A pc \in {"start", "unlock"} : Goto(w, pc) => WorkerOK'
  BY <1>a, <1>b DEF Fits
<1>1. CASE WorkCheck(w)
  <2>1. GotoWith(w, "early_runs", "cancelled") => WorkerOK'
    BY <1>0, <1>a, GotoOK DEF Fits
  <2>2. WorkerOK'
    <3>1. \/ Goto(w, "unlock") \/ Goto(w, "start") \/ GotoWith(w, "early_runs", "cancelled")
      BY <1>1, Zenon DEF WorkCheck
    <3> QED
      BY <1>e, <2>1, <3>1
  <2>3. frames' \in [Keys -> Seq(FrameKinds)]
    <3>1. \/ UNCHANGED frames
          \/ frames' = [frames EXCEPT ![Key(w)] = Append(@, "cancelled")]
      BY <1>1, Zenon DEF WorkCheck
    <3>2. [frames EXCEPT ![Key(w)] = Append(@, "cancelled")] \in [Keys -> Seq(FrameKinds)]
      BY <1>0, <1>a, <1>c
    <3> QED
      BY <3>1, <3>2
  <2> QED
    BY <1>1, <2>2, <2>3 DEF WorkCheck
<1>2. CASE WorkEarlyRuns(w)
  <2>1. \A r \in Requests : CancellationFinished(run[r]) \in RunRows
    BY <1>a, RunRowTypes
  <2>2. WorkerOK'
    BY <1>2, <1>a, <1>b DEF WorkEarlyRuns, Fits, WorkerOK, WorkerCarries
  <2> QED
    BY <1>2, <2>1, <2>2 DEF WorkEarlyRuns
<1>3. CASE WorkEarlyTurn(w)
  <2>1. WorkerOK'
    BY <1>3, <1>a, <1>b DEF WorkEarlyTurn, Fits, WorkerOK, WorkerCarries
  <2> QED
    BY <1>3, <1>d, <2>1 DEF WorkEarlyTurn
<1>4. CASE WorkFinalCheck(w)
  <2>1. GotoWith(w, "emit", "error") => WorkerOK'
    BY <1>0, <1>a, GotoOK DEF Fits
  <2>2. worker[w].out \in DoneStatuses
    BY <1>4 DEF WorkFinalCheck, WorkerOK, WorkerCarries
  <2>3. Goto(w, "save") => WorkerOK'
    BY <1>a, <1>b, <2>2 DEF Fits
  <2>4. \A row \in RunRows : [row EXCEPT !.msg = worker[w].out] \in RunRows
    BY <1>a, <2>2 DEF RunRows
  <2> QED
    BY <1>0, <1>4, <2>1, <2>3, <2>4 DEF WorkFinalCheck
<1>5. CASE WorkSave(w)
  <2>1. worker[w].out \in DoneStatuses
    BY <1>5 DEF WorkSave, WorkerOK, WorkerCarries
  <2>2. WorkerOK'
    BY <1>5, <1>a, <1>b, <2>1 DEF WorkSave, Fits
  <2>3. \A row \in RunRows : /\ Checkpointed(row, "awaiting_user", "question") \in RunRows
                            /\ Checkpointed(row, "awaiting_approval", "approval") \in RunRows
                            /\ FinishedRun(row, worker[w].out) \in RunRows
    BY <1>a, <2>1, RunRowTypes DEF DoneStatuses
  <2>4. run' \in [Requests -> RunRows]
    BY <1>0, <1>5, <2>3 DEF WorkSave
  <2> QED
    BY <1>5, <2>2, <2>4 DEF WorkSave
<1>6. CASE WorkEmit(w)
  <2>1. worker[w].out \in FrameKinds
    BY <1>6 DEF WorkEmit, WorkerOK, WorkerCarries
  <2>2. WorkerOK'
    BY <1>6, <1>a, <1>b, <2>1 DEF WorkEmit, Fits
  <2> QED
    BY <1>0, <1>6, <1>c, <2>1, <2>2 DEF WorkEmit
<1>7. CASE WorkFinalRun(w)
  <2>1. worker[w].out \in FrameKinds
    BY <1>7 DEF WorkFinalRun, WorkerOK, WorkerCarries
  <2>2. WorkerOK'
    BY <1>7, <1>a, <1>b, <2>1 DEF WorkFinalRun, Fits
  <2>3. RunStatusOf(worker[w].out) \in RunStatuses
    BY <1>a, <2>1 DEF RunStatusOf
  <2>4. \A row \in RunRows : FinishedForRequest(row, RunStatusOf(worker[w].out)) \in RunRows
    BY <1>a, <2>3, RunRowTypes
  <2> QED
    BY <1>7, <2>2, <2>4 DEF WorkFinalRun
<1>8. CASE WorkFinalTurn(w)
  <2>1. WorkerOK'
    BY <1>8, <1>e DEF WorkFinalTurn
  <2> QED
    BY <1>8, <1>d, <2>1, WakeTypes DEF WorkFinalTurn
<1>9. CASE WorkUnlock(w)
  <2>1. WorkerOK'
    BY <1>9, WorkerIdleOK DEF WorkUnlock
  <2> QED
    BY <1>0, <1>9, <2>1 DEF WorkUnlock, StoreVars
<1> QED
  BY <1>1, <1>2, <1>3, <1>4, <1>5, <1>6, <1>7, <1>8, <1>9

LEMMA AbortOK ==
    ASSUME StoreTypeOK, WorkerOK, NEW w \in Workers, WorkAborts(w) \/ WorkEmitFails(w)
    PROVE  StoreTypeOK' /\ WorkerOK'
<1>0. worker[w].pc # "idle" /\ Key(w) \in Keys
  BY JobTypes DEF WorkAborts, WorkEmitFails
<1>1. \A pc \in {"emit", "final_run"} : GotoWith(w, pc, "error") => WorkerOK'
  BY <1>0, GotoOK DEF Fits, WorkerPcs, Outcomes, FrameKinds
<1>2. CASE WorkAborts(w)
  BY <1>1, <1>2 DEF WorkAborts, StoreVars, StoreTypeOK, RunTypeOK, TurnTypeOK
<1>3. CASE WorkEmitFails(w)
  <2>1. [frames EXCEPT ![Key(w)] = Append(@, "error")] \in [Keys -> Seq(FrameKinds)]
    BY <1>0 DEF StoreTypeOK, RunTypeOK, FrameKinds
  <2>2. frames' \in [Keys -> Seq(FrameKinds)]
    BY <1>3, <2>1 DEF WorkEmitFails, StoreTypeOK, RunTypeOK
  <2> QED
    BY <1>1, <1>3, <2>2 DEF WorkEmitFails, StoreTypeOK, RunTypeOK, TurnTypeOK
<1> QED
  BY <1>2, <1>3

LEMMA TakeOK ==
    ASSUME BrokerTypeOK, WorkerOK, NEW w \in Workers, NEW job \in jobs, NEW redelivered \in BOOLEAN,
           WorkTake(w, job, redelivered)
    PROVE  BrokerTypeOK' /\ WorkerOK'
<1>1. job \in Jobs /\ job.key \in Keys
  BY DEF BrokerTypeOK, Jobs
<1>2. jobs' \subseteq Jobs
  BY DEF BrokerTypeOK, WorkTake
<1>3. CASE LockIsFree(job.key)
  <2>1. worker' = [worker EXCEPT ![w] = [pc |-> "check", job |-> job, out |-> "none"]]
    BY <1>3 DEF WorkTake
  <2>2. WorkerOK'
    BY <1>1, <2>1 DEF WorkerOK, WorkerCarries, WorkerPcs, Outcomes
  <2> QED
    BY <1>1, <1>2, <1>3, <2>2 DEF BrokerTypeOK, WorkTake
<1>4. CASE ~LockIsFree(job.key)
  BY <1>2, <1>4, WorkerUnchangedOK DEF BrokerTypeOK, WorkTake
<1> QED
  BY <1>3, <1>4
-----------------------------------------------------------------------------
(* Dispatchers, clients and the beat. *)

DispOK == /\ disp \in [Dispatchers -> [pc : DispPcs, key : Requests \cup {None}]]
          /\ \A d \in Dispatchers : DispatcherCarries(d)

LEMMA DispatchOK ==
    ASSUME StoreTypeOK, BrokerTypeOK, DispOK, NEW d \in Dispatchers, DispStep(d)
    PROVE  StoreTypeOK' /\ BrokerTypeOK' /\ DispOK'
<1> USE DEF BrokerTypeOK
<1>a. \A pc \in DispPcs \ {"submit"} : DispGoto(d, pc) => DispOK'
  BY DEF DispOK, DispatcherCarries, DispGoto
<1>b. {"terminal_runs", "claims", "resume", "claim"} \subseteq DispPcs \ {"submit"}
  BY DEF DispPcs
<1>c. disp' = [disp EXCEPT ![d] = IdleDispatcher] => DispOK'
  BY DEF DispOK, DispatcherCarries, IdleDispatcher, DispPcs
<1>d. UNCHANGED StoreVars /\ StoreTypeOK => StoreTypeOK'
  BY DEF StoreVars, StoreTypeOK, RunTypeOK, TurnTypeOK
<1>1. CASE DispTake(d)
  <2>1. wakes' \in 0..MaxWakes
    BY <1>1, MaxWakesAssumption DEF DispTake
  <2> QED
    BY <1>1, <1>a, <1>b, <1>d, <2>1 DEF DispTake
<1>2. CASE DispTerminalRuns(d)
  BY <1>2, <1>a, <1>b, RecoverTypes DEF DispTerminalRuns
<1>3. CASE DispClaims(d)
  BY <1>3, <1>a, <1>b, RecoverTypes DEF DispClaims
<1>4. CASE DispResume(d)
  BY <1>4, <1>a, <1>b, ControlTypes DEF DispResume
<1>5. CASE DispClaim(d)
  <2>1. DispOK'
    BY <1>5 DEF DispClaim, DispOK, DispatcherCarries, DispPcs
  <2> QED
    BY <1>5, <2>1, ClaimTypes DEF DispClaim
<1>6. CASE DispFindsNothing(d)
  BY <1>6, <1>c, <1>d DEF DispFindsNothing
<1>7. CASE DispSubmit(d)
  <2>1. disp[d].key \in Requests
    BY <1>7 DEF DispSubmit, DispOK, DispatcherCarries
  <2>2. [kind |-> "turn", key |-> disp[d].key, target |-> disp[d].key] \in Jobs
    BY <2>1 DEF Jobs, JobKinds, Keys
  <2> QED
    BY <1>7, <1>c, <1>d, <2>2 DEF DispSubmit
<1>8. CASE DispRelease(d)
  BY <1>8, <1>c, ClaimTypes DEF DispRelease
<1> QED
  BY <1>1, <1>2, <1>3, <1>4, <1>5, <1>6, <1>7, <1>8 DEF DispStep

\* What handlers write to a run's row.
LEMMA HandlerRowTypes ==
    ASSUME StoreTypeOK, NEW r \in Requests, NEW decision \in {"approved", "denied"}
    PROVE  /\ CancelRequested(run[r]) \in RunRows
           /\ QuestionClaimed(run[r]) \in RunRows
           /\ ApprovalResolved(run[r], decision) \in RunRows
<1>1. run[r] \in RunRows /\ "ready" \in RunStatuses /\ "none" \in PendingDecisions
  BY DEF StoreTypeOK, RunTypeOK, RunStatuses, PendingDecisions
<1>2. CancelRequested(run[r]) \in RunRows /\ QuestionClaimed(run[r]) \in RunRows
  BY <1>1, RunRowTypes
<1>3. ApprovalResolved(run[r], decision) \in RunRows
  BY <1>1 DEF ApprovalResolved, RunRows, RunStatuses, ActiveRunStatuses, PendingDecisions
<1> QED
  BY <1>2, <1>3

LEMMA EnteringTypes ==
    ASSUME ApiTypeOK, NEW c \in Clients, NEW op, NEW pc \in ApiPcs, NEW key \in Requests \cup {None},
           Enters(c, op, pc, key)
    PROVE  ApiTypeOK'
<1>1. calls + 1 \in 0..MaxCalls
  BY MaxCallsAssumption DEF ApiTypeOK, Enters
<1> QED
  BY <1>1 DEF ApiTypeOK, Enters

LEMMA MovingTypes ==
    ASSUME ApiTypeOK, NEW c \in Clients, NEW from, NEW pc \in ApiPcs,
           Moves(c, from, pc) \/ Returns(c, from) \/ UNCHANGED ApiVars
    PROVE  ApiTypeOK'
BY DEF ApiTypeOK, Moves, Returns, IdleClient, ApiVars, ApiPcs

LEMMA HandlerWrites ==
    ASSUME StoreTypeOK, BrokerTypeOK
    PROVE  /\ CancelRuns => run' \in [Requests -> RunRows]
           /\ \A r : CancelTurn(r) => turn' \in [Requests -> TurnRows]
           /\ turn' = [r \in Requests |-> ClearedTurn(turn[r])] => turn' \in [Requests -> TurnRows]
           /\ \A job \in Jobs : Submit(job) => jobs' \subseteq Jobs
           /\ \A k : SetMarker(k) => marker' \in [Keys -> BOOLEAN]
           /\ \A job \in Jobs : job.kind # "turn" /\ Continue(job)
                               => turn' \in [Requests -> TurnRows] /\ jobs' \subseteq Jobs
<1> USE DEF StoreTypeOK, RunTypeOK, TurnTypeOK, BrokerTypeOK
<1>1. CancelRuns => run' \in [Requests -> RunRows]
  BY HandlerRowTypes DEF CancelRuns
<1>a. \A r \in Requests : /\ CancelRequestedTurn(turn[r]) \in TurnRows
                          /\ ClearedTurn(turn[r]) \in TurnRows
                          /\ Resumed(turn[r]) \in TurnRows
  BY TurnRowTypes
<1>2. \A r : CancelTurn(r) => turn' \in [Requests -> TurnRows]
  BY ZenonT(60), <1>a DEF CancelTurn
<1>3. turn' = [r \in Requests |-> ClearedTurn(turn[r])] => turn' \in [Requests -> TurnRows]
  BY <1>a
<1>4. \A job \in Jobs : Submit(job) => jobs' \subseteq Jobs
  BY DEF Submit
<1>5. \A k : SetMarker(k) => marker' \in [Keys -> BOOLEAN]
  BY DEF SetMarker
<1>6. ASSUME NEW job \in Jobs, job.kind # "turn", Continue(job)
      PROVE  turn' \in [Requests -> TurnRows] /\ jobs' \subseteq Jobs
  <2>1. \A k \in Keys : [job EXCEPT !.key = k] \in Jobs
    BY <1>6 DEF Jobs
  <2>2. CASE UNCHANGED turn /\ Submit([job EXCEPT !.key = Anon])
    BY <1>4, <2>1, <2>2 DEF Keys
  <2>3. ASSUME NEW r \in Requests, turn' = [turn EXCEPT ![r] = Resumed(@)],
               Submit([job EXCEPT !.key = r])
        PROVE  turn' \in [Requests -> TurnRows] /\ jobs' \subseteq Jobs
    BY <1>4, <1>a, <2>1, <2>3 DEF Keys
  <2> QED
    BY <1>6, <2>2, <2>3 DEF Continue, FirstPaused, InStatus
<1> QED
  BY <1>1, <1>2, <1>3, <1>4, <1>5, <1>6

LEMMA CallTypes ==
    ASSUME StoreTypeOK, BrokerTypeOK, ApiTypeOK, NEW c \in Clients, ApiStep(c)
    PROVE  StoreTypeOK' /\ BrokerTypeOK' /\ ApiTypeOK'
<1>0. /\ UNCHANGED StoreVars => StoreTypeOK'
      /\ UNCHANGED wakes => wakes' \in 0..MaxWakes
      /\ UNCHANGED jobs => jobs' \subseteq Jobs
      /\ UNCHANGED lock => lock' \in [Keys -> Workers \cup {Free, Dead}]
      /\ UNCHANGED marker => marker' \in [Keys -> BOOLEAN]
  BY DEF StoreVars, StoreTypeOK, RunTypeOK, TurnTypeOK, BrokerTypeOK
<1>a. \A op : Calls(c, op) => ApiTypeOK'
  BY EnteringTypes DEF Calls, ApiPcs
<1>b. \A op, pc, key : pc \in ApiPcs /\ key \in Requests \cup {None} /\ Enters(c, op, pc, key) => ApiTypeOK'
  BY EnteringTypes
<1>c. {"retry_wake", "steer_wake", "run_now", "cancel_turn", "queued_signal", "pause_marker", "clear_rows",
       "list_claims", "list_reclaims"} \subseteq ApiPcs
  BY DEF ApiPcs
<1>d. \A kind \in {"answer", "approval"}, r \in Requests :
        [kind |-> kind, key |-> Anon, target |-> r] \in Jobs
  BY DEF Jobs, JobKinds, Keys
<1>1. ASSUME NEW r \in Requests, EnqueueTurn(r)
      PROVE  StoreTypeOK' /\ BrokerTypeOK' /\ ApiTypeOK'
  <2>1. ApiTypeOK'
    BY <1>1, MovingTypes DEF EnqueueTurn, ApiPcs
  <2> QED
    BY <1>0, <1>1, <2>1, AddTypes, WakeTypes DEF EnqueueTurn, BrokerTypeOK
<1>2. ASSUME NEW r \in Requests, EnqueueSteered(c, r)
      PROVE  StoreTypeOK' /\ BrokerTypeOK' /\ ApiTypeOK'
  BY <1>0, <1>2, <1>a, AddTypes, WakeTypes DEF EnqueueSteered, BrokerTypeOK
<1>3. ASSUME NEW r \in Requests, SteerTurn(c, r)
      PROVE  StoreTypeOK' /\ BrokerTypeOK' /\ ApiTypeOK'
  BY <1>0, <1>3, <1>b, <1>c, AddTypes DEF SteerTurn, BrokerTypeOK
<1>4. ASSUME NEW r \in Requests, RunNow(c, r)
      PROVE  StoreTypeOK' /\ BrokerTypeOK' /\ ApiTypeOK'
  BY <1>0, <1>4, <1>b, <1>c DEF RunNow, BrokerTypeOK
<1>5. ASSUME NEW r \in Requests, NEW failed \in Requests, RetryTurn(c, failed, r)
      PROVE  StoreTypeOK' /\ BrokerTypeOK' /\ ApiTypeOK'
  BY <1>0, <1>5, <1>b, <1>c, AddTypes DEF RetryTurn, BrokerTypeOK
<1>6. ASSUME NEW r \in Requests, CancelRequest(c, r)
      PROVE  StoreTypeOK' /\ BrokerTypeOK' /\ ApiTypeOK'
  <2>1. StoreTypeOK'
    BY <1>6, HandlerWrites DEF CancelRequest, StoreTypeOK, RunTypeOK, TurnTypeOK
  <2> QED
    BY <1>0, <1>6, <1>b, <1>c, <2>1 DEF CancelRequest, BrokerTypeOK
<1>7. ASSUME NEW r \in Requests, CancelQueued(c, r)
      PROVE  StoreTypeOK' /\ BrokerTypeOK' /\ ApiTypeOK'
  <2>1. StoreTypeOK'
    BY <1>7, HandlerWrites DEF CancelQueued, StoreTypeOK, RunTypeOK, TurnTypeOK
  <2> QED
    BY <1>0, <1>7, <1>b, <1>c, <2>1 DEF CancelQueued, BrokerTypeOK
<1>8. ASSUME NEW r \in Requests, Answer(c, r)
      PROVE  StoreTypeOK' /\ BrokerTypeOK' /\ ApiTypeOK'
  <2>1. turn' \in [Requests -> TurnRows] /\ jobs' \subseteq Jobs
    BY <1>8, <1>d, HandlerWrites DEF Answer, JobKinds
  <2>2. run' \in [Requests -> RunRows]
    BY <1>8, HandlerRowTypes DEF Answer, StoreTypeOK, RunTypeOK
  <2> QED
    BY <1>0, <1>8, <1>a, <2>1, <2>2 DEF Answer, BrokerTypeOK, StoreTypeOK, RunTypeOK, TurnTypeOK
<1>9. ASSUME NEW r \in Requests, Decide(c, r)
      PROVE  StoreTypeOK' /\ BrokerTypeOK' /\ ApiTypeOK'
  <2>1. run' \in [Requests -> RunRows]
    BY <1>9, HandlerRowTypes DEF Decide, StoreTypeOK, RunTypeOK
  <2> QED
    BY <1>0, <1>9, <1>a, <2>1 DEF Decide, BrokerTypeOK, StoreTypeOK, RunTypeOK, TurnTypeOK
<1>10. ASSUME NEW r \in Requests, Approve(c, r)
       PROVE  StoreTypeOK' /\ BrokerTypeOK' /\ ApiTypeOK'
  <2>1. turn' \in [Requests -> TurnRows] /\ jobs' \subseteq Jobs
    BY <1>10, <1>d, HandlerWrites DEF Approve, JobKinds
  <2> QED
    BY <1>0, <1>10, <1>a, <2>1 DEF Approve, BrokerTypeOK, StoreTypeOK, RunTypeOK, TurnTypeOK
<1>11. CASE PauseQueue(c)
  BY <1>0, <1>11, <1>b, <1>c, ControlTypes DEF PauseQueue, BrokerTypeOK
<1>12. CASE ResumeQueue(c)
  BY <1>0, <1>12, <1>a, ControlTypes, WakeTypes DEF ResumeQueue, BrokerTypeOK
<1>13. CASE ClearQueue(c)
  <2>1. CASE Calls(c, "clear") /\ turn' = [r \in Requests |-> ClearedTurn(turn[r])]
             /\ control' = "open" /\ UNCHANGED <<run, frames, jobs, wakes, lock, marker>>
    <3>1. StoreTypeOK'
      BY <2>1, HandlerWrites DEF StoreTypeOK, RunTypeOK, TurnTypeOK, ControlStates
    <3> QED
      BY <1>0, <1>a, <2>1, <3>1 DEF BrokerTypeOK
  <2>2. ASSUME NEW r \in Requests, Enters(c, "clear", "clear_rows", r),
               marker' = [marker EXCEPT ![r] = TRUE],
               UNCHANGED <<StoreVars, jobs, wakes, lock>>
        PROVE  StoreTypeOK' /\ BrokerTypeOK' /\ ApiTypeOK'
    BY <1>0, <1>b, <1>c, <2>2 DEF BrokerTypeOK
  <2> QED
    BY <1>13, <2>1, <2>2 DEF ClearQueue, ActiveRequest, InStatus
<1>14. CASE ListQueue(c)
  BY <1>0, <1>14, <1>b, <1>c, RecoverTypes DEF ListQueue, BrokerTypeOK
<1> QED
  BY <1>1, <1>2, <1>3, <1>4, <1>5, <1>6, <1>7, <1>8, <1>9, <1>10, <1>11, <1>12, <1>13, <1>14 DEF ApiStep

LEMMA ReturnTypes ==
    ASSUME StoreTypeOK, BrokerTypeOK, ApiTypeOK, NEW c \in Clients, ApiFinishes(c)
    PROVE  StoreTypeOK' /\ BrokerTypeOK' /\ ApiTypeOK'
<1>0. /\ UNCHANGED StoreVars => StoreTypeOK'
      /\ UNCHANGED wakes => wakes' \in 0..MaxWakes
      /\ UNCHANGED jobs => jobs' \subseteq Jobs
      /\ UNCHANGED lock => lock' \in [Keys -> Workers \cup {Free, Dead}]
      /\ UNCHANGED marker => marker' \in [Keys -> BOOLEAN]
  BY DEF StoreVars, StoreTypeOK, RunTypeOK, TurnTypeOK, BrokerTypeOK
<1>a. \A from : Returns(c, from) => ApiTypeOK'
  BY MovingTypes DEF ApiPcs
<1>b. \A from, pc : pc \in ApiPcs /\ Moves(c, from, pc) => ApiTypeOK'
  BY MovingTypes
<1>c. {"pause_turn", "cancel_signal", "pause_runs", "list_resume", "list_wakes"} \subseteq ApiPcs
  BY DEF ApiPcs
<1>1. CASE SteerWake(c)
  BY <1>0, <1>1, <1>a, ControlTypes, WakeTypes DEF SteerWake, BrokerTypeOK
<1>2. CASE RetryWake(c)
  BY <1>0, <1>2, <1>a, ControlTypes, WakeTypes DEF RetryWake, BrokerTypeOK
<1>3. CASE PauseMarks(c)
  <2>1. CASE Returns(c, "pause_marker") /\ UNCHANGED <<StoreVars, jobs, wakes, lock, marker>>
    BY <1>0, <1>a, <2>1 DEF BrokerTypeOK
  <2>2. ASSUME NEW r \in Requests,
               api' = [api EXCEPT ![c] = [pc |-> "pause_runs", key |-> r]],
               marker' = [marker EXCEPT ![r] = TRUE],
               UNCHANGED <<StoreVars, jobs, wakes, lock, calls>>
        PROVE  StoreTypeOK' /\ BrokerTypeOK' /\ ApiTypeOK'
    BY <1>0, <1>c, <2>2 DEF BrokerTypeOK, ApiTypeOK
  <2> QED
    BY <1>3, <2>1, <2>2 DEF PauseMarks, ActiveRequest, InStatus
<1>4. CASE PauseRuns(c)
  <2>1. StoreTypeOK'
    BY <1>4, HandlerWrites DEF PauseRuns, StoreTypeOK, RunTypeOK, TurnTypeOK
  <2> QED
    BY <1>0, <1>4, <1>b, <1>c, <2>1 DEF PauseRuns, BrokerTypeOK
<1>5. CASE PauseTurn(c)
  <2>1. StoreTypeOK'
    BY <1>5, HandlerWrites DEF PauseTurn, StoreTypeOK, RunTypeOK, TurnTypeOK
  <2> QED
    BY <1>0, <1>5, <1>a, <2>1 DEF PauseTurn, BrokerTypeOK
<1>6. CASE ClearRows(c)
  <2>1. StoreTypeOK'
    BY <1>6, HandlerWrites DEF ClearRows, StoreTypeOK, RunTypeOK, TurnTypeOK, ControlStates
  <2> QED
    BY <1>0, <1>6, <1>a, <2>1, WakeTypes DEF ClearRows, BrokerTypeOK
<1>7. CASE ListClaims(c)
  BY <1>0, <1>7, <1>b, <1>c, RecoverTypes DEF ListClaims, BrokerTypeOK
<1>8. CASE CancelRequestTurn(c)
  <2>1. StoreTypeOK'
    BY <1>8, HandlerWrites DEF CancelRequestTurn, StoreTypeOK, RunTypeOK, TurnTypeOK
  <2> QED
    BY <1>0, <1>8, <1>b, <1>c, <2>1 DEF CancelRequestTurn, BrokerTypeOK
<1>9. ASSUME NEW from, Signal(c, from)
      PROVE  StoreTypeOK' /\ BrokerTypeOK' /\ ApiTypeOK'
  <2>1. marker' \in [Keys -> BOOLEAN]
    BY <1>9, HandlerWrites DEF Signal
  <2> QED
    BY <1>0, <1>9, <1>a, <2>1, WakeTypes DEF Signal, BrokerTypeOK
<1>10. ASSUME NEW r \in Requests, RunNowSubmits(c, r)
       PROVE  StoreTypeOK' /\ BrokerTypeOK' /\ ApiTypeOK'
  <2> DEFINE job == [kind |-> "turn", key |-> r, target |-> r]
  <2>1. CASE UNCHANGED <<StoreVars, jobs>>
    BY <1>0, <1>10, <1>a, <2>1 DEF RunNowSubmits, BrokerTypeOK
  <2>2. CASE (Enqueue(r, FALSE) \/ (HasRow(r) /\ UNCHANGED StoreVars)) /\ Submit(job)
    <3>1. StoreTypeOK'
      BY <1>0, <2>2, AddTypes
    <3>2. job \in Jobs
      BY DEF Jobs, JobKinds, Keys
    <3>3. jobs' \subseteq Jobs
      BY <2>2, <3>2, HandlerWrites
    <3> QED
      BY <1>0, <1>10, <1>a, <3>1, <3>3 DEF RunNowSubmits, BrokerTypeOK
  <2> QED
    BY <1>10, <2>1, <2>2 DEF RunNowSubmits
<1>11. CASE ListResume(c)
  BY <1>0, <1>11, <1>a, ControlTypes, WakeTypes DEF ListResume, BrokerTypeOK
<1> QED
  BY <1>1, <1>2, <1>3, <1>4, <1>5, <1>6, <1>7, <1>8, <1>9, <1>10, <1>11
     DEF ApiFinishes, CancelSignal, QueuedSignal

LEMMA BeatTypes ==
    ASSUME StoreTypeOK, BrokerTypeOK, BeatTypeOK, BeatStep
    PROVE  StoreTypeOK' /\ BrokerTypeOK' /\ BeatTypeOK'
<1>0. /\ UNCHANGED StoreVars => StoreTypeOK'
      /\ UNCHANGED wakes => wakes' \in 0..MaxWakes
      /\ UNCHANGED jobs => jobs' \subseteq Jobs
      /\ UNCHANGED lock => lock' \in [Keys -> Workers \cup {Free, Dead}]
      /\ UNCHANGED marker => marker' \in [Keys -> BOOLEAN]
  BY DEF StoreVars, StoreTypeOK, RunTypeOK, TurnTypeOK, BrokerTypeOK
<1>a. \A from, to : to \in BeatPcs /\ BeatGoto(from, to) => BeatTypeOK'
  BY DEF BeatGoto, BeatTypeOK, IdleBeat
<1>b. {"runs", "close", "terminal_runs", "claims", "failure_pause", "wake", "idle"} = BeatPcs
  BY DEF BeatPcs
<1>1. CASE BeatStarts
  <2>1. BeatTypeOK'
    BY <1>1, <1>b DEF BeatStarts, BeatTypeOK, IdleBeat
  <2> QED
    BY <1>0, <1>1, <2>1 DEF BeatStarts, BrokerTypeOK
<1>2. CASE NoLeaseExpired
  BY <1>0, <1>2, <1>a, <1>b DEF NoLeaseExpired, BrokerTypeOK
<1>3. CASE CloseExpired
  <2>1. <<CloseFrame(LeaseOutcome(beat.key))>> \in Seq(FrameKinds)
    BY DEF CloseFrame, FrameKinds, DoneStatuses
  <2>2. frames' \in [Keys -> Seq(FrameKinds)]
    <3>1. \/ UNCHANGED frames
          \/ frames' = [frames EXCEPT ![beat.key] = <<CloseFrame(LeaseOutcome(beat.key))>>]
      BY <1>3 DEF CloseExpired
    <3>2. [frames EXCEPT ![beat.key] = <<CloseFrame(LeaseOutcome(beat.key))>>] \in [Keys -> Seq(FrameKinds)]
      BY <2>1 DEF StoreTypeOK, RunTypeOK
    <3> QED
      BY <3>1, <3>2 DEF StoreTypeOK, RunTypeOK
  <2>3. BeatTypeOK'
    BY <1>3, <1>b DEF CloseExpired, BeatTypeOK
  <2> QED
    BY <1>0, <1>3, <2>2, <2>3 DEF CloseExpired, StoreTypeOK, RunTypeOK, TurnTypeOK, BrokerTypeOK
<1>4. CASE BeatTerminalRuns
  BY <1>0, <1>4, <1>a, <1>b, RecoverTypes DEF BeatTerminalRuns, BrokerTypeOK
<1>5. CASE BeatClaims
  BY <1>0, <1>5, <1>a, <1>b, RecoverTypes, WakeTypes DEF BeatClaims, BrokerTypeOK
<1>6. CASE BeatFailurePause
  BY <1>0, <1>6, <1>a, <1>b, ControlTypes DEF BeatFailurePause, BrokerTypeOK
<1>7. CASE BeatWake
  BY <1>0, <1>7, <1>a, <1>b, WakeTypes DEF BeatWake, BrokerTypeOK
<1>8. ASSUME NEW r \in Requests, ExpireLease(r)
      PROVE  StoreTypeOK' /\ BrokerTypeOK' /\ BeatTypeOK'
  <2> DEFINE outcome == LeaseOutcome(r)
  <2>1. run[r] \in RunRows /\ outcome \in RunStatuses
    BY DEF StoreTypeOK, RunTypeOK, RunStatuses, LeaseOutcome
  <2>2. FinishedRun(run[r], outcome) \in RunRows /\ FinishedRun(run[r], outcome).msg = run[r].msg
    BY <2>1 DEF FinishedRun, RunRows, Ages
  <2>3. ClosedMessage(run[r].msg, outcome) \in MessageStatuses
    BY <2>1, RunRowTypes DEF PendingDecisions
  <2>4. \A row \in RunRows, msg \in MessageStatuses : [row EXCEPT !.lease = TRUE, !.msg = msg] \in RunRows
    BY DEF RunRows
  <2>5. run' = [run EXCEPT ![r] = [FinishedRun(run[r], outcome) EXCEPT
                    !.lease = TRUE, !.msg = ClosedMessage(FinishedRun(run[r], outcome).msg, outcome)]]
    BY <1>8, Zenon DEF ExpireLease
  <2>6. run' \in [Requests -> RunRows]
    <3> HIDE DEF outcome
    <3> QED
      BY <2>2, <2>3, <2>4, <2>5 DEF StoreTypeOK, RunTypeOK
  <2>7. BeatTypeOK'
    BY <1>8, <1>b DEF ExpireLease, BeatTypeOK
  <2> QED
    BY <1>0, <1>8, <2>6, <2>7 DEF ExpireLease, StoreTypeOK, RunTypeOK, TurnTypeOK, BrokerTypeOK
<1> QED
  BY <1>1, <1>2, <1>3, <1>4, <1>5, <1>6, <1>7, <1>8 DEF BeatStep
-----------------------------------------------------------------------------
(* Time and faults. *)

LEMMA TimeTypes ==
    ASSUME StoreTypeOK, TimePasses
    PROVE  StoreTypeOK'
<1> USE DEF StoreTypeOK, RunTypeOK, TurnTypeOK
<1>1. ASSUME NEW r \in Requests, TurnAges(r) \/ EndAges(r)
      PROVE  StoreTypeOK'
  <2>1. /\ [turn[r] EXCEPT !.started = "stale"] \in TurnRows
        /\ [turn[r] EXCEPT !.completed = "stale"] \in TurnRows
    BY DEF TurnRows, Stamps
  <2>2. turn' \in [Requests -> TurnRows]
    <3>1. CASE TurnAges(r)
      BY <2>1, <3>1 DEF TurnAges
    <3>2. CASE EndAges(r)
      BY <2>1, <3>2 DEF EndAges
    <3> QED
      BY <1>1, <3>1, <3>2
  <2> QED
    BY <1>1, <2>2 DEF TurnAges, EndAges
<1>2. ASSUME NEW r \in Requests, LeaseAges(r)
      PROVE  StoreTypeOK'
  <2>1. /\ [run[r] EXCEPT !.beat = "aged"] \in RunRows
        /\ [run[r] EXCEPT !.beat = "expired"] \in RunRows
    BY DEF RunRows, Ages
  <2>2. \/ run' = [run EXCEPT ![r].beat = "aged"]
        \/ run' = [run EXCEPT ![r].beat = "expired"]
    BY <1>2 DEF LeaseAges
  <2>3. run' \in [Requests -> RunRows]
    BY <2>1, <2>2
  <2> QED
    BY <1>2, <2>3 DEF LeaseAges
<1> QED
  BY <1>1, <1>2 DEF TimePasses

LEMMA CrashTypes ==
    ASSUME TypeInv, Crash
    PROVE  TypeInv'
<1> USE DEF TypeInv, TypeOK, CarriesOK
<1>1. StoreTypeOK' /\ calls' \in 0..MaxCalls /\ failures' \in 0..MaxFailures
      /\ redeliveries' \in 0..MaxRedeliveries
  BY FaultsAssumption DEF Crash, StoreVars, StoreTypeOK, RunTypeOK, TurnTypeOK, ApiTypeOK
<1>2. /\ jobs' \subseteq Jobs /\ wakes' \in 0..MaxWakes /\ marker' \in [Keys -> BOOLEAN]
  BY DEF Crash, BrokerTypeOK
<1>3. WorkerOK /\ DispOK /\ BeatTypeOK /\ ApiTypeOK
  BY DEF WorkerOK, DispOK, WorkersTypeOK
<1>4. UNCHANGED lock => lock' \in [Keys -> Workers \cup {Free, Dead}]
  BY DEF BrokerTypeOK
<1>5. UNCHANGED disp => DispOK'
  BY <1>3 DEF DispOK, DispatcherCarries
<1>6. UNCHANGED beat => BeatTypeOK'
  BY <1>3 DEF BeatTypeOK
<1>7. UNCHANGED api => ApiTypeOK'
  BY <1>1, <1>3 DEF ApiTypeOK
<1>8. ASSUME NEW w \in Workers, CrashWorker(w)
      PROVE  TypeInv'
  <2>1. WorkerOK'
    BY <1>3, <1>8, WorkerIdleOK DEF CrashWorker
  <2>2. lock' \in [Keys -> Workers \cup {Free, Dead}]
    BY <1>8 DEF CrashWorker, BrokerTypeOK
  <2> QED
    BY <1>1, <1>2, <1>5, <1>6, <1>7, <1>8, <2>1, <2>2
       DEF CrashWorker, StoreTypeOK, BrokerTypeOK, WorkersTypeOK, WorkerOK, DispOK
<1>9. UNCHANGED worker => WorkerOK'
  BY <1>3, WorkerUnchangedOK
<1>10. ASSUME NEW d \in Dispatchers, CrashDispatcher(d)
       PROVE  TypeInv'
  <2>1. DispOK'
    BY <1>3, <1>10 DEF CrashDispatcher, DispOK, DispatcherCarries, IdleDispatcher, DispPcs
  <2> QED
    BY <1>1, <1>2, <1>4, <1>6, <1>7, <1>9, <1>10, <2>1
       DEF CrashDispatcher, StoreTypeOK, BrokerTypeOK, WorkersTypeOK, WorkerOK, DispOK
<1>11. ASSUME NEW c \in Clients, CrashClient(c)
       PROVE  TypeInv'
  <2>1. ApiTypeOK'
    BY <1>1, <1>3, <1>11 DEF CrashClient, ApiTypeOK, IdleClient, ApiPcs
  <2> QED
    BY <1>1, <1>2, <1>4, <1>5, <1>6, <1>9, <1>11, <2>1
       DEF CrashClient, StoreTypeOK, BrokerTypeOK, WorkersTypeOK, WorkerOK, DispOK
<1>12. CASE CrashBeat
  <2>1. BeatTypeOK'
    BY <1>12 DEF CrashBeat, BeatTypeOK, IdleBeat, BeatPcs
  <2> QED
    BY <1>1, <1>2, <1>4, <1>5, <1>7, <1>9, <1>12, <2>1
       DEF CrashBeat, StoreTypeOK, BrokerTypeOK, WorkersTypeOK, WorkerOK, DispOK
<1> QED
  BY <1>8, <1>10, <1>11, <1>12 DEF Crash
-----------------------------------------------------------------------------
(* The invariant. *)

LEMMA InitialTypes == Init => TypeInv
<1> SUFFICES ASSUME Init PROVE TypeInv
  OBVIOUS
<1>1. RunTypeOK
  BY DEF Init, RunInit, RunTypeOK, NoRun, RunRows, Ages, PendingDecisions, MessageStatuses
<1>2. TurnTypeOK
  BY DEF Init, TurnInit, TurnTypeOK, NoTurn, TurnRows, Stamps, ControlStates
<1>3. BrokerTypeOK
  BY MaxWakesAssumption DEF Init, BrokerInit, BrokerTypeOK
<1>4. WorkersTypeOK /\ CarriesOK
  BY DEF Init, WorkersInit, WorkersTypeOK, CarriesOK, WorkerCarries, DispatcherCarries,
         IdleWorker, IdleDispatcher, WorkerPcs, DispPcs, Outcomes
<1>5. ApiTypeOK /\ BeatTypeOK
  BY MaxCallsAssumption DEF Init, ApiInit, ApiTypeOK, IdleClient, ApiPcs, BeatInit, IdleBeat, BeatTypeOK, BeatPcs
<1>6. failures \in 0..MaxFailures /\ redeliveries \in 0..MaxRedeliveries
  BY FaultsAssumption DEF Init
<1> QED
  BY <1>1, <1>2, <1>3, <1>4, <1>5, <1>6 DEF TypeInv, TypeOK

LEMMA TypesPreserved == TypeInv /\ [Next]_vars => TypeInv'
<1> SUFFICES ASSUME TypeInv, [Next]_vars PROVE TypeInv'
  OBVIOUS
<1> DEFINE FaultsOK == failures \in 0..MaxFailures /\ redeliveries \in 0..MaxRedeliveries
<1>0. /\ StoreTypeOK /\ BrokerTypeOK /\ WorkerOK /\ DispOK /\ ApiTypeOK /\ BeatTypeOK
      /\ FaultsOK
  BY DEF TypeInv, TypeOK, CarriesOK, StoreTypeOK, WorkersTypeOK, WorkerOK, DispOK
<1>a. /\ StoreTypeOK' /\ BrokerTypeOK' /\ WorkerOK' /\ DispOK' /\ ApiTypeOK' /\ BeatTypeOK'
      /\ FaultsOK'
      => TypeInv'
  BY DEF TypeInv, TypeOK, CarriesOK, StoreTypeOK, WorkersTypeOK, WorkerOK, DispOK
<1>b. /\ UNCHANGED StoreVars => StoreTypeOK'
      /\ UNCHANGED BrokerVars => BrokerTypeOK'
      /\ UNCHANGED worker => WorkerOK'
      /\ UNCHANGED disp => DispOK'
      /\ UNCHANGED ApiVars => ApiTypeOK'
      /\ UNCHANGED beat => BeatTypeOK'
      /\ UNCHANGED FaultVars => FaultsOK'
  BY <1>0, WorkerUnchangedOK
     DEF StoreVars, StoreTypeOK, RunTypeOK, TurnTypeOK, BrokerVars, BrokerTypeOK, DispOK,
         DispatcherCarries, ApiVars, ApiTypeOK, BeatTypeOK, FaultVars
<1> HIDE DEF FaultsOK
<1>1. ASSUME NEW c \in Clients, Call(c) \/ Return(c)
      PROVE  TypeInv'
  BY <1>0, <1>a, <1>b, <1>1, CallTypes, ReturnTypes DEF Call, Return
<1>2. ASSUME NEW d \in Dispatchers, Dispatch(d)
      PROVE  TypeInv'
  <2>1. UNCHANGED worker
    BY <1>2 DEF Dispatch, DispStep, DispTake, DispTerminalRuns, DispClaims, DispResume, DispClaim,
                DispFindsNothing, DispSubmit, DispRelease
  <2> QED
    BY <1>0, <1>a, <1>b, <1>2, <2>1, DispatchOK DEF Dispatch
<1>3. ASSUME NEW w \in Workers, Work(w)
      PROVE  TypeInv'
  <2>1. UNCHANGED <<disp, jobs, marker>>
    BY <1>3 DEF Work, WorkStep, WorkCheck, WorkEarlyRuns, WorkEarlyTurn, WorkStart, WorkCreate,
                WorkRevive, WorkApply, WorkHeartbeat, WorkRound, WorkSeesCancel, WorkDeadline, WorkFails,
                WorkAnswers, WorkFinalCheck, WorkSave, WorkEmit, WorkFinalRun, WorkFinalTurn,
                WorkUnlock
  <2>2. WorkStoreOK
    BY <1>0 DEF WorkStoreOK, BrokerTypeOK
  <2>3. CASE \/ WorkCheck(w) \/ WorkEarlyRuns(w) \/ WorkEarlyTurn(w)
             \/ WorkFinalCheck(w) \/ WorkSave(w) \/ WorkEmit(w)
             \/ WorkFinalRun(w) \/ WorkFinalTurn(w) \/ WorkUnlock(w)
    <3>1. WorkStoreOK' /\ WorkerOK'
      BY <1>0, <2>2, <2>3, WorkEndsOK
    <3>2. StoreTypeOK' /\ BrokerTypeOK'
      BY <1>0, <2>1, <3>1 DEF WorkStoreOK, BrokerTypeOK
    <3> QED
      BY <1>3, <1>a, <1>b, <2>1, <3>1, <3>2 DEF Work
  <2>4. CASE \/ WorkCreate(w) \/ WorkRevive(w) \/ WorkApply(w)
             \/ WorkHeartbeat(w) \/ WorkRound(w) \/ WorkSeesCancel(w) \/ WorkDeadline(w) \/ WorkFails(w) \/ WorkAnswers(w)
             \/ WorkStart(w)
    <3>1. StoreTypeOK' /\ WorkerOK'
      BY <1>0, <2>4, WorkRunsOK, WorkStartOK
    <3>2. UNCHANGED BrokerVars
      BY <2>4 DEF BrokerVars, WorkCreate, WorkRevive, WorkApply, WorkHeartbeat, WorkRound,
                  WorkSeesCancel, WorkDeadline, WorkFails, WorkAnswers, WorkStart
    <3> QED
      BY <1>3, <1>a, <1>b, <2>1, <3>1, <3>2 DEF Work
  <2> QED
    BY <1>3, <2>3, <2>4 DEF Work, WorkStep
<1>4. ASSUME NEW w \in Workers, NEW job \in jobs, Deliver(w, job) \/ Redeliver(w, job)
      PROVE  TypeInv'
  <2>1. PICK redelivered \in BOOLEAN : WorkTake(w, job, redelivered)
    BY <1>4 DEF Deliver, Redeliver
  <2>2. BrokerTypeOK' /\ WorkerOK'
    BY <1>0, <2>1, TakeOK
  <2>3. UNCHANGED <<StoreVars, disp>>
    BY <2>1 DEF WorkTake
  <2>4. FaultsOK'
    <3>1. CASE Deliver(w, job)
      BY <1>b, <3>1 DEF Deliver
    <3>2. CASE Redeliver(w, job)
      BY <1>0, <3>2, FaultsAssumption, SMT DEF Redeliver, FaultsOK
    <3> QED
      BY <1>4, <3>1, <3>2
  <2> QED
    BY <1>4, <1>a, <1>b, <2>2, <2>3, <2>4 DEF Deliver, Redeliver
<1>5. CASE Maintain
  BY <1>0, <1>a, <1>b, <1>5, BeatTypes DEF Maintain
<1>6. CASE TimePasses /\ Untimed
  BY <1>0, <1>a, <1>b, <1>6, TimeTypes DEF Untimed
<1>7. CASE Crash
  BY <1>7, CrashTypes
<1>8. ASSUME NEW k \in Keys, LockExpires(k)
      PROVE  TypeInv'
  <2>1. BrokerTypeOK'
    BY <1>0, <1>8 DEF LockExpires, BrokerTypeOK
  <2> QED
    BY <1>8, <1>a, <1>b, <2>1 DEF LockExpires
<1>9. ASSUME NEW w \in Workers, Abort(w)
      PROVE  TypeInv'
  <2>1. WorkAborts(w) \/ WorkEmitFails(w)
    BY <1>9 DEF Abort
  <2>2. StoreTypeOK' /\ WorkerOK'
    BY <1>0, <2>1, AbortOK
  <2>3. UNCHANGED BrokerVars /\ UNCHANGED disp
    BY <2>1 DEF WorkAborts, WorkEmitFails, BrokerVars
  <2>4. FaultsOK'
    BY <1>0, <1>9, FaultsAssumption, SMT DEF Abort, FaultsOK
  <2> QED
    BY <1>9, <1>a, <1>b, <2>2, <2>3, <2>4 DEF Abort
<1>10. CASE UNCHANGED vars
  BY <1>10, <1>a, <1>b DEF vars
<1> QED
  BY <1>1, <1>2, <1>3, <1>4, <1>5, <1>6, <1>7, <1>8, <1>9, <1>10 DEF Next

LEMMA TypeInvariant == Spec => []TypeInv
BY InitialTypes, TypesPreserved, PTL DEF Spec

\* Every row, frame, message and process keeps its type: no status is written
\* that the queue, the run table or a terminal frame does not know.
THEOREM TypeCorrect == Spec => []TypeOK
<1>1. TypeInv => TypeOK
  BY DEF TypeInv
<1> QED
  BY <1>1, TypeInvariant, PTL
-----------------------------------------------------------------------------
(***************************************************************************)
(* The worker lock excludes: however often a message is delivered, however *)
(* many workers there are and whenever they die, one request id has one    *)
(* worker. OneWorkerPerKey is not inductive, because it forgets who holds  *)
(* the lock; LockHeld remembers it.                                        *)
(***************************************************************************)

\* A busy worker holds the lock of its request: run_deepspace_task passes
\* SET NX before anything else, and releases it in its last step only.
LockHeld == \A w \in Workers : worker[w].pc # "idle" => lock[Key(w)] = w

LockInv == TypeInv /\ LockHeld

LEMMA LockHeldExcludes == LockHeld => OneWorkerPerKey
BY DEF LockHeld, OneWorkerPerKey

LEMMA LockUntouched ==
    ASSUME LockHeld, UNCHANGED <<worker, lock>>
    PROVE  LockHeld'
BY DEF LockHeld, Key

\* Every step of a worker but the last keeps its job and leaves the locks alone.
LEMMA WorkerKeepsJob ==
    ASSUME WorkerOK, NEW w \in Workers, WorkStep(w), ~WorkUnlock(w)
    PROVE  /\ worker[w].pc # "idle"
           /\ UNCHANGED lock
           /\ \A v \in Workers : /\ worker'[v].job.key = worker[v].job.key
                                 /\ v # w => worker'[v].pc = worker[v].pc
<1> DEFINE Kept == \A v \in Workers : /\ worker'[v].job.key = worker[v].job.key
                                      /\ v # w => worker'[v].pc = worker[v].pc
<1>1. ASSUME NEW pc, NEW out, Goto(w, pc) \/ GotoWith(w, pc, out) \/ UNCHANGED worker
      PROVE  Kept
  BY <1>1 DEF WorkerOK, Goto, GotoWith
<1>a. ASSUME NEW pc, NEW x, GotoRelabelled(w, pc, x)
      PROVE  Kept
  BY <1>a DEF WorkerOK, GotoRelabelled
<1> HIDE DEF Kept
<1>2. CASE WorkCheck(w) \/ WorkEarlyRuns(w) \/ WorkEarlyTurn(w)
  <2>1. Kept
    BY <1>1, <1>2 DEF WorkCheck, WorkEarlyRuns, WorkEarlyTurn
  <2> QED
    BY <1>2, <2>1 DEF WorkCheck, WorkEarlyRuns, WorkEarlyTurn, Kept
<1>3. CASE WorkStart(w)
  <2>1. Kept
    BY <1>1, <1>3, <1>a DEF WorkStart, StartTurn, StartFirst, StartRetry, StartAnswer, StartApproval
  <2> QED
    BY <1>3, <2>1 DEF WorkStart, Kept
<1>4. CASE \/ WorkCreate(w) \/ WorkRevive(w) \/ WorkApply(w) \/ WorkHeartbeat(w) \/ WorkRound(w)
           \/ WorkSeesCancel(w) \/ WorkDeadline(w) \/ WorkFails(w) \/ WorkAnswers(w)
  <2>1. Kept
    BY <1>1, <1>4 DEF WorkCreate, WorkRevive, WorkApply, WorkHeartbeat, WorkRound, WorkSeesCancel,
                      WorkDeadline, WorkFails, WorkAnswers
  <2> QED
    BY <1>4, <2>1 DEF WorkCreate, WorkRevive, WorkApply, WorkHeartbeat, WorkRound, WorkSeesCancel,
                      WorkDeadline, WorkFails, WorkAnswers, Kept
<1>5. CASE WorkFinalCheck(w) \/ WorkSave(w) \/ WorkEmit(w) \/ WorkFinalRun(w) \/ WorkFinalTurn(w)
  <2>1. Kept
    BY <1>1, <1>5 DEF WorkFinalCheck, WorkSave, WorkEmit, WorkFinalRun, WorkFinalTurn
  <2> QED
    BY <1>5, <2>1 DEF WorkFinalCheck, WorkSave, WorkEmit, WorkFinalRun, WorkFinalTurn, Kept
<1> QED
  BY <1>2, <1>3, <1>4, <1>5 DEF WorkStep

\* A worker that goes idle gives up its own lock and nobody else's.
LEMMA LockGivenUp ==
    ASSUME WorkerOK, LockHeld, NEW w \in Workers, NEW mark, mark \notin Workers,
           worker[w].pc # "idle",
           worker' = [worker EXCEPT ![w] = IdleWorker],
           lock' = IF lock[Key(w)] = w THEN [lock EXCEPT ![Key(w)] = mark] ELSE lock,
           lock \in [Keys -> Workers \cup {Free, Dead}]
    PROVE  LockHeld'
<1> SUFFICES ASSUME NEW v \in Workers, worker'[v].pc # "idle"
             PROVE  lock'[worker'[v].job.key] = v
  BY DEF LockHeld, Key
<1>1. v # w /\ worker'[v] = worker[v]
  BY DEF WorkerOK, IdleWorker
<1>2. lock[Key(v)] = v /\ lock[Key(w)] = w
  BY <1>1 DEF LockHeld
<1>3. Key(v) \in Keys
  BY <1>1, JobTypes
<1>4. Key(v) # Key(w)
  BY <1>1, <1>2
<1> QED
  BY <1>1, <1>2, <1>3, <1>4 DEF Key

LEMMA LockPreserved == LockInv /\ [Next]_vars => LockInv'
<1> SUFFICES ASSUME LockInv, [Next]_vars PROVE LockHeld'
  BY TypesPreserved DEF LockInv
<1>0. /\ WorkerOK /\ LockHeld
      /\ lock \in [Keys -> Workers \cup {Free, Dead}] /\ jobs \subseteq Jobs
  BY DEF LockInv, TypeInv, TypeOK, CarriesOK, WorkersTypeOK, WorkerOK, BrokerTypeOK
<1>1. ASSUME NEW c \in Clients, Call(c) \/ Return(c)
      PROVE  LockHeld'
  <2>1. UNCHANGED worker
    BY <1>1 DEF Call, Return
  <2>2. CASE Call(c)
    <3>1. UNCHANGED lock
      BY <2>2 DEF Call, ApiStep, EnqueueTurn, EnqueueSteered, SteerTurn, RunNow, CancelRequest,
                  CancelQueued, Answer, Decide, Approve, RetryTurn, PauseQueue, ResumeQueue,
                  ClearQueue, ListQueue
    <3> QED
      BY <1>0, <2>1, <3>1, LockUntouched
  <2>3. CASE Return(c)
    <3>1. UNCHANGED lock
      BY <2>3 DEF Return, ApiFinishes, RunNowSubmits, SteerWake, RetryWake, PauseMarks, PauseRuns, PauseTurn,
                  ClearRows, ListClaims, ListResume, CancelRequestTurn, CancelSignal, QueuedSignal, Signal
    <3> QED
      BY <1>0, <2>1, <3>1, LockUntouched
  <2> QED
    BY <1>1, <2>2, <2>3
<1>2. ASSUME NEW d \in Dispatchers, Dispatch(d)
      PROVE  LockHeld'
  <2>1. UNCHANGED <<worker, lock>>
    BY <1>2 DEF Dispatch, DispStep, DispTake, DispTerminalRuns, DispClaims, DispResume, DispClaim,
                DispFindsNothing, DispSubmit, DispRelease
  <2> QED
    BY <1>0, <2>1, LockUntouched
<1>3. ASSUME NEW w \in Workers, WorkStep(w)
      PROVE  LockHeld'
  <2>1. CASE WorkUnlock(w)
    BY <1>0, <2>1, LockGivenUp, WorkersAssumption DEF WorkUnlock
  <2>2. CASE ~WorkUnlock(w)
    <3>1. /\ worker[w].pc # "idle"
          /\ UNCHANGED lock
          /\ \A v \in Workers : /\ worker'[v].job.key = worker[v].job.key
                                /\ v # w => worker'[v].pc = worker[v].pc
      BY <1>0, <1>3, <2>2, WorkerKeepsJob
    <3> QED
      BY <1>0, <3>1 DEF LockHeld, Key
  <2> QED
    BY <2>1, <2>2
<1>4. ASSUME NEW w \in Workers, NEW job \in jobs, NEW redelivered, WorkTake(w, job, redelivered)
      PROVE  LockHeld'
  <2>1. CASE LockIsFree(job.key)
    <3>1. /\ lock' = [lock EXCEPT ![job.key] = w]
          /\ worker' = [worker EXCEPT ![w] = [pc |-> "check", job |-> job, out |-> "none"]]
          /\ job.key \in Keys
      BY <1>0, <1>4, <2>1 DEF WorkTake, Jobs
    <3>2. \A v \in Workers : worker[v].pc # "idle" => Key(v) # job.key
      BY <1>0, <2>1, WorkersAssumption DEF LockHeld, LockIsFree
    <3> QED
      BY <1>0, <3>1, <3>2 DEF LockHeld, Key, WorkerOK
  <2>2. CASE ~LockIsFree(job.key)
    BY <1>0, <1>4, <2>2, LockUntouched DEF WorkTake
  <2> QED
    BY <2>1, <2>2
<1>5. CASE Maintain
  <2>1. UNCHANGED <<worker, lock>>
    BY <1>5 DEF Maintain, BeatStep, BeatStarts, NoLeaseExpired, CloseExpired, BeatTerminalRuns,
                BeatClaims, BeatFailurePause, BeatWake, ExpireLease
  <2> QED
    BY SMTT(60), <1>0, <2>1, LockUntouched
<1>6. CASE TimePasses /\ Untimed
  BY <1>0, <1>6, LockUntouched DEF Untimed, BrokerVars
<1>7. CASE Crash
  <2>1. ASSUME NEW w \in Workers, CrashWorker(w)
        PROVE  LockHeld'
    BY <1>0, <2>1, LockGivenUp, WorkersAssumption DEF CrashWorker
  <2>2. CASE UNCHANGED <<worker, lock>>
    BY <1>0, <2>2, LockUntouched
  <2> QED
    BY <1>7, <2>1, <2>2 DEF Crash, CrashDispatcher, CrashClient, CrashBeat
<1>8. ASSUME NEW k \in Keys, LockExpires(k)
      PROVE  LockHeld'
  BY <1>0, <1>8, WorkersAssumption DEF LockExpires, LockHeld, Key
<1>9. ASSUME NEW w \in Workers, WorkAborts(w) \/ WorkEmitFails(w)
      PROVE  LockHeld'
  <2>1. /\ worker[w].pc # "idle"
        /\ UNCHANGED lock
        /\ \E pc : GotoWith(w, pc, "error")
    BY <1>9 DEF WorkAborts, WorkEmitFails
  <2>2. \A v \in Workers : /\ worker'[v].job = worker[v].job
                           /\ v # w => worker'[v] = worker[v]
    BY <1>0, <2>1 DEF WorkerOK, GotoWith
  <2> QED
    BY <1>0, <2>1, <2>2 DEF LockHeld, Key
<1>10. CASE UNCHANGED vars
  BY <1>0, <1>10, LockUntouched DEF vars, BrokerVars
<1> QED
  BY <1>1, <1>2, <1>3, <1>4, <1>5, <1>6, <1>7, <1>8, <1>9, <1>10
     DEF Next, Work, Abort, Deliver, Redeliver

LEMMA LockInvariant == Spec => []LockInv
<1>1. Init => LockInv
  BY InitialTypes DEF LockInv, LockHeld, Init, WorkersInit, IdleWorker
<1> QED
  BY <1>1, LockPreserved, PTL DEF Spec

\* Two workers are never on the same request id at once, for any number of
\* workers, failures and redelivered messages.
THEOREM WorkersExclude == Spec => []OneWorkerPerKey
<1>1. LockInv => OneWorkerPerKey
  BY LockHeldExcludes DEF LockInv
<1> QED
  BY <1>1, LockInvariant, PTL
-----------------------------------------------------------------------------
(***************************************************************************)
(* completed_at is set exactly on ended turns, through every method of the *)
(* queue store, every handler and every recovery, in any interleaving.     *)
(***************************************************************************)

Stamped(row) == row.status \in TerminalQueueStatuses <=> row.completed # "null"

AllStamped == \A r \in Requests : Stamped(turn[r])

LEMMA AllStampedMeans == AllStamped <=> EndsAreStamped
BY DEF AllStamped, Stamped, EndsAreStamped, Ended, InStatus

\* What the methods make of a row keeps its stamp right; those that re-open a
\* row without looking at completed_at are only called where there is none.
LEMMA RowStamps ==
    ASSUME NEW row \in TurnRows, Stamped(row), NEW status
    PROVE  /\ Stamped(CancelledTurn(row))
           /\ Stamped(CancelRequestedTurn(row))
           /\ Stamped(ClearedTurn(row))
           /\ Stamped(FinishedTurn(row, status))
           /\ row.status \in {"running", "cancelling"} => Stamped(Requeued(row))
           /\ row.status \in PausedQueueStatuses => Stamped(Resumed(row))
<1> USE DEF Stamped, TurnRows, TerminalQueueStatuses, PausedQueueStatuses
<1>1. Stamped(CancelledTurn(row))
  BY DEF CancelledTurn
<1>2. Stamped(CancelRequestedTurn(row))
  BY <1>1 DEF CancelRequestedTurn, QueueableStatuses, ActiveQueueStatuses
<1>3. Stamped(ClearedTurn(row))
  BY <1>1 DEF ClearedTurn, ActiveQueueStatuses
<1>4. Stamped(FinishedTurn(row, status))
  BY DEF FinishedTurn, FinishStatus
<1>5. row.status \in {"running", "cancelling"} => Stamped(Requeued(row))
  BY DEF Requeued
<1>6. row.status \in PausedQueueStatuses => Stamped(Resumed(row))
  BY DEF Resumed
<1> QED
  BY <1>1, <1>2, <1>3, <1>4, <1>5, <1>6

LEMMA StoreStamps ==
    ASSUME TurnTypeOK, AllStamped
    PROVE  /\ \A r \in Requests, steer \in BOOLEAN : Enqueue(r, steer) => AllStamped'
           /\ \A failed, r \in Requests : RetryFailed(failed, r) => AllStamped'
           /\ \A r \in Requests : Promote(r) => AllStamped'
           /\ \A r : Claim(r) \/ ReleaseClaim(r) => AllStamped'
           /\ \A closing : RecoverTerminalRuns(closing) \/ RecoverClaims(closing) => AllStamped'
<1> USE DEF TurnTypeOK, AllStamped
<1>0. \A priority, parent : \A row \in NewTurn(priority, parent) : Stamped(row)
  BY DEF NewTurn, NoTurn, Stamped, TerminalQueueStatuses
<1>1. ASSUME NEW r \in Requests, NEW steer \in BOOLEAN, Enqueue(r, steer)
      PROVE  AllStamped'
  BY <1>0, <1>1 DEF Enqueue
<1>2. ASSUME NEW failed \in Requests, NEW r \in Requests, RetryFailed(failed, r)
      PROVE  AllStamped'
  BY <1>0, <1>2 DEF RetryFailed
<1>3. ASSUME NEW r \in Requests, Promote(r)
      PROVE  AllStamped'
  BY <1>3 DEF Promote, Stamped, TurnRows
<1>4. ASSUME NEW r, Claim(r)
      PROVE  AllStamped'
  BY <1>4 DEF Claim, Claimable, FirstQueued, Stamped, TurnRows, TerminalQueueStatuses
<1>5. ASSUME NEW r, ReleaseClaim(r)
      PROVE  AllStamped'
  BY <1>5, RowStamps DEF ReleaseClaim
<1>6. ASSUME NEW closing, RecoverTerminalRuns(closing)
      PROVE  AllStamped'
  BY <1>6, RowStamps DEF RecoverTerminalRuns
<1>7. ASSUME NEW closing, RecoverClaims(closing)
      PROVE  AllStamped'
  <2>1. \A r \in StaleClaims : Stamped(RecoveredTurn(r))
    BY RowStamps DEF StaleClaims, InStatus, RecoveredTurn
  <2> QED
    BY <1>7, <2>1 DEF RecoverClaims
<1> QED
  BY <1>1, <1>2, <1>3, <1>4, <1>5, <1>6, <1>7

LEMMA TurnsUntouched ==
    ASSUME AllStamped, UNCHANGED turn
    PROVE  AllStamped'
BY DEF AllStamped

LEMMA HandlerStamps ==
    ASSUME TurnTypeOK, AllStamped, NEW c \in Clients, ApiStep(c) \/ ApiFinishes(c)
    PROVE  AllStamped'
<1>1. \A r : CancelTurn(r) => AllStamped'
  BY RowStamps DEF CancelTurn, TurnTypeOK, AllStamped
<1>2. turn' = [r \in Requests |-> ClearedTurn(turn[r])] => AllStamped'
  BY RowStamps DEF TurnTypeOK, AllStamped
<1>3. \A job : Continue(job) => AllStamped'
  <2>1. \A r \in FirstPaused : r \in Requests /\ Stamped(Resumed(turn[r]))
    BY RowStamps DEF FirstPaused, InStatus, TurnTypeOK, AllStamped
  <2> QED
    BY <2>1 DEF Continue, TurnTypeOK, AllStamped
<1>4. CASE ApiStep(c)
  <2>1. ASSUME NEW r \in Requests,
               \/ EnqueueTurn(r) \/ EnqueueSteered(c, r) \/ SteerTurn(c, r) \/ RunNow(c, r)
               \/ \E failed \in Requests : RetryTurn(c, failed, r)
        PROVE  AllStamped'
    BY <2>1, StoreStamps, TurnsUntouched
       DEF EnqueueTurn, EnqueueSteered, SteerTurn, RunNow, RetryTurn, StoreVars
  <2>2. ASSUME NEW r \in Requests, CancelRequest(c, r) \/ CancelQueued(c, r)
        PROVE  AllStamped'
    BY <1>1, <2>2, TurnsUntouched DEF CancelRequest, CancelQueued
  <2>3. ASSUME NEW r \in Requests, Answer(c, r) \/ Decide(c, r) \/ Approve(c, r)
        PROVE  AllStamped'
    BY <1>3, <2>3, TurnsUntouched DEF Answer, Decide, Approve
  <2>4. CASE PauseQueue(c) \/ ResumeQueue(c)
    BY <2>4, TurnsUntouched DEF PauseQueue, Pause, ResumeQueue, Resume
  <2>5. CASE ClearQueue(c)
    BY <1>2, <2>5, TurnsUntouched DEF ClearQueue, StoreVars
  <2>6. CASE ListQueue(c)
    BY <2>6, StoreStamps DEF ListQueue
  <2> QED
    BY <1>4, <2>1, <2>2, <2>3, <2>4, <2>5, <2>6 DEF ApiStep
<1>5. CASE ApiFinishes(c)
  <2>1. CASE SteerWake(c) \/ RetryWake(c) \/ ListResume(c) \/ PauseMarks(c) \/ PauseRuns(c) \/ CancelSignal(c) \/ QueuedSignal(c)
    BY <2>1, TurnsUntouched DEF SteerWake, Resume, RetryWake, ResumeAfterFailure, ListResume, PauseMarks,
                                PauseRuns, CancelSignal, QueuedSignal, Signal, StoreVars
  <2>2. CASE PauseTurn(c) \/ CancelRequestTurn(c)
    BY <1>1, <2>2 DEF PauseTurn, CancelRequestTurn
  <2>3. CASE ClearRows(c)
    BY <1>2, <2>3 DEF ClearRows
  <2>4. CASE ListClaims(c)
    BY <2>4, StoreStamps DEF ListClaims
  <2>5. ASSUME NEW r \in Requests, RunNowSubmits(c, r)
        PROVE  AllStamped'
    <3>1. CASE UNCHANGED turn
      BY <3>1, TurnsUntouched
    <3>2. CASE Enqueue(r, FALSE)
      BY <2>5, <3>2, StoreStamps DEF RunNowSubmits
    <3> QED
      BY <2>5, <3>1, <3>2 DEF RunNowSubmits, StoreVars
  <2> QED
    BY <1>5, <2>1, <2>2, <2>3, <2>4, <2>5 DEF ApiFinishes
<1> QED
  BY <1>4, <1>5

LEMMA WorkerStamps ==
    ASSUME TurnTypeOK, AllStamped, NEW w \in Workers, WorkStep(w)
    PROVE  AllStamped'
<1>1. \A k, status : FinishTurnOf(k, status) => AllStamped'
  BY RowStamps DEF FinishTurnOf, TurnTypeOK, AllStamped
<1>2. CASE WorkEarlyTurn(w) \/ WorkFinalTurn(w)
  BY <1>1, <1>2 DEF WorkEarlyTurn, WorkFinalTurn
<1>3. CASE ~(WorkEarlyTurn(w) \/ WorkFinalTurn(w))
  <2>1. UNCHANGED turn
    BY <1>3 DEF WorkStep, WorkCheck, WorkEarlyRuns, WorkStart, WorkCreate, WorkRevive, WorkApply,
                WorkHeartbeat, WorkRound, WorkSeesCancel, WorkDeadline, WorkFails, WorkAnswers, WorkFinalCheck,
                WorkSave, WorkEmit, WorkFinalRun, WorkUnlock, StoreVars
  <2> QED
    BY <2>1, TurnsUntouched
<1> QED
  BY <1>2, <1>3

LEMMA StampsPreserved == TypeInv /\ AllStamped /\ [Next]_vars => AllStamped'
<1> SUFFICES ASSUME TypeInv, AllStamped, [Next]_vars PROVE AllStamped'
  OBVIOUS
<1>0. TurnTypeOK
  BY DEF TypeInv, TypeOK
<1>1. ASSUME NEW c \in Clients, Call(c) \/ Return(c)
      PROVE  AllStamped'
  BY <1>0, <1>1, HandlerStamps DEF Call, Return
<1>2. ASSUME NEW d \in Dispatchers, DispStep(d)
      PROVE  AllStamped'
  <2>1. CASE DispTerminalRuns(d) \/ DispClaims(d) \/ DispClaim(d) \/ DispRelease(d)
    BY <1>0, <2>1, StoreStamps DEF DispTerminalRuns, DispClaims, DispClaim, DispRelease
  <2>2. CASE DispTake(d) \/ DispResume(d) \/ DispFindsNothing(d) \/ DispSubmit(d)
    BY <2>2, TurnsUntouched DEF DispTake, DispResume, ResumeAfterFailure, DispFindsNothing,
                                DispSubmit, StoreVars
  <2> QED
    BY <1>2, <2>1, <2>2 DEF DispStep
<1>3. ASSUME NEW w \in Workers, WorkStep(w) \/ \E job \in jobs, b \in BOOLEAN : WorkTake(w, job, b)
      PROVE  AllStamped'
  BY <1>0, <1>3, WorkerStamps, TurnsUntouched DEF WorkTake, StoreVars
<1>4. CASE Maintain
  <2>1. CASE BeatTerminalRuns \/ BeatClaims
    BY SMTT(60), <1>0, <2>1, StoreStamps DEF BeatTerminalRuns, BeatClaims
  <2>2. CASE \/ BeatStarts \/ NoLeaseExpired \/ CloseExpired \/ BeatFailurePause \/ BeatWake
             \/ \E r \in Requests : ExpireLease(r)
    BY <2>2, TurnsUntouched DEF BeatStarts, NoLeaseExpired, CloseExpired, BeatFailurePause,
                                ResumeAfterFailure, BeatWake, ExpireLease, StoreVars
  <2> QED
    BY <1>4, <2>1, <2>2 DEF Maintain, BeatStep
<1>5. ASSUME NEW r \in Requests, TurnAges(r) \/ EndAges(r) \/ LeaseAges(r)
      PROVE  AllStamped'
  BY <1>0, <1>5, TurnsUntouched
     DEF TurnAges, EndAges, LeaseAges, TurnTypeOK, TurnRows, AllStamped, Stamped
<1>6. CASE Crash \/ \E k \in Keys : LockExpires(k)
  BY <1>6, TurnsUntouched DEF Crash, LockExpires, StoreVars
<1>7. ASSUME NEW w \in Workers, Abort(w)
      PROVE  AllStamped'
  BY <1>7, TurnsUntouched DEF Abort, WorkAborts, WorkEmitFails, StoreVars
<1>8. CASE UNCHANGED vars
  BY <1>8, TurnsUntouched DEF vars, StoreVars
<1> QED
  BY <1>1, <1>2, <1>3, <1>4, <1>5, <1>6, <1>7, <1>8
     DEF Next, Dispatch, Work, Deliver, Redeliver, TimePasses

\* completed_at is set exactly on the turns that have ended: recovery of
\* abandoned runs never takes a re-opened turn for an old one, and never
\* overlooks an ended one, for any number of requests and processes.
THEOREM EndsStamped == Spec => []EndsAreStamped
<1>1. Init => AllStamped
  BY DEF Init, TurnInit, NoTurn, AllStamped, Stamped, TerminalQueueStatuses
<1>2. AllStamped => EndsAreStamped
  BY AllStampedMeans
<1> QED
  BY <1>1, <1>2, StampsPreserved, TypeInvariant, PTL DEF Spec
===============================================================================
