------------------------- MODULE DeepSpaceOutcomeProofs -------------------------
(***************************************************************************)
(* On top of the invariant of DeepSpaceTurnProofs: what a turn that has    *)
(* been completed stands on, the order in which turns are executed, where  *)
(* no turn waits for the user retries and pauses, and, where no process    *)
(* dies, the ends of streams.                                              *)
(***************************************************************************)
EXTENDS DeepSpaceTurnProofs

Completed(r) == turn[r].status = "completed"

\* A completed turn: its run and its stream have ended, and a worker that still
\* takes a second delivery of its job has not looked at the queue yet.
IsDone(r) ==
    Completed(r) =>
        /\ ~ActiveRun(r)
        /\ HasTerminalFrame(r) /\ LastFrame(r) \in {"ready", "blocked"}
        /\ \A w \in Workers : worker[w].pc # "idle" /\ Key(w) = r => worker[w].pc \in {"check", "unlock"}

\* A worker that will complete its turn has made the frame durable.
HasReported(w) ==
    /\ worker[w].pc \in {"final_run", "final_turn"} /\ worker[w].out \in {"ready", "blocked"}
    => HasTerminalFrame(Key(w)) /\ LastFrame(Key(w)) = worker[w].out

Durable == (\A r \in Requests : IsDone(r)) /\ (\A w \in Workers : HasReported(w))

\* What every step but those of workers and of recovery does to ends.
EndKept(r) ==
    /\ HasTerminalFrame(r) => frames'[r] = frames[r]
    /\ Completed(r)' <=> Completed(r)
    /\ ActiveRun(r)' /\ Completed(r) => ActiveRun(r)

LEMMA KeptEndsKeep ==
    ASSUME Plain, Durable, \A r \in Requests : EndKept(r),
           \A w \in Workers : worker'[w] = worker[w] \/ worker'[w].pc \in {"idle", "check"}
    PROVE  Durable'
<1>1. ASSUME NEW r \in Requests, Completed(r)'
      PROVE  IsDone(r)'
  <2>1. IsDone(r) /\ EndKept(r) /\ Completed(r)
    BY <1>1 DEF Durable, EndKept
  <2>2. ~ActiveRun(r)'
    BY <2>1 DEF IsDone, EndKept
  <2>3. HasTerminalFrame(r)' /\ LastFrame(r)' \in {"ready", "blocked"}
    BY <2>1 DEF IsDone, EndKept, HasTerminalFrame, LastFrame
  <2>4. \A w \in Workers : worker'[w].pc # "idle" /\ Key(w)' = r => worker'[w].pc \in {"check", "unlock"}
    BY <2>1 DEF IsDone, Key
  <2> QED
    BY <2>2, <2>3, <2>4 DEF IsDone
<1>2. ASSUME NEW w \in Workers
      PROVE  HasReported(w)'
  <2>1. CASE worker'[w] = worker[w] /\ worker[w].pc # "idle"
    <3>1. Key(w) \in Requests /\ Key(w)' = Key(w) /\ HasReported(w)
      BY <2>1 DEF Plain, PlainJob, Key, Durable
    <3>2. EndKept(Key(w))
      BY <3>1
    <3> QED
      BY <2>1, <3>1, <3>2 DEF HasReported, EndKept, HasTerminalFrame, LastFrame
  <2>2. CASE worker'[w].pc \in {"idle", "check"}
    BY <2>2 DEF HasReported
  <2> QED
    BY <2>1, <2>2
<1> QED
  BY <1>1, <1>2 DEF Durable, IsDone

LEMMA NothingEnds ==
    ASSUME UNCHANGED <<run, frames, turn>>
    PROVE  \A r \in Requests : EndKept(r)
BY DEF EndKept, Completed, ActiveRun
-----------------------------------------------------------------------------
(* Handlers, recovery and time. *)

LEMMA RowsKeepEnds ==
    ASSUME NEW row \in TurnRows
    PROVE  /\ \A new \in {CancelRequestedTurn(row), ClearedTurn(row), Requeued(row), Resumed(row)} :
                 new.status = "completed" => row.status = "completed"
           /\ row.status = "completed" =>
                 CancelRequestedTurn(row).status = "completed" /\ ClearedTurn(row).status = "completed"
BY DEF TurnRows, CancelRequestedTurn, ClearedTurn, CancelledTurn, Requeued, Resumed, ActiveQueueStatuses,
       QueueableStatuses, PausedQueueStatuses

\* Cancelling and clearing end no run and complete nothing.
LEMMA CancelsKeepEnds ==
    ASSUME StoreOK, UNCHANGED frames, UNCHANGED run \/ CancelRuns,
           \/ UNCHANGED turn
           \/ \E k \in Requests \cup {None} : CancelTurn(k)
           \/ turn' = [r \in Requests |-> ClearedTurn(turn[r])]
    PROVE  \A r \in Requests : EndKept(r)
<1> SUFFICES ASSUME NEW r \in Requests PROVE EndKept(r)
  OBVIOUS
<1>0. turn[r] \in TurnRows /\ turn \in [Requests -> TurnRows] /\ run[r] \in RunRows
  BY DEF StoreOK, StoreTypeOK, RunTypeOK, TurnTypeOK
<1>1. turn'[r] \in {turn[r], CancelRequestedTurn(turn[r]), ClearedTurn(turn[r])}
  BY <1>0 DEF CancelTurn
<1>2. Completed(r)' <=> Completed(r)
  BY <1>0, <1>1, RowsKeepEnds DEF Completed
<1>3. run'[r] \in {run[r], CancelRequested(run[r])}
  BY DEF CancelRuns
<1>4. ActiveRun(r)' <=> ActiveRun(r)
  <2>1. CASE run'[r] = run[r]
    BY <2>1 DEF ActiveRun
  <2>2. CASE run'[r] = CancelRequested(run[r])
    BY <1>0, <2>2 DEF CancelRequested, ActiveRun, ActiveRunStatuses, RunRows
  <2> QED
    BY <1>3, <2>1, <2>2
<1> QED
  BY <1>2, <1>4 DEF EndKept

LEMMA HandlersKeepEnds ==
    ASSUME OrderlyUse, TurnInv, NEW c \in Clients, ApiStep(c) \/ ApiFinishes(c), UNCHANGED <<worker, disp, beat>>
    PROVE  \/ \A r \in Requests : EndKept(r)
           \/ \E closing \in Closings : RecoverTerminalRuns(closing) \/ RecoverClaims(closing)
<1>0. /\ StoreOK /\ Plain /\ NoCancels /\ Core /\ turn \in [Requests -> TurnRows] /\ run \in [Requests -> RunRows]
      /\ \A op \in {"retry", "run_now", "decide", "approve"} : op \notin Ops
  BY TurnInvTypes DEF OrderlyUse
<1> DEFINE Kept == \A r \in Requests : EndKept(r)
<1>7. ASSUME NEW r \in Requests, Adds(r)
      PROVE  UNCHANGED <<run, frames>> /\ \A q \in Requests : Completed(q)' <=> Completed(q)
  <2>1. CASE Promote(r)
    BY <1>0, <2>1 DEF Promote, Completed, TurnRows
  <2>2. ASSUME NEW steer \in BOOLEAN, Enqueue(r, steer)
        PROVE  UNCHANGED <<run, frames>> /\ \A q \in Requests : Completed(q)' <=> Completed(q)
    <3>1. PICK row \in NewTurn(IF steer THEN 1 ELSE 0, None) : turn' = [turn EXCEPT ![r] = row]
      BY <2>2 DEF Enqueue
    <3>2. row.status = "queued"
      BY NewTurnWaits
    <3> QED
      BY <1>0, <2>2, <3>1, <3>2 DEF Enqueue, Completed
  <2> QED
    BY <1>7, <2>1, <2>2 DEF Adds
<1>8. CASE ApiStep(c)
  <2>1. ASSUME NEW r \in Requests, EnqueueTurn(r) \/ EnqueueSteered(c, r) \/ SteerTurn(c, r)
        PROVE  Kept
    <3>1. Adds(r)
      BY <2>1 DEF EnqueueTurn, EnqueueSteered, SteerTurn, Adds, Calls, Enters
    <3>2. UNCHANGED <<run, frames>> /\ \A q \in Requests : Completed(q)' <=> Completed(q)
      BY <1>7, <3>1
    <3> QED
      BY <3>2 DEF EndKept, ActiveRun
  <2>2. ASSUME NEW r \in Requests, \/ RunNow(c, r) \/ Decide(c, r) \/ Approve(c, r)
                                   \/ \E failed \in Requests : RetryTurn(c, failed, r)
        PROVE  FALSE
    BY <1>0, <2>2 DEF RunNow, Decide, Approve, RetryTurn, Calls, Enters
  <2>3. ASSUME NEW r \in Requests, CancelRequest(c, r)
        PROVE  Kept
    BY <1>0, <2>3, CancelsKeepEnds DEF CancelRequest
  <2>4. ASSUME NEW r \in Requests, CancelQueued(c, r)
        PROVE  Kept
    BY <1>0, <2>4, CancelsKeepEnds DEF CancelQueued
  <2>5. ASSUME NEW r \in Requests, Answer(c, r)
        PROVE  Kept
    <3>1. /\ turn' = [turn EXCEPT ![r] = Resumed(turn[r])] /\ run' = [run EXCEPT ![r] = QuestionClaimed(run[r])]
          /\ turn[r].status \in PausedQueueStatuses /\ UNCHANGED frames
      BY <1>0, <2>5, AnswerDoes DEF Answer
    <3>2. Resumed(turn[r]).status = "running" /\ ~Completed(r)
      BY <1>0, <3>1 DEF Resumed, TurnRows, Completed, PausedQueueStatuses
    <3>3. \A q \in Requests : /\ Completed(q)' <=> Completed(q)
                              /\ q # r => (ActiveRun(q)' <=> ActiveRun(q))
      BY <1>0, <3>1, <3>2 DEF Completed, ActiveRun
    <3> QED
      BY <3>1, <3>2, <3>3 DEF EndKept
  <2>6. CASE PauseQueue(c)
    BY <2>6, NothingEnds DEF PauseQueue, Pause
  <2>7. CASE ResumeQueue(c)
    BY <2>7, NothingEnds DEF ResumeQueue, Resume
  <2>8. CASE ClearQueue(c)
    <3>1. UNCHANGED <<run, frames>> /\ (UNCHANGED turn \/ turn' = [r \in Requests |-> ClearedTurn(turn[r])])
      BY <2>8 DEF ClearQueue, StoreVars
    <3> QED
      BY <1>0, <3>1, CancelsKeepEnds
  <2>9. ListQueue(c) => \E closing \in Closings : RecoverTerminalRuns(closing)
    BY DEF ListQueue
  <2> HIDE DEF Kept
  <2> QED
    BY <1>8, <2>1, <2>2, <2>3, <2>4, <2>5, <2>6, <2>7, <2>8, <2>9 DEF ApiStep, Kept
<1>9. CASE ApiFinishes(c)
  <2>1. SteerWake(c) \/ PauseMarks(c) \/ ListResume(c) \/ CancelSignal(c) \/ QueuedSignal(c)
        => UNCHANGED <<run, frames, turn>>
    BY DEF SteerWake, Resume, PauseMarks, ListResume, ResumeAfterFailure, CancelSignal, QueuedSignal, Signal, StoreVars
  <2>2. ~RetryWake(c) /\ \A r \in Requests : ~RunNowSubmits(c, r)
    BY <1>0 DEF RetryWake, RunNowSubmits, Returns, Plain
  <2>3. CASE PauseRuns(c)
    BY <1>0, <2>3, CancelsKeepEnds DEF PauseRuns
  <2>4. CASE PauseTurn(c) \/ CancelRequestTurn(c)
    <3>1. CancelTurn(api[c].key) /\ UNCHANGED <<run, frames>>
      BY <2>4 DEF PauseTurn, CancelRequestTurn
    <3>2. api[c].key \in Requests \cup {None}
      BY DEF TurnInv, LockInv, TypeInv, TypeOK, ApiTypeOK
    <3> QED
      BY <1>0, <3>1, <3>2, CancelsKeepEnds
  <2>5. CASE ClearRows(c)
    BY <1>0, <2>5, CancelsKeepEnds DEF ClearRows
  <2>6. ListClaims(c) => \E closing \in Closings : RecoverClaims(closing)
    BY DEF ListClaims
  <2>7. UNCHANGED <<run, frames, turn>> => Kept
    BY NothingEnds
  <2> HIDE DEF Kept
  <2> QED
    BY <1>9, <2>1, <2>2, <2>3, <2>4, <2>5, <2>6, <2>7 DEF ApiFinishes, Kept
<1> QED
  BY <1>8, <1>9

LEMMA ClaimsKeepEnds ==
    ASSUME StoreOK, NEW closing, RecoverClaims(closing)
    PROVE  \A r \in Requests : EndKept(r)
<1> SUFFICES ASSUME NEW r \in Requests PROVE EndKept(r)
  OBVIOUS
<1>0. run[r] \in RunRows /\ turn[r] \in TurnRows /\ r \in Keys
  BY DEF StoreOK, StoreTypeOK, RunTypeOK, TurnTypeOK, Keys
<1>1. HasTerminalFrame(r) => frames'[r] = frames[r]
  BY <1>0 DEF RecoverClaims, OwesTerminalFrame
<1>2. ActiveRun(r)' <=> ActiveRun(r)
  <2>1. run'[r] = run[r] \/ run'[r] = [run[r] EXCEPT !.msg = ClosedMessage(run[r].msg, run[r].status)]
    BY DEF RecoverClaims
  <2>2. [run[r] EXCEPT !.msg = ClosedMessage(run[r].msg, run[r].status)].status = run[r].status
    BY <1>0, RunWrites
  <2> QED
    BY <2>1, <2>2 DEF ActiveRun
<1>3. Completed(r)' <=> Completed(r)
  <2>1. turn'[r] = turn[r] \/ (turn'[r] = RecoveredTurn(r) /\ r \in StaleClaims)
    BY DEF RecoverClaims
  <2>2. CASE turn'[r] = RecoveredTurn(r) /\ r \in StaleClaims
    <3>1. ~Completed(r)
      BY <2>2 DEF StaleClaims, InStatus, Completed
    <3>2. run[r].status # "completed"
      BY <1>0 DEF RunRows, RunStatuses, ActiveRunStatuses
    <3>3. RecoveredTurn(r).status # "completed"
      BY <1>0, <3>2 DEF RecoveredTurn, FinishedTurn, FinishStatus, Requeued, TurnRows, TerminalQueueStatuses
    <3> QED
      BY <2>2, <3>1, <3>3 DEF Completed
  <2> QED
    BY <2>1, <2>2 DEF Completed
<1> QED
  BY <1>1, <1>2, <1>3 DEF EndKept

\* A turn that recovery completes was reported by a worker that is gone.
LEMMA TerminalRunsKeepDurable ==
    ASSUME StoreOK, Plain, Core, Durable, UNCHANGED worker, NEW closing, RecoverTerminalRuns(closing)
    PROVE  Durable' /\ \A r \in Requests : Completed(r) => Completed(r)'
<1>0. /\ run \in [Requests -> RunRows] /\ turn \in [Requests -> TurnRows] /\ frames \in [Keys -> Seq(FrameKinds)]
      /\ Requests \subseteq Keys
  BY DEF StoreOK, StoreTypeOK, RunTypeOK, TurnTypeOK, Keys
<1>1. \A r \in Requests : HasTerminalFrame(r) => frames'[r] = frames[r]
  BY <1>0 DEF RecoverTerminalRuns
<1>2. ASSUME NEW r \in Requests, Orphaned(r)
      PROVE  ~Completed(r) /\ \A w \in Workers : worker[w].pc # "idle" => Key(w) # r
  <2>1. ActiveRun(r) /\ run[r].beat # "fresh"
    BY <1>2 DEF Orphaned, ActiveRun, ActiveRunStatuses, WorkerRunStatuses, OlderThanTen
  <2> QED
    BY <2>1 DEF Durable, IsDone, Core, Silent
<1>3. \A r \in Requests : ~Orphaned(r) => turn'[r] = turn[r] /\ run'[r] = run[r]
  BY DEF RecoverTerminalRuns
<1>4. ASSUME NEW r \in Requests, Orphaned(r), Completed(r)'
      PROVE  ~ActiveRun(r)' /\ HasTerminalFrame(r) /\ LastFrame(r) = "ready"
  <2>1. HasTerminalFrame(r) => LastFrame(r) \in FrameKinds
    BY <1>0 DEF HasTerminalFrame, LastFrame
  <2>2. run'[r] = ReconciledRun(r, closing) /\ turn'[r] = FinishedTurn(turn[r], TurnOutcome(OrphanOutcome(r)))
    BY <1>4 DEF RecoverTerminalRuns
  <2>3. ReconciledRun(r, closing).status = OrphanOutcome(r)
    BY <1>0 DEF ReconciledRun, FinishedRun, RunRows
  <2>4. FinishStatus(TurnOutcome(OrphanOutcome(r))) = "completed"
    BY <1>0, <1>4, <2>2 DEF Completed, FinishedTurn, TurnRows
  <2>5. OrphanOutcome(r) = "ready"
    BY <2>1, <2>4 DEF FinishStatus, TurnOutcome, OrphanOutcome, FrameKinds, DoneStatuses,
                      TerminalQueueStatuses, PausedQueueStatuses
  <2>6. HasTerminalFrame(r) /\ LastFrame(r) = "ready"
    BY <2>1, <2>5 DEF OrphanOutcome
  <2> QED
    BY <2>2, <2>3, <2>5, <2>6 DEF ActiveRun, ActiveRunStatuses
<1>5. ASSUME NEW r \in Requests, Completed(r)'
      PROVE  IsDone(r)'
  <2>w. \A w \in Workers : worker'[w] = worker[w] /\ Key(w)' = Key(w)
    BY DEF Key
  <2>1. CASE Orphaned(r)
    <3>1. ~ActiveRun(r)' /\ HasTerminalFrame(r)' /\ LastFrame(r)' = "ready"
      BY <1>1, <1>4, <1>5, <2>1 DEF HasTerminalFrame, LastFrame
    <3> QED
      BY <1>2, <2>1, <2>w, <3>1 DEF IsDone
  <2>2. CASE ~Orphaned(r)
    <3>1. Completed(r) /\ IsDone(r) /\ (ActiveRun(r)' <=> ActiveRun(r))
      BY <1>3, <1>5, <2>2 DEF Completed, Durable, ActiveRun
    <3>2. HasTerminalFrame(r)' /\ LastFrame(r)' = LastFrame(r)
      BY <1>1, <3>1 DEF IsDone, HasTerminalFrame, LastFrame
    <3> QED
      BY <2>w, <3>1, <3>2 DEF IsDone
  <2> QED
    BY <2>1, <2>2
<1>6. ASSUME NEW w \in Workers
      PROVE  HasReported(w)'
  <2>1. HasReported(w) /\ Key(w)' = Key(w) /\ (worker[w].pc # "idle" => Key(w) \in Requests)
    BY DEF Durable, Plain, PlainJob, Key
  <2>2. HasTerminalFrame(Key(w)) /\ worker[w].pc # "idle" => frames'[Key(w)] = frames[Key(w)]
    BY <1>1, <2>1
  <2> QED
    BY <2>1, <2>2 DEF HasReported, HasTerminalFrame, LastFrame
<1>7. \A r \in Requests : Completed(r) => Completed(r)'
  BY <1>2, <1>3 DEF Completed
<1> QED
  BY <1>5, <1>6, <1>7 DEF Durable, IsDone
-----------------------------------------------------------------------------
(* Workers. *)

\* Worker w writes the stream of its own request k, at most.
LEMMA WorkersWriteTheirStream ==
    ASSUME NEW w \in Workers, NEW k \in Requests, Key(w) = k, frames \in [Keys -> Seq(FrameKinds)], WorkerActs(w)
    PROVE  \A q \in Requests : q # k => frames'[q] = frames[q]
<1>1. UNCHANGED frames \/ \E frame : frames' = [frames EXCEPT ![k] = Append(@, frame)]
  <2>1. CASE WorkCheck(w) \/ WorkEmit(w) \/ WorkEmitFails(w)
    BY <2>1 DEF WorkCheck, WorkEmit, WorkEmitFails
  <2>2. CASE \/ WorkEarlyRuns(w) \/ WorkEarlyTurn(w) \/ WorkStart(w) \/ WorkCreate(w) \/ WorkRevive(w)
             \/ WorkApply(w) \/ WorkHeartbeat(w) \/ WorkRound(w) \/ WorkSeesCancel(w)
    BY <2>2 DEF WorkEarlyRuns, WorkEarlyTurn, WorkStart, WorkCreate, WorkRevive, WorkApply, WorkHeartbeat,
                WorkRound, WorkSeesCancel
  <2>3. CASE \/ WorkDeadline(w) \/ WorkFails(w) \/ WorkAnswers(w) \/ WorkAborts(w) \/ WorkFinalCheck(w)
             \/ WorkSave(w) \/ WorkFinalRun(w) \/ WorkFinalTurn(w)
    BY <2>3 DEF WorkDeadline, WorkFails, WorkAnswers, WorkAborts, WorkFinalCheck, WorkSave, WorkFinalRun,
                WorkFinalTurn, StoreVars
  <2> QED
    BY <2>1, <2>2, <2>3 DEF WorkerActs, WorkStep
<1>2. CASE UNCHANGED frames
  BY <1>2
<1>3. ASSUME NEW frame, frames' = [frames EXCEPT ![k] = Append(@, frame)]
      PROVE  \A q \in Requests : q # k => frames'[q] = frames[q]
  BY <1>3 DEF Keys
<1> QED
  BY <1>1, <1>2, <1>3

\* A worker that comes to a completed turn leaves at once.
LEMMA WorkerLeavesTheCompleted ==
    ASSUME StoreOK, Durable, NEW w \in Workers, NEW k \in Requests, Key(w) = k, WorkerActs(w),
           worker[w].pc # "idle", Completed(k)
    PROVE  UNCHANGED <<run, frames, turn>> /\ worker'[w].pc = "unlock"
<1>1. worker[w].pc \in {"check", "unlock"}
  BY DEF Durable, IsDone
<1>2. WorkCheck(w)
  BY <1>1 DEF WorkerActs, WorkStep, WorkAborts, WorkEmitFails, WorkCheck, WorkEarlyRuns, WorkEarlyTurn, WorkStart,
              WorkCreate, WorkRevive, WorkApply, WorkHeartbeat, WorkRound, WorkSeesCancel, WorkDeadline, WorkFails,
              WorkAnswers, WorkFinalCheck, WorkSave, WorkEmit, WorkFinalRun, WorkFinalTurn
<1>3. Goto(w, "unlock") /\ UNCHANGED <<run, frames, turn>>
  BY <1>2 DEF WorkCheck, HasTurn, HasRow, Completed
<1> QED
  BY <1>3 DEF Goto, StoreOK, WorkerOK

\* A worker completes its turn last of all, behind a durable end of its stream.
LEMMA WorkerCompletes ==
    ASSUME StoreOK, Durable, Core, NEW w \in Workers, NEW k \in Requests, Key(w) = k, WorkerActs(w),
           ~Completed(k), Completed(k)'
    PROVE  /\ UNCHANGED <<run, frames>> /\ worker'[w].pc = "unlock" /\ ~ActiveRun(k)
           /\ HasTerminalFrame(k) /\ LastFrame(k) \in {"ready", "blocked"}
<1>0. turn \in [Requests -> TurnRows] /\ HasReported(w) /\ WorkerFits(w) /\ WorkerOK
  BY DEF StoreOK, StoreTypeOK, TurnTypeOK, Durable, Core
<1>1. turn' # turn
  BY DEF Completed
<1>2. WorkEarlyTurn(w) \/ WorkFinalTurn(w)
  BY <1>1 DEF WorkerActs, WorkStep, WorkAborts, WorkEmitFails, WorkCheck, WorkEarlyRuns, WorkStart,
              WorkCreate, WorkRevive, WorkApply, WorkHeartbeat, WorkRound, WorkSeesCancel, WorkDeadline, WorkFails,
              WorkAnswers, WorkFinalCheck, WorkSave, WorkEmit, WorkFinalRun, StoreVars
<1>3. ASSUME NEW status, FinishTurnOf(k, status)
      PROVE  status = "completed"
  <2>1. turn'[k] = FinishedTurn(turn[k], status)
    BY <1>0, <1>1, <1>3 DEF FinishTurnOf
  <2>2. turn'[k].status = FinishStatus(status)
    BY <1>0, <2>1 DEF FinishedTurn, TurnRows
  <2> QED
    BY <2>2 DEF Completed, FinishStatus
<1>4. WorkFinalTurn(w) /\ TurnStatusOf(worker[w].out) = "completed"
  BY <1>2, <1>3 DEF WorkEarlyTurn, WorkFinalTurn
<1>5. worker[w].out \in {"ready", "blocked"} /\ worker[w].pc = "final_turn"
  <2>1. worker[w].out \in Outcomes
    BY <1>0 DEF WorkerOK
  <2> QED
    BY <1>4, <2>1 DEF TurnStatusOf, Outcomes, FrameKinds, DoneStatuses, WorkFinalTurn
<1>6. UNCHANGED <<run, frames>> /\ worker'[w].pc = "unlock"
  BY <1>0, <1>4 DEF WorkFinalTurn, Goto, WorkerOK
<1> QED
  BY <1>0, <1>5, <1>6 DEF HasReported, WorkerFits, PausedQueueStatuses

\* Whoever is about to complete a turn has written its end.
LEMMA WorkersReport ==
    ASSUME StoreOK, Durable, Core, NEW w \in Workers, NEW k \in Requests, Key(w) = k, WorkerActs(w)
    PROVE  HasReported(w)'
<1>0. /\ WorkerOK /\ frames \in [Keys -> Seq(FrameKinds)] /\ HasReported(w) /\ WorkerFits(w) /\ k \in Keys
      /\ worker[w].out \in Outcomes
  BY DEF StoreOK, StoreTypeOK, RunTypeOK, Durable, Core, WorkerOK, Keys
<1>1. CASE WorkEmit(w)
  <2>1. /\ frames'[k] = Append(frames[k], worker[w].out) /\ frames[k] \in Seq(FrameKinds)
        /\ worker'[w].out = worker[w].out /\ Key(w)' = k
    BY <1>0, <1>1 DEF WorkEmit, Goto, WorkerOK, Key
  <2>2. ASSUME worker[w].out \in {"ready", "blocked"}
        PROVE  frames'[k] # <<>> /\ frames'[k][Len(frames'[k])] = worker[w].out
    <3>1. worker[w].out \in FrameKinds
      BY <2>2 DEF FrameKinds, DoneStatuses
    <3> QED
      BY <2>1, <3>1
  <2> QED
    BY <2>1, <2>2 DEF HasReported, HasTerminalFrame, LastFrame
<1>2. CASE WorkEmitFails(w) \/ WorkEarlyTurn(w)
  <2>1. worker'[w].out \in {"error", "cancelled"}
    BY <1>0, <1>2 DEF WorkEmitFails, WorkEarlyTurn, Goto, GotoWith, WorkerOK, WorkerFits
  <2> QED
    BY <2>1 DEF HasReported
<1>3. CASE WorkFinalRun(w)
  <2>1. UNCHANGED frames /\ worker'[w].out = worker[w].out /\ Key(w)' = k /\ worker[w].pc = "final_run"
    BY <1>0, <1>3 DEF WorkFinalRun, Goto, WorkerOK, Key
  <2> QED
    BY <1>0, <2>1 DEF HasReported, HasTerminalFrame, LastFrame
<1>4. ASSUME ~(worker'[w].pc \in {"final_run", "final_turn"})
      PROVE  HasReported(w)'
  BY <1>4 DEF HasReported
<1>5. CASE WorkHeartbeat(w) \/ WorkRound(w)
  BY <1>4, <1>5 DEF WorkHeartbeat, WorkRound
<1>6. CASE WorkCheck(w) \/ WorkEarlyRuns(w) \/ WorkCreate(w) \/ WorkRevive(w) \/ WorkApply(w)
  BY <1>0, <1>4, <1>6 DEF WorkCheck, WorkEarlyRuns, WorkCreate, WorkRevive, WorkApply, Goto, GotoWith, WorkerOK
<1>7. CASE WorkStart(w)
  <2>1. worker'[w].pc \in {"create", "emit", "revive", "stream", "apply", "final_check"}
    BY <1>0, <1>7 DEF WorkStart, StartTurn, StartFirst, StartRetry, StartAnswer, StartApproval, Goto, GotoWith,
                      GotoRelabelled, WorkerOK
  <2> QED
    BY <1>4, <2>1
<1>8. CASE \/ WorkSeesCancel(w) \/ WorkDeadline(w) \/ WorkFails(w) \/ WorkAnswers(w) \/ WorkAborts(w)
           \/ WorkFinalCheck(w) \/ WorkSave(w)
  BY <1>0, <1>4, <1>8 DEF WorkSeesCancel, WorkDeadline, WorkFails, WorkAnswers, WorkAborts, WorkFinalCheck,
                          WorkSave, Goto, GotoWith, WorkerOK
<1>9. CASE WorkFinalTurn(w)
  BY <1>0, <1>4, <1>9 DEF WorkFinalTurn, Goto, WorkerOK
<1> QED
  BY <1>1, <1>2, <1>3, <1>5, <1>6, <1>7, <1>8, <1>9 DEF WorkerActs, WorkStep, WorkUnlock

LEMMA WorkersKeepDurable ==
    ASSUME TurnInv, Durable, NEW w \in Workers, WorkerActs(w), UNCHANGED beat
    PROVE  Durable' /\ \A r \in Requests : Completed(r) => Completed(r)'
<1>0. StoreOK /\ Plain /\ NoCancels /\ Core /\ LockHeld /\ frames \in [Keys -> Seq(FrameKinds)]
  BY TurnInvTypes DEF StoreOK, StoreTypeOK, RunTypeOK
<1> DEFINE k == Key(w)
<1>1. worker[w].pc # "idle" /\ k \in Requests
  BY <1>0, WorkerActsOnOne
<1>2. OwnStep(w, k)
  BY <1>0, <1>1, WorkerOwns
<1>3. \A q \in Requests : q # k => frames'[q] = frames[q] /\ turn'[q] = turn[q] /\ run'[q] = run[q]
  BY <1>0, <1>1, <1>2, WorkersWriteTheirStream DEF OwnStep
<1>4. \A v \in Workers : /\ Key(v)' = Key(v)
                         /\ v # w => worker'[v] = worker[v] /\ (worker[v].pc # "idle" => Key(v) # k)
  BY <1>0, <1>1, <1>2, LockHeldExcludes DEF OwnStep, Key, OneWorkerPerKey
<1>5. ASSUME Completed(k)
      PROVE  UNCHANGED <<run, frames, turn>> /\ worker'[w].pc = "unlock"
  BY <1>0, <1>1, <1>5, WorkerLeavesTheCompleted
<1>6. ASSUME NEW r \in Requests, Completed(r)'
      PROVE  IsDone(r)'
  <2>1. CASE r # k
    <3>1. IsDone(r) /\ Completed(r)
      BY <1>3, <1>6, <2>1 DEF Durable, Completed
    <3> QED
      BY <1>3, <1>4, <2>1, <3>1 DEF IsDone, ActiveRun, HasTerminalFrame, LastFrame
  <2>2. CASE r = k /\ Completed(k)
    <3>1. IsDone(k)
      BY <1>1 DEF Durable
    <3> QED
      BY <1>4, <1>5, <2>2, <3>1 DEF IsDone, ActiveRun, HasTerminalFrame, LastFrame
  <2>3. CASE r = k /\ ~Completed(k)
    <3>1. /\ UNCHANGED <<run, frames>> /\ worker'[w].pc = "unlock" /\ ~ActiveRun(k)
          /\ HasTerminalFrame(k) /\ LastFrame(k) \in {"ready", "blocked"}
      BY <1>0, <1>1, <1>6, <2>3, WorkerCompletes
    <3> QED
      BY <1>4, <2>3, <3>1 DEF IsDone, ActiveRun, HasTerminalFrame, LastFrame
  <2> QED
    BY <2>1, <2>2, <2>3
<1>7. ASSUME NEW v \in Workers
      PROVE  HasReported(v)'
  <2>1. CASE v = w
    BY <1>0, <1>1, <2>1, WorkersReport
  <2>2. CASE v # w /\ worker[v].pc # "idle"
    <3>1. Key(v) \in Requests
      BY <1>0, <2>2 DEF Plain, PlainJob, Key
    <3> QED
      BY <1>3, <1>4, <2>2, <3>1 DEF Durable, HasReported, HasTerminalFrame, LastFrame
  <2>3. CASE v # w /\ worker[v].pc = "idle"
    BY <1>4, <2>3 DEF HasReported
  <2> QED
    BY <2>1, <2>2, <2>3
<1>8. ASSUME NEW r \in Requests, Completed(r)
      PROVE  Completed(r)'
  BY <1>3, <1>5, <1>8 DEF Completed
<1> QED
  BY <1>6, <1>7, <1>8 DEF Durable, IsDone
-----------------------------------------------------------------------------
(* Dispatchers, the beat and time. *)

\* Rows whose status stays what it was.
LEMMA StampsKeepEnds ==
    ASSUME turn \in [Requests -> TurnRows], run \in [Requests -> RunRows], UNCHANGED frames,
           NEW r \in Requests,
           \/ UNCHANGED run /\ \E stamp : \/ turn' = [turn EXCEPT ![r].started = stamp]
                                          \/ turn' = [turn EXCEPT ![r].completed = stamp]
           \/ UNCHANGED turn /\ \E age : run' = [run EXCEPT ![r].beat = age]
    PROVE  \A q \in Requests : EndKept(q)
<1>1. ASSUME NEW stamp, UNCHANGED run, \/ turn' = [turn EXCEPT ![r].started = stamp]
                                       \/ turn' = [turn EXCEPT ![r].completed = stamp]
      PROVE  \A q \in Requests : EndKept(q)
  <2>1. \A q \in Requests : turn'[q].status = turn[q].status
    BY <1>1 DEF TurnRows
  <2> QED
    BY <1>1, <2>1 DEF EndKept, Completed, ActiveRun
<1>2. ASSUME NEW age, UNCHANGED turn, run' = [run EXCEPT ![r].beat = age]
      PROVE  \A q \in Requests : EndKept(q)
  <2>1. \A q \in Requests : run'[q].status = run[q].status
    BY <1>2 DEF RunRows
  <2> QED
    BY <1>2, <2>1 DEF EndKept, Completed, ActiveRun
<1> QED
  BY <1>1, <1>2

LEMMA DispatchersKeepEnds ==
    ASSUME StoreOK, NEW d \in Dispatchers, DispStep(d)
    PROVE  \/ \A r \in Requests : EndKept(r)
           \/ \E closing : RecoverTerminalRuns(closing) \/ RecoverClaims(closing)
<1>0. turn \in [Requests -> TurnRows]
  BY DEF StoreOK, StoreTypeOK, TurnTypeOK
<1>1. CASE DispTake(d) \/ DispResume(d) \/ DispFindsNothing(d) \/ DispSubmit(d)
  BY <1>1, NothingEnds DEF DispTake, DispResume, DispFindsNothing, DispSubmit, ResumeAfterFailure, StoreVars
<1>2. CASE DispTerminalRuns(d) \/ DispClaims(d)
  BY <1>2 DEF DispTerminalRuns, DispClaims
<1>3. CASE DispClaim(d)
  <2>1. PICK r \in Requests : Claim(r)
    BY <1>3 DEF DispClaim
  <2>2. /\ turn' = [turn EXCEPT ![r].status = "running", ![r].started = "fresh"] /\ turn[r].status = "queued"
        /\ UNCHANGED <<run, frames>>
    BY <2>1 DEF Claim, Claimable, FirstQueued
  <2>3. \A q \in Requests : Completed(q)' <=> Completed(q)
    BY <1>0, <2>2 DEF Completed, TurnRows
  <2> QED
    BY <2>2, <2>3 DEF EndKept, ActiveRun
<1>4. CASE DispRelease(d)
  <2>1. /\ UNCHANGED <<run, frames>>
        /\ turn' = [turn EXCEPT ![disp[d].key] = IF @.status = "running" THEN Requeued(@) ELSE @]
    BY <1>4 DEF DispRelease, ReleaseClaim
  <2>2. ASSUME NEW q \in Requests
        PROVE  Completed(q)' <=> Completed(q)
    <3>1. turn'[q] = turn[q] \/ (turn[q].status = "running" /\ turn'[q] = Requeued(turn[q]))
      BY <1>0, <2>1
    <3>2. turn[q] \in TurnRows /\ Requeued(turn[q]).status = "queued"
      BY <1>0 DEF TurnRows, Requeued
    <3> QED
      BY <3>1, <3>2 DEF Completed
  <2> QED
    BY <2>1, <2>2 DEF EndKept, ActiveRun
<1> QED
  BY <1>1, <1>2, <1>3, <1>4 DEF DispStep

LEMMA BeatKeepsEnds ==
    ASSUME StoreOK, BeatStep
    PROVE  \/ \A r \in Requests : EndKept(r)
           \/ \E closing : RecoverTerminalRuns(closing) \/ RecoverClaims(closing)
<1>0. run \in [Requests -> RunRows] /\ frames \in [Keys -> Seq(FrameKinds)]
  BY DEF StoreOK, StoreTypeOK, RunTypeOK
<1>1. CASE BeatStarts \/ NoLeaseExpired \/ BeatFailurePause \/ BeatWake
  BY <1>1, NothingEnds DEF BeatStarts, NoLeaseExpired, BeatFailurePause, BeatWake, ResumeAfterFailure, StoreVars
<1>2. CASE BeatTerminalRuns \/ BeatClaims
  BY <1>2 DEF BeatTerminalRuns, BeatClaims
<1>3. CASE CloseExpired
  <2>1. /\ UNCHANGED <<run, turn>>
        /\ \/ UNCHANGED frames
           \/ ~HasTerminalFrame(beat.key) /\ \E end : frames' = [frames EXCEPT ![beat.key] = end]
    BY <1>3 DEF CloseExpired
  <2>2. \A q \in Requests : HasTerminalFrame(q) => frames'[q] = frames[q]
    BY <1>0, <2>1 DEF Keys
  <2> QED
    BY <2>1, <2>2 DEF EndKept, Completed, ActiveRun
<1>4. ASSUME NEW r \in Requests, ExpireLease(r)
      PROVE  \A q \in Requests : EndKept(q)
  <2>1. \A status : [FinishedRun(run[r], status) EXCEPT
                        !.lease = TRUE, !.msg = ClosedMessage(@, status)].status = status
    BY <1>0 DEF FinishedRun, RunRows
  <2>2. run'[r].status = LeaseOutcome(r) /\ \A q \in Requests : q # r => run'[q] = run[q]
    BY <1>0, <1>4, <2>1 DEF ExpireLease
  <2>3. \A q \in Requests : ActiveRun(q)' => ActiveRun(q)
    BY <2>2 DEF ActiveRun, LeaseOutcome, ActiveRunStatuses
  <2> QED
    BY <1>4, <2>3 DEF EndKept, ExpireLease, Completed
<1> QED
  BY <1>1, <1>2, <1>3, <1>4 DEF BeatStep

LEMMA DurableStep ==
    ASSUME OrderlyUse, TurnInv, Durable, [Next]_vars
    PROVE  Durable' /\ \A r \in Requests : Completed(r) => Completed(r)'
<1>0. StoreOK /\ Plain /\ Core /\ turn \in [Requests -> TurnRows] /\ run \in [Requests -> RunRows]
  BY TurnInvTypes
<1>1. ASSUME \A r \in Requests : EndKept(r),
             \A w \in Workers : worker'[w] = worker[w] \/ worker'[w].pc \in {"idle", "check"}
      PROVE  Durable' /\ \A r \in Requests : Completed(r) => Completed(r)'
  BY <1>0, <1>1, KeptEndsKeep DEF EndKept
<1>2. ASSUME NEW closing, RecoverTerminalRuns(closing) \/ RecoverClaims(closing), UNCHANGED worker
      PROVE  Durable' /\ \A r \in Requests : Completed(r) => Completed(r)'
  BY <1>0, <1>1, <1>2, TerminalRunsKeepDurable, ClaimsKeepEnds
<1>3. ASSUME NEW c \in Clients, ApiStep(c) \/ ApiFinishes(c), UNCHANGED <<disp, worker, beat>>
      PROVE  Durable' /\ \A r \in Requests : Completed(r) => Completed(r)'
  BY <1>1, <1>2, <1>3, HandlersKeepEnds
<1>4. ASSUME NEW d \in Dispatchers, DispStep(d), UNCHANGED worker
      PROVE  Durable' /\ \A r \in Requests : Completed(r) => Completed(r)'
  BY <1>0, <1>1, <1>2, <1>4, DispatchersKeepEnds
<1>5. ASSUME NEW w \in Workers, WorkUnlock(w)
      PROVE  Durable' /\ \A r \in Requests : Completed(r) => Completed(r)'
  <2>1. UNCHANGED <<run, frames, turn>> /\ worker' = [worker EXCEPT ![w] = IdleWorker]
    BY <1>5 DEF WorkUnlock, StoreVars
  <2>2. \A v \in Workers : worker'[v] = worker[v] \/ worker'[v].pc = "idle"
    BY <1>0, <2>1 DEF StoreOK, WorkerOK, IdleWorker
  <2> QED
    BY <1>1, <2>1, <2>2, NothingEnds
<1>6. ASSUME NEW w \in Workers, NEW job \in jobs, NEW redelivered, WorkTake(w, job, redelivered)
      PROVE  Durable' /\ \A r \in Requests : Completed(r) => Completed(r)'
  <2>1. UNCHANGED <<run, frames, turn>>
    BY <1>6 DEF WorkTake, StoreVars
  <2>2. \A v \in Workers : worker'[v] = worker[v] \/ worker'[v].pc = "check"
    BY <1>0, <1>6 DEF WorkTake, StoreOK, WorkerOK
  <2> QED
    BY <1>1, <2>1, <2>2, NothingEnds
<1>7. ASSUME BeatStep, UNCHANGED worker
      PROVE  Durable' /\ \A r \in Requests : Completed(r) => Completed(r)'
  BY <1>0, <1>1, <1>2, <1>7, BeatKeepsEnds
<1>8. ASSUME NEW r \in Requests, TurnAges(r) \/ EndAges(r) \/ LeaseAges(r), UNCHANGED worker
      PROVE  Durable' /\ \A q \in Requests : Completed(q) => Completed(q)'
  <2>1. /\ UNCHANGED frames
        /\ \/ UNCHANGED run /\ \E stamp : \/ turn' = [turn EXCEPT ![r].started = stamp]
                                          \/ turn' = [turn EXCEPT ![r].completed = stamp]
           \/ UNCHANGED turn /\ \E age : run' = [run EXCEPT ![r].beat = age]
    BY <1>8 DEF TurnAges, EndAges, LeaseAges
  <2> QED
    BY <1>0, <1>1, <1>8, <2>1, StampsKeepEnds
<1>9. CASE Crash
  <2>1. UNCHANGED <<run, frames, turn>>
    BY <1>9 DEF Crash, StoreVars
  <2>2. \A v \in Workers : worker'[v] = worker[v] \/ worker'[v].pc = "idle"
    BY <1>0, <1>9 DEF Crash, CrashWorker, CrashDispatcher, CrashClient, CrashBeat, StoreOK, WorkerOK, IdleWorker
  <2> QED
    BY <1>1, <2>1, <2>2, NothingEnds
<1>10. CASE UNCHANGED <<run, frames, turn, worker>>
  BY <1>1, <1>10, NothingEnds
<1> QED
  BY <1>3, <1>4, <1>5, <1>6, <1>7, <1>8, <1>9, <1>10, WorkersKeepDurable, NextCases
-----------------------------------------------------------------------------
DurableInv == TurnInv /\ Durable

LEMMA DurableInvariant ==
    ASSUME OrderlyUse
    PROVE  Spec => []DurableInv
<1>1. Init => DurableInv
  BY TurnInvInitially DEF Init, DurableInv, Durable, IsDone, HasReported, Completed, TurnInit, NoTurn,
                          WorkersInit, IdleWorker
<1>2. DurableInv /\ [Next]_vars => DurableInv'
  BY DurableStep, TurnInvPreserved DEF DurableInv
<1> QED
  BY <1>1, <1>2, PTL DEF Spec

\* A turn is completed only behind a durable end of its stream that says so:
\* the worker writes its frame first and the turn last, and recovery believes
\* nothing but the frame.
THEOREM CompletedAreDurable ==
    ASSUME OrderlyUse
    PROVE  Spec => []CompletedIsDurable
<1>1. DurableInv => CompletedIsDurable
  BY DEF DurableInv, Durable, IsDone, Completed, CompletedIsDurable, InStatus
<1> QED
  BY <1>1, DurableInvariant, PTL

\* No step takes a completed turn back, not even a second delivery of its job:
\* whoever still has the turn in hand looks at the queue first.
THEOREM CompletedAreFinal ==
    ASSUME OrderlyUse
    PROVE  Spec => CompletedIsFinal
<1> DEFINE Stay == \A r \in InStatus({"completed"}) : turn'[r].status = "completed"
<1>1. DurableInv /\ [Next]_vars => [Stay]_vars
  BY DurableStep DEF DurableInv, Completed, InStatus
<1>2. Spec => [][Stay]_vars
  BY <1>1, DurableInvariant, PTL DEF Spec
<1> QED
  BY <1>2 DEF CompletedIsFinal
-----------------------------------------------------------------------------
(* The order of the queue. *)

Queued(r) == turn[r].status = "queued"
Absent(r) == turn[r].status = "absent"

\* Nobody steers: all priorities are equal, queued turns have distinct numbers,
\* a busy turn is the oldest one, and a run does not come before its turn.
Ordered ==
    /\ \A r \in Requests : turn[r].priority = 0
    /\ \A r, q \in Requests : Queued(r) /\ Queued(q) /\ r # q => turn[r].sequence # turn[q].sequence
    /\ \A r, q \in Requests : Busy(r) /\ Queued(q) /\ r # q => turn[r].sequence < turn[q].sequence
    /\ \A r \in Requests : Absent(r) => ~Busy(r)

\* Only a claim makes a request busy, and only a busy one goes back to the queue.
Stays(r) == /\ Busy(r)' => Busy(r)
            /\ Queued(r)' => Queued(r) \/ Busy(r) \/ Absent(r)

LEMMA SameStatusStays ==
    ASSUME NEW r, turn'[r].status = turn[r].status, ActiveRun(r)' => ActiveRun(r)
    PROVE  Stays(r)
BY DEF Stays, Busy, ActiveTurn, ActiveRun, Queued

LEMMA CalmStays ==
    ASSUME CalmStep
    PROVE  \A r \in Requests : Stays(r)
BY DEF CalmStep, CalmTurn, CalmRun, Stays, Busy, Waiting, Queued, Absent

LEMMA RecoveryStays ==
    ASSUME StoreOK, NEW closing, RecoverTerminalRuns(closing) \/ RecoverClaims(closing)
    PROVE  \A r \in Requests : Stays(r)
<1> SUFFICES ASSUME NEW r \in Requests PROVE Stays(r)
  OBVIOUS
<1>0. run[r] \in RunRows /\ turn[r] \in TurnRows
  BY DEF StoreOK, StoreTypeOK, RunTypeOK, TurnTypeOK
<1>1. CASE RecoverTerminalRuns(closing)
  <2>1. CASE Orphaned(r)
    <3>1. turn'[r] = FinishedTurn(turn[r], TurnOutcome(OrphanOutcome(r)))
      BY <1>1, <2>1 DEF RecoverTerminalRuns
    <3>2. turn'[r].status = FinishStatus(TurnOutcome(OrphanOutcome(r)))
      BY <1>0, <3>1 DEF FinishedTurn, TurnRows
    <3>3. ~Queued(r)'
      BY <3>2 DEF Queued, FinishStatus, TerminalQueueStatuses, PausedQueueStatuses
    <3>4. Busy(r)
      BY <2>1 DEF Orphaned, Busy, ActiveRun, ActiveRunStatuses, WorkerRunStatuses
    <3> QED
      BY <3>3, <3>4 DEF Stays
  <2>2. CASE ~Orphaned(r)
    <3>1. turn'[r] = turn[r] /\ run'[r] = run[r]
      BY <1>1, <2>2 DEF RecoverTerminalRuns
    <3> QED
      BY <3>1, SameStatusStays DEF ActiveRun
  <2> QED
    BY <2>1, <2>2
<1>2. CASE RecoverClaims(closing)
  <2>1. ActiveRun(r)' <=> ActiveRun(r)
    <3>1. run'[r] = run[r] \/ run'[r] = [run[r] EXCEPT !.msg = ClosedMessage(run[r].msg, run[r].status)]
      BY <1>2 DEF RecoverClaims
    <3>2. [run[r] EXCEPT !.msg = ClosedMessage(run[r].msg, run[r].status)].status = run[r].status
      BY <1>0, RunWrites
    <3> QED
      BY <3>1, <3>2 DEF ActiveRun
  <2>2. CASE r \in StaleClaims
    <3>1. Busy(r)
      BY <2>2 DEF StaleClaims, InStatus, Busy, ActiveTurn, ActiveQueueStatuses
    <3> QED
      BY <3>1 DEF Stays
  <2>3. CASE r \notin StaleClaims
    <3>1. turn'[r] = turn[r]
      BY <1>2, <2>3 DEF RecoverClaims
    <3> QED
      BY <2>1, <3>1, SameStatusStays
  <2> QED
    BY <2>2, <2>3
<1> QED
  BY <1>1, <1>2

LEMMA AllStay ==
    ASSUME OrderlyUse, TurnInv, [Next]_vars
    PROVE  (\A r \in Requests : Stays(r)) \/ \E r \in Requests : Claim(r)
<1>0. /\ StoreOK /\ Plain /\ NoCancels /\ Core /\ turn \in [Requests -> TurnRows] /\ run \in [Requests -> RunRows]
      /\ \A d \in Dispatchers : disp[d].pc = "submit" => disp[d].key \in Requests
  BY TurnInvTypes
<1>1. UNCHANGED <<run, turn>> => \A r \in Requests : Stays(r)
  BY SameStatusStays DEF ActiveRun
<1>2. ASSUME NEW c \in Clients, ApiStep(c) \/ ApiFinishes(c), UNCHANGED <<disp, worker, beat>>
      PROVE  \A r \in Requests : Stays(r)
  <2>1. ASSUME NEW q \in Requests, Answer(c, q)
        PROVE  \A r \in Requests : Stays(r)
    <3>1. /\ turn' = [turn EXCEPT ![q] = Resumed(turn[q])] /\ run' = [run EXCEPT ![q] = QuestionClaimed(run[q])]
          /\ turn[q].status \in PausedQueueStatuses
      BY <1>0, <2>1, AnswerDoes DEF Answer
    <3>2. Stays(q)
      <4>1. turn[q] \in TurnRows /\ turn'[q].status = "running"
        BY <1>0, <3>1 DEF Resumed, TurnRows
      <4> QED
        BY <3>1, <4>1 DEF Stays, Busy, ActiveTurn, PausedQueueStatuses, ActiveQueueStatuses, Queued
    <3>3. ASSUME NEW r \in Requests, r # q
          PROVE  Stays(r)
      <4>1. turn'[r] = turn[r] /\ run'[r] = run[r]
        BY <3>1, <3>3
      <4> QED
        BY <4>1, SameStatusStays DEF ActiveRun
    <3> QED
      BY <3>2, <3>3
  <2> QED
    BY <1>0, <1>2, <2>1, HandlersAreCalm, CalmStays, RecoveryStays
<1>3. ASSUME NEW d \in Dispatchers, DispStep(d)
      PROVE  (\A r \in Requests : Stays(r)) \/ \E r \in Requests : Claim(r)
  <2>1. CASE DispTake(d) \/ DispResume(d) \/ DispFindsNothing(d) \/ DispSubmit(d)
    BY <1>1, <2>1 DEF DispTake, DispResume, DispFindsNothing, DispSubmit, ResumeAfterFailure, StoreVars
  <2>2. CASE DispTerminalRuns(d) \/ DispClaims(d)
    BY <1>0, <2>2, RecoveryStays DEF DispTerminalRuns, DispClaims
  <2>3. CASE DispClaim(d)
    BY <2>3 DEF DispClaim
  <2>4. CASE DispRelease(d)
    <3>1. /\ UNCHANGED run /\ disp[d].key \in Requests
          /\ turn' = [turn EXCEPT ![disp[d].key] = IF @.status = "running" THEN Requeued(@) ELSE @]
      BY <1>0, <2>4 DEF DispRelease, ReleaseClaim
    <3>2. ASSUME NEW r \in Requests
          PROVE  Stays(r)
      <4>1. turn'[r] = turn[r] \/ turn[r].status = "running"
        BY <1>0, <3>1
      <4>2. CASE turn'[r] = turn[r]
        BY <3>1, <4>2, SameStatusStays DEF ActiveRun
      <4>3. CASE turn[r].status = "running"
        BY <4>3 DEF Stays, Busy, ActiveTurn, ActiveQueueStatuses
      <4> QED
        BY <4>1, <4>2, <4>3
    <3> QED
      BY <3>2
  <2> QED
    BY <1>3, <2>1, <2>2, <2>3, <2>4 DEF DispStep
<1>4. ASSUME NEW w \in Workers, WorkerActs(w), UNCHANGED beat
      PROVE  \A r \in Requests : Stays(r)
  <2>1. Key(w) \in Requests /\ OwnStep(w, Key(w))
    BY <1>0, <1>4, WorkerActsOnOne, WorkerOwns
  <2>2. Stays(Key(w))
    BY <2>1 DEF OwnStep, OwnRows, Stays, Waiting, Queued, Absent
  <2>3. ASSUME NEW r \in Requests, r # Key(w)
        PROVE  Stays(r)
    BY <2>1, <2>3, SameStatusStays DEF OwnStep, ActiveRun
  <2> QED
    BY <2>1, <2>2, <2>3
<1>5. ASSUME BeatStep
      PROVE  \A r \in Requests : Stays(r)
  <2>1. ASSUME NEW q \in Requests, ExpireLease(q)
        PROVE  \A r \in Requests : Stays(r)
    <3>1. UNCHANGED turn /\ \A r \in Requests : r # q => run'[r] = run[r]
      BY <1>0, <2>1 DEF ExpireLease
    <3>2. ~ActiveRun(q)'
      <4>1. \A status : [FinishedRun(run[q], status) EXCEPT
                            !.lease = TRUE, !.msg = ClosedMessage(@, status)].status = status
        BY <1>0 DEF FinishedRun, RunRows
      <4>2. run'[q].status = LeaseOutcome(q)
        BY <1>0, <2>1, <4>1 DEF ExpireLease
      <4> QED
        BY <4>2 DEF ActiveRun, LeaseOutcome, ActiveRunStatuses
    <3> QED
      BY <3>1, <3>2, SameStatusStays DEF ActiveRun
  <2> QED
    BY <1>0, <1>1, <1>5, <2>1, BeatTouches, RecoveryStays
<1>6. ASSUME NEW q \in Requests, TurnAges(q) \/ EndAges(q) \/ LeaseAges(q)
      PROVE  \A r \in Requests : Stays(r)
  <2>1. \A r \in Requests : turn'[r].status = turn[r].status /\ run'[r].status = run[r].status
    BY <1>0, <1>6 DEF TurnAges, EndAges, LeaseAges, TurnRows, RunRows
  <2> QED
    BY <2>1, SameStatusStays DEF ActiveRun
<1>7. ASSUME NEW w \in Workers, WorkUnlock(w) \/ \E job \in jobs, redelivered \in BOOLEAN : WorkTake(w, job, redelivered)
      PROVE  UNCHANGED <<run, turn>>
  BY <1>7 DEF WorkUnlock, WorkTake, StoreVars
<1>8. Crash => UNCHANGED <<run, turn>>
  BY DEF Crash, StoreVars
<1> QED
  BY <1>1, <1>2, <1>3, <1>4, <1>5, <1>6, <1>7, <1>8, NextCases

LEMMA OrderedStep ==
    ASSUME OrderlyUse, "steer" \notin Ops, TurnInv, Ordered, [Next]_vars
    PROVE  Ordered'
<1>0. turn \in [Requests -> TurnRows] /\ OneBusy
  BY TurnInvTypes DEF Core
<1>n. \A r \in Requests : turn[r].sequence \in Nat
  BY <1>0 DEF TurnRows
<1>1. ASSUME NEW c \in Requests, Claim(c)
      PROVE  Ordered'
  <2>1. /\ turn' = [turn EXCEPT ![c].status = "running", ![c].started = "fresh"] /\ UNCHANGED run
        /\ FirstQueued(c) /\ \A r \in Requests : ~Busy(r)
    BY <1>1 DEF Claim, Claimable, InStatus, RunIsActive, Busy, ActiveTurn, ActiveRun
  <2>2. \A r \in Requests : /\ turn'[r].priority = turn[r].priority /\ turn'[r].sequence = turn[r].sequence
                            /\ r # c => turn'[r].status = turn[r].status
    BY <1>0, <2>1 DEF TurnRows
  <2>3. turn'[c].status = "running"
    BY <1>0, <2>1 DEF TurnRows
  <2>4. \A r \in Requests : (Busy(r)' => r = c) /\ (Queued(r)' => Queued(r) /\ r # c) /\ (Absent(r)' => r # c)
    BY <2>1, <2>2, <2>3 DEF Busy, ActiveTurn, ActiveRun, Queued, Absent
  <2>5. \A q \in Requests : Queued(q) /\ q # c => turn[c].sequence < turn[q].sequence
    BY <1>n, <2>1 DEF FirstQueued, InStatus, RunsBefore, Queued, Ordered
  <2> QED
    BY <2>2, <2>4, <2>5 DEF Ordered
<1>2. ASSUME \A r \in Requests : Stays(r) /\ SamePlace(r)
      PROVE  Ordered'
  <2>1. \A r \in Requests : /\ turn'[r].priority = turn[r].priority /\ turn'[r].sequence = turn[r].sequence
                            /\ Busy(r)' => Busy(r)
                            /\ Queued(r)' => Queued(r) \/ Busy(r)
                            /\ Absent(r)' => Absent(r)
    BY <1>2 DEF SamePlace, Stays, Absent, Queued
  <2>2. \A r, q \in Requests : Queued(r)' /\ Queued(q)' /\ r # q => turn[r].sequence # turn[q].sequence
    BY <1>0, <1>n, <2>1 DEF Ordered, OneBusy
  <2>3. \A r, q \in Requests : Busy(r)' /\ Queued(q)' /\ r # q => turn[r].sequence < turn[q].sequence
    BY <1>0, <2>1 DEF Ordered, OneBusy
  <2> QED
    BY <2>1, <2>2, <2>3 DEF Ordered
<1>3. ASSUME NEW a \in Requests, Enqueue(a, FALSE)
      PROVE  Ordered'
  <2>1. PICK row \in NewTurn(0, None) : turn' = [turn EXCEPT ![a] = row]
    BY <1>3 DEF Enqueue
  <2>2. PICK top \in Requests : /\ \A q \in Requests : turn[q].sequence <= turn[top].sequence
                                /\ row = [NoTurn EXCEPT !.status = "queued", !.priority = 0,
                                                        !.sequence = turn[top].sequence + 1, !.parent = None]
    BY <2>1 DEF NewTurn
  <2>3. row.status = "queued" /\ row.priority = 0 /\ \A q \in Requests : turn[q].sequence < row.sequence
    BY <1>n, <2>2 DEF NoTurn
  <2>4. Absent(a) /\ ~Busy(a) /\ UNCHANGED run
    BY <1>3 DEF Enqueue, Absent, Ordered
  <2>5. turn'[a] = row /\ \A q \in Requests : q # a => turn'[q] = turn[q]
    BY <1>0, <2>1
  <2>6. ~Busy(a)' /\ Queued(a)' /\ ~Absent(a)'
    BY <2>3, <2>4, <2>5 DEF Busy, ActiveTurn, ActiveRun, ActiveQueueStatuses, Queued, Absent
  <2>7. \A q \in Requests : q # a => (Busy(q)' <=> Busy(q)) /\ (Queued(q)' <=> Queued(q)) /\ (Absent(q)' <=> Absent(q))
    BY <2>4, <2>5 DEF Busy, ActiveTurn, ActiveRun, Queued, Absent
  <2>8. \A r \in Requests : turn'[r].priority = 0
    BY <2>3, <2>5 DEF Ordered
  <2>9. \A q \in Requests : q # a => turn'[q].sequence < turn'[a].sequence /\ turn'[q].sequence \in Nat
    BY <1>n, <2>3, <2>5
  <2>10. turn'[a].sequence \in Nat
    BY <1>n, <2>2, <2>5 DEF NoTurn
  <2>11. ASSUME NEW r \in Requests, NEW q \in Requests, Queued(r)', Queued(q)', r # q
         PROVE  turn'[r].sequence # turn'[q].sequence
    BY <2>5, <2>7, <2>9, <2>10, <2>11 DEF Ordered
  <2>12. ASSUME NEW r \in Requests, NEW q \in Requests, Busy(r)', Queued(q)', r # q
         PROVE  turn'[r].sequence < turn'[q].sequence
    BY <2>5, <2>6, <2>7, <2>9, <2>12 DEF Ordered
  <2>13. \A r \in Requests : Absent(r)' => ~Busy(r)'
    BY <2>6, <2>7 DEF Ordered
  <2> QED
    BY <2>8, <2>11, <2>12, <2>13 DEF Ordered
<1>4. (\A r \in Requests : SamePlace(r)) \/ \E r \in Requests : Enqueue(r, FALSE)
  BY PlacesKept DEF Adds
<1> QED
  BY <1>1, <1>2, <1>3, <1>4, AllStay

LEMMA OrderedInvariant ==
    ASSUME OrderlyUse, "steer" \notin Ops
    PROVE  Spec => [](TurnInv /\ Ordered)
<1>1. Init => Ordered
  BY DEF Init, TurnInit, RunInit, NoTurn, NoRun, Ordered, Queued, Absent, Busy, ActiveTurn, ActiveRun,
         ActiveQueueStatuses, ActiveRunStatuses
<1>2. TurnInv /\ Ordered /\ [Next]_vars => Ordered'
  BY OrderedStep
<1> QED
  BY <1>1, <1>2, TurnInvInitially, TurnInvPreserved, PTL DEF Spec

\* FIFO.  A turn that recovery puts back into the queue, or whose submission
\* failed, is claimed again before every turn that came after it.
THEOREM NobodyOvertakes ==
    ASSUME OrderlyUse, "steer" \notin Ops
    PROVE  Spec => []NoOvertaking
<1>1. TurnInv /\ Ordered => NoOvertaking
  <2> SUFFICES ASSUME Ordered, NEW r \in Active, NEW q \in InStatus({"queued"})
               PROVE  turn[r].sequence < turn[q].sequence
    BY DEF NoOvertaking
  <2>1. r \in Requests /\ Busy(r) /\ q \in Requests /\ Queued(q) /\ r # q
    BY DEF Active, InStatus, Busy, ActiveTurn, Queued, ActiveQueueStatuses
  <2> QED
    BY <2>1 DEF Ordered
<1> QED
  BY <1>1, OrderedInvariant, PTL
-----------------------------------------------------------------------------
(***************************************************************************)
(* Retries, in any use of the queue in which no turn waits for the user.   *)
(* RetryFailed looks for a live retry once, before it adds one; what it    *)
(* relies on is that a turn which has ended never comes back to life.      *)
(***************************************************************************)

\* No turn waits for the user, and nothing is left that would make one wait: no
\* message to replay, no outcome to report, no frame for recovery to believe.
NothingAsked ==
    /\ \A r \in Requests : turn[r].status \notin PausedQueueStatuses /\ run[r].msg \notin PausedQueueStatuses
    /\ \A w \in Workers : worker[w].out \notin PausedQueueStatuses
    /\ frames \in [Keys -> Seq(FrameKinds \ PausedQueueStatuses)]

Live(r) == turn[r].status \in QueueableStatuses

\* What every step does to every row but one that is added.
LivesOn(r) == /\ turn'[r].parent = turn[r].parent
              /\ Live(r)' => Live(r)
              /\ turn'[r].status \notin PausedQueueStatuses

AddsRow == \/ \E r \in Requests, steer \in BOOLEAN : Enqueue(r, steer)
           \/ \E failed, r \in Requests : RetryFailed(failed, r)

NoMessageAsks == \A r \in Requests : run[r].msg \notin PausedQueueStatuses

LEMMA RowsLiveOn ==
    ASSUME NEW row \in TurnRows, row.status \notin PausedQueueStatuses,
           NEW new,
           \/ new \in {row, CancelRequestedTurn(row), ClearedTurn(row)}
           \/ row.status \in {"running", "cancelling"} /\ new = Requeued(row)
           \/ \E status : status \notin PausedQueueStatuses /\ new = FinishedTurn(row, status)
    PROVE  /\ new.parent = row.parent
           /\ new.status \in QueueableStatuses => row.status \in QueueableStatuses
           /\ new.status \notin PausedQueueStatuses
<1> USE DEF TurnRows, QueueableStatuses, ActiveQueueStatuses, PausedQueueStatuses, TerminalQueueStatuses
<1>1. CASE new \in {row, CancelRequestedTurn(row), ClearedTurn(row)}
  BY <1>1 DEF CancelRequestedTurn, ClearedTurn, CancelledTurn
<1>2. CASE row.status \in {"running", "cancelling"} /\ new = Requeued(row)
  BY <1>2 DEF Requeued
<1>3. ASSUME NEW status, status \notin PausedQueueStatuses, new = FinishedTurn(row, status)
      PROVE  /\ new.parent = row.parent /\ new.status \notin QueueableStatuses
             /\ new.status \notin PausedQueueStatuses
  BY <1>3 DEF FinishedTurn, FinishStatus
<1> QED
  BY <1>1, <1>2, <1>3

LEMMA MessagesAskNothing ==
    ASSUME NEW row \in RunRows, row.msg \notin PausedQueueStatuses, NEW status, NEW pending
    PROVE  /\ ClosedMessage(row.msg, status) \notin PausedQueueStatuses
           /\ \A new \in {CreatedRun(row), Checkpointed(row, status, pending), FinishedRun(row, status),
                          FinishedForRequest(row, status), CancelRequested(row), CancellationFinished(row),
                          QuestionClaimed(row), ApprovalResolved(row, status)} :
                 new.msg \notin PausedQueueStatuses
<1> USE DEF RunRows
<1>1. ClosedMessage(row.msg, status) \notin PausedQueueStatuses
  BY DEF ClosedMessage, PausedQueueStatuses
<1>2. CreatedRun(row).msg = row.msg
  BY DEF CreatedRun, NoRun
<1>3. Checkpointed(row, status, pending).msg = row.msg
  BY DEF Checkpointed
<1>4. FinishedRun(row, status).msg = row.msg
  BY DEF FinishedRun
<1>5. FinishedForRequest(row, status).msg = ClosedMessage(row.msg, status)
  BY DEF FinishedForRequest, FinishedRun
<1>6. CancelRequested(row).msg = row.msg /\ QuestionClaimed(row).msg = row.msg
  BY DEF CancelRequested, QuestionClaimed
<1>7. CancellationFinished(row).msg = row.msg
  BY DEF CancellationFinished, FinishedRun
<1>8. ApprovalResolved(row, status).msg = row.msg
  BY DEF ApprovalResolved
<1> QED
  BY <1>1, <1>2, <1>3, <1>4, <1>5, <1>6, <1>7, <1>8

LEMMA RowsUntouchedLiveOn ==
    ASSUME NothingAsked, UNCHANGED turn
    PROVE  \A r \in Requests : LivesOn(r)
BY DEF NothingAsked, LivesOn, Live

LEMMA RecoveryAsksNothing ==
    ASSUME StoreTypeOK, NothingAsked, NEW closing, RecoverTerminalRuns(closing) \/ RecoverClaims(closing)
    PROVE  /\ \A r \in Requests : LivesOn(r)
           /\ NoMessageAsks'
           /\ frames' \in [Keys -> Seq(FrameKinds \ PausedQueueStatuses)]
<1>0. run \in [Requests -> RunRows] /\ turn \in [Requests -> TurnRows]
  BY DEF StoreTypeOK, RunTypeOK, TurnTypeOK
<1>1. \A status : <<CloseFrame(status)>> \in Seq(FrameKinds \ PausedQueueStatuses)
  BY DEF CloseFrame, FrameKinds, DoneStatuses, PausedQueueStatuses
<1>2. frames' \in [Keys -> Seq(FrameKinds \ PausedQueueStatuses)]
  <2>1. CASE RecoverTerminalRuns(closing)
    BY <1>1, <2>1 DEF RecoverTerminalRuns, NothingAsked
  <2>2. CASE RecoverClaims(closing)
    BY <1>1, <2>2 DEF RecoverClaims, NothingAsked
  <2> QED
    BY <2>1, <2>2
<1>3. ASSUME NEW r \in Requests, NEW status, NEW new \in RunRows, NEW lease, new.msg \notin PausedQueueStatuses
      PROVE  /\ [new EXCEPT !.msg = ClosedMessage(@, status)].msg \notin PausedQueueStatuses
             /\ [new EXCEPT !.lease = lease, !.msg = ClosedMessage(@, status)].msg \notin PausedQueueStatuses
             /\ [new EXCEPT !.lease = lease, !.msg = @].msg \notin PausedQueueStatuses
  BY <1>3, MessagesAskNothing DEF RunRows
<1>4. CASE RecoverTerminalRuns(closing)
  <2>1. ASSUME NEW r \in Requests
        PROVE  OrphanOutcome(r) \notin PausedQueueStatuses /\ OrphanOutcome(r) \in RunStatuses
    <3>1. HasTerminalFrame(r) => LastFrame(r) \in FrameKinds \ PausedQueueStatuses
      BY DEF NothingAsked, HasTerminalFrame, LastFrame, Keys
    <3> QED
      BY <3>1, OrphanOutcomeType DEF OrphanOutcome, PausedQueueStatuses
  <2>2. ASSUME NEW r \in Requests
        PROVE  ReconciledRun(r, closing).msg \notin PausedQueueStatuses
    <3>1. FinishedRun(run[r], OrphanOutcome(r)) \in RunRows
      BY <1>0, <2>1, RunRowTypes DEF PendingDecisions
    <3>2. FinishedRun(run[r], OrphanOutcome(r)).msg \notin PausedQueueStatuses
      BY <1>0, MessagesAskNothing DEF NothingAsked
    <3> QED
      BY <1>3, <3>1, <3>2 DEF ReconciledRun
  <2>3. ASSUME NEW r \in Requests
        PROVE  TurnOutcome(OrphanOutcome(r)) \notin PausedQueueStatuses
    BY <2>1 DEF TurnOutcome, PausedQueueStatuses
  <2>4. \A r \in Requests : turn'[r] = turn[r] \/ turn'[r] = FinishedTurn(turn[r], TurnOutcome(OrphanOutcome(r)))
    BY <1>4 DEF RecoverTerminalRuns
  <2>5. \A r \in Requests : LivesOn(r)
    BY <1>0, <2>3, <2>4, RowsLiveOn DEF LivesOn, Live, NothingAsked
  <2>6. NoMessageAsks'
    BY <1>4, <2>2 DEF RecoverTerminalRuns, NoMessageAsks, NothingAsked
  <2> QED
    BY <1>2, <2>5, <2>6
<1>5. CASE RecoverClaims(closing)
  <2>1. ASSUME NEW r \in Requests
        PROVE  LivesOn(r)
    <3>1. turn'[r] = turn[r] \/ (r \in StaleClaims /\ turn'[r] = RecoveredTurn(r))
      BY <1>5 DEF RecoverClaims
    <3>2. CASE r \in StaleClaims /\ turn'[r] = RecoveredTurn(r)
      <4>1. turn[r].status \in {"running", "cancelling"}
        BY <3>2 DEF StaleClaims, InStatus
      <4>2. \/ turn'[r] = Requeued(turn[r])
            \/ \E status \in {"failed", "completed", "cancelled"} : turn'[r] = FinishedTurn(turn[r], status)
        BY <3>2 DEF RecoveredTurn
      <4> QED
        BY <1>0, <4>1, <4>2, RowsLiveOn DEF LivesOn, Live, NothingAsked, PausedQueueStatuses
    <3> QED
      BY <1>0, <3>1, <3>2, RowsLiveOn DEF LivesOn, Live, NothingAsked
  <2>2. NoMessageAsks'
    BY <1>0, <1>3, <1>5 DEF RecoverClaims, NoMessageAsks, NothingAsked
  <2> QED
    BY <1>2, <2>1, <2>2
<1> QED
  BY <1>4, <1>5

LEMMA HandlersAskNothing ==
    ASSUME StoreTypeOK, NothingAsked, NEW c \in Clients, ApiStep(c) \/ ApiFinishes(c)
    PROVE  /\ (\A r \in Requests : LivesOn(r)) \/ AddsRow
           /\ NoMessageAsks'
           /\ frames' \in [Keys -> Seq(FrameKinds \ PausedQueueStatuses)]
<1>0. run \in [Requests -> RunRows] /\ turn \in [Requests -> TurnRows]
  BY DEF StoreTypeOK, RunTypeOK, TurnTypeOK
<1> DEFINE Quiet == NoMessageAsks' /\ frames' \in [Keys -> Seq(FrameKinds \ PausedQueueStatuses)]
<1> DEFINE LiveOn == \A r \in Requests : LivesOn(r)
<1>1. UNCHANGED <<run, frames>> => Quiet
  BY DEF NoMessageAsks, NothingAsked
<1>2. UNCHANGED turn => LiveOn
  BY RowsUntouchedLiveOn
<1>3. CancelRuns /\ UNCHANGED frames => Quiet
  BY <1>0, MessagesAskNothing DEF CancelRuns, NoMessageAsks, NothingAsked
<1>4. ASSUME \/ \E k : CancelTurn(k)
             \/ turn' = [r \in Requests |-> ClearedTurn(turn[r])]
      PROVE  LiveOn
  <2>1. \A r \in Requests : turn'[r] \in {turn[r], CancelRequestedTurn(turn[r]), ClearedTurn(turn[r])}
    BY <1>0, <1>4 DEF CancelTurn
  <2> QED
    BY <1>0, <2>1, RowsLiveOn DEF LivesOn, Live, NothingAsked
<1>5. ASSUME NEW job, Continue(job)
      PROVE  UNCHANGED turn
  BY <1>5 DEF Continue, FirstPaused, InStatus, NothingAsked
<1>6. ASSUME NEW r \in Requests, Promote(r)
      PROVE  LiveOn /\ Quiet
  <2>1. \A q \in Requests : turn'[q].status = turn[q].status /\ turn'[q].parent = turn[q].parent
    BY <1>0, <1>6 DEF Promote, TurnRows
  <2> QED
    BY <1>1, <1>6, <2>1 DEF LivesOn, Live, NothingAsked, Promote
<1>7. ASSUME NEW closing, RecoverTerminalRuns(closing) \/ RecoverClaims(closing)
      PROVE  LiveOn /\ Quiet
  BY <1>7, RecoveryAsksNothing
<1>8. ASSUME NEW r \in Requests, NEW row \in RunRows, run' = [run EXCEPT ![r] = row],
             row.msg \notin PausedQueueStatuses, UNCHANGED frames
      PROVE  Quiet
  BY <1>0, <1>8 DEF NoMessageAsks, NothingAsked
<1> SUFFICES (LiveOn \/ AddsRow) /\ Quiet
  OBVIOUS
<1> HIDE DEF Quiet, LiveOn
<1>9. CASE ApiStep(c)
  <2>1. ASSUME NEW r \in Requests, EnqueueTurn(r) \/ EnqueueSteered(c, r)
        PROVE  AddsRow /\ Quiet
    BY <1>1, <2>1 DEF EnqueueTurn, EnqueueSteered, Enqueue, AddsRow
  <2>2. ASSUME NEW r \in Requests, NEW failed \in Requests, RetryTurn(c, failed, r)
        PROVE  AddsRow /\ Quiet
    BY <1>1, <2>2 DEF RetryTurn, RetryFailed, AddsRow
  <2>3. ASSUME NEW r \in Requests, SteerTurn(c, r)
        PROVE  LiveOn /\ Quiet
    BY <1>6, <2>3 DEF SteerTurn
  <2>4. ASSUME NEW r \in Requests, RunNow(c, r)
        PROVE  LiveOn /\ Quiet
    BY <1>1, <1>2, <2>4 DEF RunNow, StoreVars
  <2>5. ASSUME NEW r \in Requests, CancelRequest(c, r) \/ CancelQueued(c, r)
        PROVE  LiveOn /\ Quiet
    BY <1>1, <1>2, <1>3, <1>4, <2>5 DEF CancelRequest, CancelQueued
  <2>6. ASSUME NEW r \in Requests, Answer(c, r) \/ Decide(c, r) \/ Approve(c, r)
        PROVE  LiveOn /\ Quiet
    <3>1. UNCHANGED turn /\ UNCHANGED frames
      BY <1>5, <2>6 DEF Answer, Decide, Approve
    <3>2. \/ UNCHANGED run
          \/ run' = [run EXCEPT ![r] = QuestionClaimed(run[r])]
          \/ \E decision \in {"approved", "denied"} : run' = [run EXCEPT ![r] = ApprovalResolved(run[r], decision)]
      BY <1>0, <2>6 DEF Answer, Decide, Approve
    <3>3. run[r] \in RunRows /\ run[r].msg \notin PausedQueueStatuses /\ QuestionClaimed(run[r]) \in RunRows
      BY <1>0, RunRowTypes DEF NothingAsked, RunStatuses, PendingDecisions
    <3>4. \A decision \in {"approved", "denied"} : ApprovalResolved(run[r], decision) \in RunRows
      BY <3>3 DEF ApprovalResolved, RunRows, RunStatuses, ActiveRunStatuses, PendingDecisions
    <3> QED
      BY <1>1, <1>2, <1>8, <3>1, <3>2, <3>3, <3>4, MessagesAskNothing
  <2>7. CASE PauseQueue(c) \/ ResumeQueue(c)
    BY <1>1, <1>2, <2>7 DEF PauseQueue, Pause, ResumeQueue, Resume
  <2>8. CASE ClearQueue(c)
    BY <1>1, <1>2, <1>4, <2>8 DEF ClearQueue, StoreVars
  <2>9. CASE ListQueue(c)
    BY <1>7, <2>9 DEF ListQueue
  <2> QED
    BY <1>9, <2>1, <2>2, <2>3, <2>4, <2>5, <2>6, <2>7, <2>8, <2>9 DEF ApiStep
<1>10. CASE ApiFinishes(c)
  <2>1. CASE SteerWake(c) \/ RetryWake(c) \/ PauseMarks(c) \/ ListResume(c) \/ CancelSignal(c) \/ QueuedSignal(c)
    <3>1. UNCHANGED <<run, frames, turn>>
      BY <2>1 DEF SteerWake, Resume, RetryWake, ResumeAfterFailure, PauseMarks, ListResume, CancelSignal,
                  QueuedSignal, Signal, StoreVars
    <3> QED
      BY <1>1, <1>2, <3>1
  <2>2. CASE PauseRuns(c)
    BY <1>2, <1>3, <2>2 DEF PauseRuns
  <2>3. CASE PauseTurn(c) \/ CancelRequestTurn(c)
    BY <1>1, <1>4, <2>3 DEF PauseTurn, CancelRequestTurn
  <2>4. CASE ClearRows(c)
    BY <1>3, <1>4, <2>4 DEF ClearRows
  <2>5. CASE ListClaims(c)
    BY <1>7, <2>5 DEF ListClaims
  <2>6. ASSUME NEW r \in Requests, RunNowSubmits(c, r)
        PROVE  (LiveOn \/ AddsRow) /\ Quiet
    <3>1. Enqueue(r, FALSE) \/ UNCHANGED <<run, frames, turn>>
      BY <2>6 DEF RunNowSubmits, StoreVars
    <3> QED
      BY <1>1, <1>2, <3>1 DEF Enqueue, AddsRow
  <2> QED
    BY <1>10, <2>1, <2>2, <2>3, <2>4, <2>5, <2>6 DEF ApiFinishes
<1> QED
  BY <1>9, <1>10

LEMMA WorkersAskNothing ==
    ASSUME MaxFrames = 0, StoreTypeOK, WorkerOK, NothingAsked, NEW w \in Workers, WorkerActs(w)
    PROVE  NothingAsked' /\ \A r \in Requests : LivesOn(r)
<1>0. /\ run \in [Requests -> RunRows] /\ turn \in [Requests -> TurnRows] /\ worker[w].pc # "idle"
      /\ Key(w) \in Keys /\ Target(w) \in Requests /\ worker[w].out \notin PausedQueueStatuses
      /\ \A r \in Requests : run[r].msg \notin PausedQueueStatuses
  <2>1. worker[w].pc # "idle"
    BY DEF WorkerActs, WorkStep, WorkAborts, WorkEmitFails, WorkCheck, WorkEarlyRuns, WorkEarlyTurn, WorkStart,
         WorkCreate, WorkRevive, WorkApply, WorkHeartbeat, WorkRound, WorkSeesCancel, WorkDeadline, WorkFails,
         WorkAnswers, WorkFinalCheck, WorkSave, WorkEmit, WorkFinalRun, WorkFinalTurn
  <2> QED
    BY <2>1, JobTypes DEF StoreTypeOK, RunTypeOK, TurnTypeOK, NothingAsked
<1> DEFINE Turns == \A r \in Requests : LivesOn(r)
<1> DEFINE Streams == frames' \in [Keys -> Seq(FrameKinds \ PausedQueueStatuses)]
<1> DEFINE Outs == \A v \in Workers : worker'[v].out \notin PausedQueueStatuses
<1>1. UNCHANGED turn => Turns
  BY RowsUntouchedLiveOn
<1>2. ASSUME NEW status, status \notin PausedQueueStatuses, FinishTurnOf(Key(w), status)
      PROVE  Turns
  <2>1. \A r \in Requests : turn'[r] \in {turn[r], FinishedTurn(turn[r], status)}
    BY <1>0, <1>2 DEF FinishTurnOf
  <2> QED
    BY <1>0, <1>2, <2>1, RowsLiveOn DEF LivesOn, Live, NothingAsked
<1>3. UNCHANGED frames => Streams
  BY DEF NothingAsked
<1>4. ASSUME NEW frame \in FrameKinds, frame \notin PausedQueueStatuses,
             frames' = [frames EXCEPT ![Key(w)] = Append(@, frame)]
      PROVE  Streams
  <2>1. frame \in FrameKinds \ PausedQueueStatuses
    BY <1>4
  <2>2. Append(frames[Key(w)], frame) \in Seq(FrameKinds \ PausedQueueStatuses)
    BY <1>0, <2>1 DEF NothingAsked
  <2> QED
    BY <1>4, <2>2 DEF NothingAsked
<1>5. UNCHANGED worker => Outs
  BY DEF NothingAsked
<1>6. ASSUME NEW pc, \/ Goto(w, pc)
                     \/ \E out : out \notin PausedQueueStatuses /\ GotoWith(w, pc, out)
                     \/ \E x : GotoRelabelled(w, pc, x)
      PROVE  Outs
  BY <1>6 DEF Goto, GotoWith, GotoRelabelled, NothingAsked, WorkerOK
<1>7. UNCHANGED run => NoMessageAsks'
  BY <1>0 DEF NoMessageAsks
<1>8. ASSUME NEW k, NEW row, run' = [run EXCEPT ![k] = row],
             k \in Requests => row.msg \notin PausedQueueStatuses
      PROVE  NoMessageAsks'
  BY <1>0, <1>8 DEF NoMessageAsks
<1>9. ASSUME Turns, Streams, Outs, NoMessageAsks'
      PROVE  NothingAsked' /\ \A r \in Requests : LivesOn(r)
  BY <1>9 DEF NothingAsked, LivesOn, NoMessageAsks
<1>10. {"cancelled", "error", "blocked", "ready"} \cap PausedQueueStatuses = {}
  BY DEF PausedQueueStatuses
<1>11. \A row \in RunRows : \A msg : [row EXCEPT !.msg = msg].msg = msg
  BY DEF RunRows
<1>12. \A row \in RunRows : \A msg, lease : [row EXCEPT !.lease = lease, !.msg = msg].msg = msg
  BY DEF RunRows
<1>13. \A row \in RunRows : \A age, lease : /\ [row EXCEPT !.lease = lease].msg = row.msg
                                            /\ [row EXCEPT !.beat = age].msg = row.msg
  BY DEF RunRows
<1>14. \A r \in Requests : run[r] \in RunRows
  BY <1>0
<1>15. ASSUME NEW row \in RunRows
       PROVE  /\ \A status \in RunStatuses : FinishedRun(row, status) \in RunRows
              /\ \A status \in RunStatuses, pending \in PendingDecisions : Checkpointed(row, status, pending) \in RunRows
  <2>1. "none" \in PendingDecisions
    BY DEF PendingDecisions
  <2> QED
    BY <2>1, RunRowTypes
<1>16. {"running", "cancelled", "failed", "blocked"} \subseteq RunStatuses /\ "none" \in PendingDecisions
  BY DEF RunStatuses, ActiveRunStatuses, PendingDecisions
<1> HIDE DEF Turns, Streams, Outs
<1>20. CASE WorkCheck(w)
  <2>1. Outs
    BY <1>6, <1>10, <1>20 DEF WorkCheck
  <2>2. Streams
    <3>1. UNCHANGED frames \/ frames' = [frames EXCEPT ![Key(w)] = Append(@, "cancelled")]
      BY <1>20 DEF WorkCheck
    <3> QED
      BY <1>3, <1>4, <1>10, <3>1 DEF FrameKinds, DoneStatuses
  <2> QED
    BY <1>1, <1>7, <1>9, <1>20, <2>1, <2>2 DEF WorkCheck
<1>21. CASE WorkEarlyRuns(w)
  <2>1. NoMessageAsks'
    BY <1>0, <1>14, <1>21, MessagesAskNothing DEF WorkEarlyRuns, NoMessageAsks
  <2> QED
    BY <1>1, <1>3, <1>6, <1>9, <1>21, <2>1 DEF WorkEarlyRuns
<1>22. CASE WorkEarlyTurn(w)
  BY <1>2, <1>3, <1>6, <1>7, <1>9, <1>10, <1>22 DEF WorkEarlyTurn
<1>23. CASE WorkStart(w)
  <2>0. UNCHANGED <<frames, turn>>
    BY <1>23 DEF WorkStart
  <2>1. CASE worker[w].job.kind = "turn" /\ StartFirst(w)
    <3>1. NoMessageAsks'
      <4>1. Key(w) \in Requests => [run[Key(w)] EXCEPT !.msg = "streaming"].msg = "streaming"
        BY <1>11, <1>14
      <4>2. UNCHANGED run \/ run' = [run EXCEPT ![Key(w)] = [run[Key(w)] EXCEPT !.msg = "streaming"]]
        BY <1>0, <2>1 DEF StartFirst
      <4>3. "streaming" \notin PausedQueueStatuses
        BY DEF PausedQueueStatuses
      <4> QED
        BY <1>7, <1>8, <4>1, <4>2, <4>3
    <3>2. Outs
      <4>1. run[Key(w)].msg \notin PausedQueueStatuses
        BY <1>0, <2>1 DEF WorkerOK, WorkerCarries, Jobs, Key
      <4> QED
        <5>1. \/ Goto(w, "create")
              \/ GotoWith(w, "emit", IF run[Key(w)].msg \in DoneStatuses THEN run[Key(w)].msg ELSE "error")
          BY <2>1 DEF StartFirst
        <5> QED
          BY <1>6, <1>10, <4>1, <5>1
    <3> QED
      BY <1>1, <1>3, <1>9, <2>0, <3>1, <3>2
  <2>2. CASE StartRetry(w)
    <3>1. \/ GotoWith(w, "emit", "error") /\ UNCHANGED run
          \/ \E x \in Requests : \E pc :
                /\ run' = [run EXCEPT ![x] = NoRun, ![Key(w)] = [run[x] EXCEPT !.msg = "streaming"]]
                /\ GotoRelabelled(w, pc, x)
      BY <2>2 DEF StartRetry, SavedMessage
    <3>2. Outs
      BY <1>6, <1>10, <3>1
    <3>3. NoMessageAsks'
      <4>1. ASSUME NEW x \in Requests, run' = [run EXCEPT ![x] = NoRun, ![Key(w)] = [run[x] EXCEPT !.msg = "streaming"]]
            PROVE  NoMessageAsks'
        <5>1. [run[x] EXCEPT !.msg = "streaming"].msg \notin PausedQueueStatuses /\ NoRun.msg \notin PausedQueueStatuses
          BY <1>11, <1>14 DEF PausedQueueStatuses, NoRun
        <5> QED
          BY <1>0, <4>1, <5>1 DEF NoMessageAsks
      <4> QED
        BY <1>7, <3>1, <4>1
    <3> QED
      BY <1>1, <1>3, <1>9, <2>0, <3>2, <3>3
  <2>3. CASE StartAnswer(w) \/ StartApproval(w)
    <3>1. \/ UNCHANGED run
          \/ \E pending : run' = [run EXCEPT ![Target(w)] = Checkpointed(run[Target(w)], "running", pending)]
      BY <1>0, <2>3 DEF StartAnswer, StartApproval
    <3>2. NoMessageAsks'
      BY <1>0, <1>7, <1>8, <1>14, <3>1, MessagesAskNothing
    <3>3. Outs
      BY <1>6, <1>10, <2>3 DEF StartAnswer, StartApproval
    <3> QED
      BY <1>1, <1>3, <1>9, <2>0, <3>2, <3>3
  <2> QED
    BY <1>23, <2>1, <2>2, <2>3 DEF WorkStart, StartTurn
<1>24. CASE WorkCreate(w) \/ WorkRevive(w) \/ WorkApply(w)
  <2>1. UNCHANGED <<frames, turn>> /\ Outs
    BY <1>6, <1>24 DEF WorkCreate, WorkRevive, WorkApply
  <2>2. NoMessageAsks'
    <3>1. CASE WorkCreate(w)
      BY <1>0, <1>8, <1>14, <3>1, MessagesAskNothing DEF WorkCreate
    <3>2. CASE WorkRevive(w)
      <4>1. Key(w) \in Requests => [Checkpointed(run[Key(w)], "running", "none") EXCEPT !.lease = FALSE].msg \notin PausedQueueStatuses
        BY <1>0, <1>13, <1>14, <1>15, <1>16, MessagesAskNothing
      <4> QED
        BY <1>0, <1>8, <3>2, <4>1 DEF WorkRevive
    <3>3. CASE WorkApply(w)
      BY <1>0, <1>8, <1>14, <3>3, MessagesAskNothing DEF WorkApply
    <3> QED
      BY <1>24, <3>1, <3>2, <3>3
  <2> QED
    BY <1>1, <1>3, <1>9, <2>1, <2>2
<1>25. CASE WorkHeartbeat(w) \/ WorkRound(w)
  <2>1. UNCHANGED <<frames, turn, worker>>
    BY <1>25 DEF WorkHeartbeat, WorkRound
  <2>2. NoMessageAsks'
    <3>1. CASE WorkHeartbeat(w)
      <4>1. Target(w) \in Requests => [run[Target(w)] EXCEPT !.beat = "fresh"].msg \notin PausedQueueStatuses
        BY <1>0, <1>13, <1>14 DEF NoMessageAsks
      <4> QED
        BY <1>8, <3>1, <4>1 DEF WorkHeartbeat
    <3>2. CASE WorkRound(w)
      BY <1>0, <1>8, <1>14, <3>2, MessagesAskNothing DEF WorkRound
    <3> QED
      BY <1>25, <3>1, <3>2
  <2> QED
    BY <1>1, <1>3, <1>5, <1>9, <2>1, <2>2
<1>26. CASE WorkSeesCancel(w) \/ WorkDeadline(w) \/ WorkFails(w)
  <2>1. UNCHANGED <<frames, turn>> /\ Outs
    BY <1>6, <1>10, <1>26 DEF WorkSeesCancel, WorkDeadline, WorkFails
  <2>2. NoMessageAsks'
    <3>1. ASSUME NEW status \in RunStatuses
          PROVE  /\ [FinishedRun(run[Target(w)], status) EXCEPT !.lease = FALSE].msg \notin PausedQueueStatuses
                 /\ [FinishedRun(run[Target(w)], status) EXCEPT !.lease = FALSE, !.msg = "error"].msg = "error"
                 /\ [FinishedRun(Checkpointed(run[Target(w)], "blocked", "none"), "blocked")
                        EXCEPT !.lease = FALSE].msg \notin PausedQueueStatuses
      <4>1. FinishedRun(run[Target(w)], status) \in RunRows /\ Checkpointed(run[Target(w)], "blocked", "none") \in RunRows
        BY <1>0, <1>14, <1>15, <1>16
      <4>2. FinishedRun(Checkpointed(run[Target(w)], "blocked", "none"), "blocked") \in RunRows
        BY <1>15, <1>16, <4>1
      <4>3. Checkpointed(run[Target(w)], "blocked", "none").msg \notin PausedQueueStatuses
        BY <1>0, <1>14, MessagesAskNothing
      <4>4. /\ FinishedRun(run[Target(w)], status).msg \notin PausedQueueStatuses
            /\ FinishedRun(Checkpointed(run[Target(w)], "blocked", "none"), "blocked").msg \notin PausedQueueStatuses
        BY <1>0, <1>14, <4>1, <4>3, MessagesAskNothing
      <4> QED
        BY <1>12, <1>13, <4>1, <4>2, <4>4
    <3>2. \/ run' = [run EXCEPT ![Target(w)] = [FinishedRun(run[Target(w)], "cancelled") EXCEPT !.lease = FALSE]]
          \/ run' = [run EXCEPT ![Target(w)] = [FinishedRun(run[Target(w)], "failed") EXCEPT !.lease = FALSE, !.msg = "error"]]
          \/ run' = [run EXCEPT ![Target(w)] =
                       [FinishedRun(Checkpointed(run[Target(w)], "blocked", "none"), "blocked") EXCEPT !.lease = FALSE]]
      BY <1>0, <1>26 DEF WorkSeesCancel, WorkDeadline, WorkFails
    <3> QED
      BY <1>8, <1>10, <1>16, <3>1, <3>2
  <2> QED
    BY <1>1, <1>3, <1>9, <2>1, <2>2
<1>27. CASE WorkAnswers(w) \/ WorkAborts(w)
  <2>1. UNCHANGED <<run, frames, turn>>
    BY <1>27 DEF WorkAnswers, WorkAborts, StoreVars
  <2>2. Outs
    <3>1. CASE WorkAnswers(w)
      <4>1. ~(Len(frames[Key(w)]) < MaxFrames)
        BY <1>0 DEF NothingAsked
      <4> QED
        BY <1>6, <1>10, <3>1, <4>1 DEF WorkAnswers
    <3>2. CASE WorkAborts(w)
      BY <1>6, <1>10, <3>2 DEF WorkAborts
    <3> QED
      BY <1>27, <3>1, <3>2
  <2> QED
    BY <1>1, <1>3, <1>7, <1>9, <2>1, <2>2
<1>28. CASE WorkFinalCheck(w) \/ WorkSave(w)
  <2>1. UNCHANGED <<frames, turn>> /\ Outs
    BY <1>6, <1>10, <1>28 DEF WorkFinalCheck, WorkSave
  <2>2. NoMessageAsks'
    <3>1. CASE WorkFinalCheck(w)
      <4>1. [run[Target(w)] EXCEPT !.msg = worker[w].out].msg = worker[w].out
        BY <1>0, <1>11, <1>14
      <4>2. UNCHANGED run \/ run' = [run EXCEPT ![Target(w)] = [run[Target(w)] EXCEPT !.msg = worker[w].out]]
        BY <1>0, <3>1 DEF WorkFinalCheck
      <4> QED
        BY <1>0, <1>7, <1>8, <4>1, <4>2
    <3>2. CASE WorkSave(w)
      <4>1. run' = [run EXCEPT ![Target(w)] = FinishedRun(run[Target(w)], worker[w].out)]
        BY <1>0, <3>2 DEF WorkSave, PausedQueueStatuses
      <4> QED
        BY <1>0, <1>8, <1>14, <4>1, MessagesAskNothing
    <3> QED
      BY <1>28, <3>1, <3>2
  <2> QED
    BY <1>1, <1>3, <1>9, <2>1, <2>2
<1>29. CASE WorkEmit(w) \/ WorkEmitFails(w)
  <2>1. UNCHANGED <<run, turn>> /\ Outs
    BY <1>6, <1>10, <1>29 DEF WorkEmit, WorkEmitFails
  <2>2. Streams
    <3>1. worker[w].pc = "emit" /\ worker[w].out \in FrameKinds /\ "error" \in FrameKinds
      BY <1>29 DEF WorkEmit, WorkEmitFails, WorkerOK, WorkerCarries, FrameKinds
    <3>2. \/ UNCHANGED frames
          \/ \E frame \in {worker[w].out, "error"} : frames' = [frames EXCEPT ![Key(w)] = Append(@, frame)]
      BY <1>29 DEF WorkEmit, WorkEmitFails
    <3> QED
      BY <1>0, <1>3, <1>4, <1>10, <3>1, <3>2
  <2> QED
    BY <1>1, <1>7, <1>9, <2>1, <2>2
<1>30. CASE WorkFinalRun(w)
  <2>1. NoMessageAsks'
    BY <1>0, <1>7, <1>8, <1>14, <1>30, MessagesAskNothing DEF WorkFinalRun
  <2> QED
    BY <1>1, <1>3, <1>6, <1>9, <1>30, <2>1 DEF WorkFinalRun
<1>31. CASE WorkFinalTurn(w)
  <2>1. TurnStatusOf(worker[w].out) \notin PausedQueueStatuses
    BY <1>0 DEF TurnStatusOf, PausedQueueStatuses
  <2> QED
    BY <1>2, <1>3, <1>6, <1>7, <1>9, <1>31, <2>1 DEF WorkFinalTurn
<1> QED
  BY <1>20, <1>21, <1>22, <1>23, <1>24, <1>25, <1>26, <1>27, <1>28, <1>29, <1>30, <1>31 DEF WorkerActs, WorkStep, WorkUnlock

LEMMA NothingAskedStep ==
    ASSUME MaxFrames = 0, TypeInv, NothingAsked, [Next]_vars
    PROVE  NothingAsked' /\ ((\A r \in Requests : LivesOn(r)) \/ AddsRow)
<1>0. /\ StoreTypeOK /\ WorkerOK /\ run \in [Requests -> RunRows] /\ turn \in [Requests -> TurnRows]
      /\ frames \in [Keys -> Seq(FrameKinds \ PausedQueueStatuses)]
  BY DEF TypeInv, TypeOK, StoreTypeOK, RunTypeOK, TurnTypeOK, WorkersTypeOK, WorkerOK, CarriesOK, NothingAsked
<1> DEFINE LiveOn == \A r \in Requests : LivesOn(r)
<1> DEFINE Outs == \A w \in Workers : worker'[w].out \notin PausedQueueStatuses
<1> DEFINE Streams == frames' \in [Keys -> Seq(FrameKinds \ PausedQueueStatuses)]
<1>1. UNCHANGED worker => Outs
  BY DEF NothingAsked
<1>2. /\ UNCHANGED turn => LiveOn
      /\ UNCHANGED run => NoMessageAsks'
      /\ UNCHANGED frames => Streams
  BY <1>0, RowsUntouchedLiveOn DEF NoMessageAsks, NothingAsked
<1>3. ASSUME LiveOn \/ AddsRow, NoMessageAsks', Streams, Outs
      PROVE  NothingAsked' /\ (LiveOn \/ AddsRow)
  <2>1. ASSUME NEW r \in Requests
        PROVE  turn'[r].status \notin PausedQueueStatuses
    <3>1. CASE LiveOn
      BY <3>1 DEF LivesOn
    <3>2. CASE AddsRow
      <4>1. PICK a \in Requests : \E priority, parent :
                   \E row \in NewTurn(priority, parent) : turn' = [turn EXCEPT ![a] = row]
        BY <3>2 DEF AddsRow, Enqueue, RetryFailed
      <4>2. PICK priority, parent : \E row \in NewTurn(priority, parent) : turn' = [turn EXCEPT ![a] = row]
        BY <4>1
      <4>3. PICK row \in NewTurn(priority, parent) : turn' = [turn EXCEPT ![a] = row]
        BY <4>2
      <4>4. row.status = "queued"
        BY NewTurnWaits
      <4> QED
        BY <1>0, <4>3, <4>4 DEF NothingAsked, PausedQueueStatuses
    <3> QED
      BY <1>3, <3>1, <3>2
  <2> QED
    BY <1>3, <2>1 DEF NothingAsked, NoMessageAsks
<1> SUFFICES NothingAsked' /\ (LiveOn \/ AddsRow)
  OBVIOUS
<1> HIDE DEF LiveOn, Outs, Streams
<1>4. ASSUME NEW c \in Clients, ApiStep(c) \/ ApiFinishes(c), UNCHANGED worker
      PROVE  NothingAsked' /\ (LiveOn \/ AddsRow)
  BY <1>0, <1>1, <1>3, <1>4, HandlersAskNothing DEF LiveOn, Streams
<1>5. ASSUME NEW closing, RecoverTerminalRuns(closing) \/ RecoverClaims(closing), UNCHANGED worker
      PROVE  NothingAsked' /\ (LiveOn \/ AddsRow)
  BY <1>0, <1>1, <1>3, <1>5, RecoveryAsksNothing DEF LiveOn, Streams
<1>6. ASSUME NEW d \in Dispatchers, DispStep(d), UNCHANGED worker
      PROVE  NothingAsked' /\ (LiveOn \/ AddsRow)
  <2>1. CASE DispTake(d) \/ DispResume(d) \/ DispFindsNothing(d) \/ DispSubmit(d)
    <3>1. UNCHANGED <<run, frames, turn>>
      BY <2>1 DEF DispTake, DispResume, DispFindsNothing, DispSubmit, ResumeAfterFailure, StoreVars
    <3> QED
      BY <1>1, <1>2, <1>3, <1>6, <3>1
  <2>2. CASE DispTerminalRuns(d) \/ DispClaims(d)
    BY <1>5, <1>6, <2>2 DEF DispTerminalRuns, DispClaims
  <2>3. CASE DispClaim(d)
    <3>1. PICK r \in Requests : Claim(r)
      BY <2>3 DEF DispClaim
    <3>2. /\ turn' = [turn EXCEPT ![r].status = "running", ![r].started = "fresh"] /\ turn[r].status = "queued"
          /\ UNCHANGED <<run, frames>>
      BY <3>1 DEF Claim, Claimable, FirstQueued
    <3>3. ASSUME NEW q \in Requests
          PROVE  LivesOn(q)
      <4>1. CASE q = r
        BY <1>0, <3>2, <4>1 DEF LivesOn, Live, TurnRows, QueueableStatuses, PausedQueueStatuses
      <4>2. CASE q # r
        BY <1>0, <3>2, <4>2 DEF LivesOn, Live, NothingAsked
      <4> QED
        BY <4>1, <4>2
    <3> QED
      BY <1>1, <1>2, <1>3, <1>6, <3>2, <3>3 DEF LiveOn
  <2>4. CASE DispRelease(d)
    <3>1. /\ UNCHANGED <<run, frames>>
          /\ turn' = [turn EXCEPT ![disp[d].key] = IF @.status = "running" THEN Requeued(@) ELSE @]
      BY <2>4 DEF DispRelease, ReleaseClaim
    <3>2. ASSUME NEW q \in Requests
          PROVE  LivesOn(q)
      <4>1. turn'[q] = turn[q] \/ (turn[q].status = "running" /\ turn'[q] = Requeued(turn[q]))
        BY <1>0, <3>1
      <4> QED
        BY <1>0, <4>1, RowsLiveOn DEF LivesOn, Live, NothingAsked
    <3> QED
      BY <1>1, <1>2, <1>3, <1>6, <3>1, <3>2 DEF LiveOn
  <2> QED
    BY <1>6, <2>1, <2>2, <2>3, <2>4 DEF DispStep
<1>7. ASSUME NEW w \in Workers, WorkerActs(w)
      PROVE  NothingAsked' /\ (LiveOn \/ AddsRow)
  BY <1>0, <1>7, WorkersAskNothing DEF LiveOn
<1>8. ASSUME UNCHANGED <<run, frames, turn>>,
             \A v \in Workers : worker'[v].out \in {worker[v].out, "none"}
      PROVE  NothingAsked' /\ (LiveOn \/ AddsRow)
  <2>1. Outs
    BY <1>8 DEF Outs, NothingAsked, PausedQueueStatuses
  <2> QED
    BY <1>2, <1>3, <1>8, <2>1
<1>9. ASSUME NEW w \in Workers, WorkUnlock(w)
      PROVE  NothingAsked' /\ (LiveOn \/ AddsRow)
  <2>1. UNCHANGED <<run, frames, turn>> /\ worker' = [worker EXCEPT ![w] = IdleWorker]
    BY <1>9 DEF WorkUnlock, StoreVars
  <2> QED
    BY <1>0, <1>8, <2>1 DEF WorkerOK, IdleWorker
<1>10. ASSUME NEW w \in Workers, NEW job \in jobs, NEW redelivered, WorkTake(w, job, redelivered)
       PROVE  NothingAsked' /\ (LiveOn \/ AddsRow)
  <2>1. UNCHANGED <<run, frames, turn>>
    BY <1>10 DEF WorkTake, StoreVars
  <2>2. \A v \in Workers : worker'[v].out \in {worker[v].out, "none"}
    BY <1>0, <1>10 DEF WorkTake, WorkerOK
  <2> QED
    BY <1>8, <2>1, <2>2
<1>11. ASSUME BeatStep, UNCHANGED worker
       PROVE  NothingAsked' /\ (LiveOn \/ AddsRow)
  <2>1. CASE BeatStarts \/ NoLeaseExpired \/ BeatFailurePause \/ BeatWake
    <3>1. UNCHANGED <<run, frames, turn>>
      BY <2>1 DEF BeatStarts, NoLeaseExpired, BeatFailurePause, BeatWake, ResumeAfterFailure, StoreVars
    <3> QED
      BY <1>8, <1>11, <3>1
  <2>2. CASE BeatTerminalRuns \/ BeatClaims
    BY <1>5, <1>11, <2>2 DEF BeatTerminalRuns, BeatClaims
  <2>3. CASE CloseExpired
    <3>1. UNCHANGED <<run, turn>>
      BY <2>3 DEF CloseExpired
    <3>2. Streams
      <4>1. \A status : <<CloseFrame(status)>> \in Seq(FrameKinds \ PausedQueueStatuses)
        BY DEF CloseFrame, FrameKinds, DoneStatuses, PausedQueueStatuses
      <4>2. \/ UNCHANGED frames
            \/ frames' = [frames EXCEPT ![beat.key] = <<CloseFrame(LeaseOutcome(beat.key))>>]
        BY <2>3 DEF CloseExpired
      <4> QED
        BY <1>0, <4>1, <4>2 DEF Streams
    <3> QED
      BY <1>1, <1>2, <1>3, <1>11, <3>1, <3>2
  <2>4. ASSUME NEW r \in Requests, ExpireLease(r)
        PROVE  NothingAsked' /\ (LiveOn \/ AddsRow)
    <3>1. UNCHANGED <<frames, turn>>
      BY <2>4 DEF ExpireLease
    <3>2. ASSUME NEW status \in {"failed", "cancelled"}
          PROVE  [FinishedRun(run[r], status) EXCEPT !.lease = TRUE, !.msg = ClosedMessage(@, status)].msg
                     \notin PausedQueueStatuses
      <4>1. FinishedRun(run[r], status) \in RunRows /\ FinishedRun(run[r], status).msg \notin PausedQueueStatuses
        BY <1>0, MessagesAskNothing, RunRowTypes DEF NothingAsked, RunStatuses, PendingDecisions
      <4>2. \A row \in RunRows : \A msg : [row EXCEPT !.lease = TRUE, !.msg = msg].msg = msg
        BY DEF RunRows
      <4>3. ClosedMessage(FinishedRun(run[r], status).msg, status) \notin PausedQueueStatuses
        BY <4>1, MessagesAskNothing
      <4>4. [FinishedRun(run[r], status) EXCEPT !.lease = TRUE, !.msg = ClosedMessage(@, status)]
             = [FinishedRun(run[r], status) EXCEPT !.lease = TRUE,
                                                   !.msg = ClosedMessage(FinishedRun(run[r], status).msg, status)]
        OBVIOUS
      <4> QED
        BY <4>1, <4>2, <4>3, <4>4
    <3>3. LeaseOutcome(r) \in {"failed", "cancelled"}
      BY DEF LeaseOutcome
    <3>4. NoMessageAsks'
      <4>1. run' = [run EXCEPT ![r] = [FinishedRun(run[r], LeaseOutcome(r)) EXCEPT
                                          !.lease = TRUE, !.msg = ClosedMessage(@, LeaseOutcome(r))]]
        BY <2>4 DEF ExpireLease
      <4>2. \A q \in Requests : run'[q] = run[q] \/ run'[q].msg \notin PausedQueueStatuses
        BY <1>0, <3>2, <3>3, <4>1
      <4> QED
        BY <4>2 DEF NoMessageAsks, NothingAsked
    <3> QED
      BY <1>1, <1>2, <1>3, <1>11, <3>1, <3>4
  <2> QED
    BY <1>11, <2>1, <2>2, <2>3, <2>4 DEF BeatStep
<1>12. ASSUME NEW r \in Requests, TurnAges(r) \/ EndAges(r) \/ LeaseAges(r), UNCHANGED worker
       PROVE  NothingAsked' /\ (LiveOn \/ AddsRow)
  <2>1. /\ \A q \in Requests : /\ turn'[q].status = turn[q].status /\ turn'[q].parent = turn[q].parent
                               /\ run'[q].msg = run[q].msg
        /\ UNCHANGED frames
    <3>1. /\ UNCHANGED frames
          /\ \/ UNCHANGED run /\ \E stamp : turn' = [turn EXCEPT ![r].started = stamp]
             \/ UNCHANGED run /\ \E stamp : turn' = [turn EXCEPT ![r].completed = stamp]
             \/ UNCHANGED turn /\ \E age : run' = [run EXCEPT ![r].beat = age]
      BY <1>12 DEF TurnAges, EndAges, LeaseAges
    <3>2. ASSUME NEW stamp, \/ turn' = [turn EXCEPT ![r].started = stamp]
                             \/ turn' = [turn EXCEPT ![r].completed = stamp]
          PROVE  \A q \in Requests : turn'[q].status = turn[q].status /\ turn'[q].parent = turn[q].parent
      <4>1. CASE turn' = [turn EXCEPT ![r].started = stamp]
        BY <1>0, <4>1 DEF TurnRows
      <4>2. CASE turn' = [turn EXCEPT ![r].completed = stamp]
        BY <1>0, <4>2 DEF TurnRows
      <4> QED
        BY <3>2, <4>1, <4>2
    <3>3. ASSUME NEW age, run' = [run EXCEPT ![r].beat = age]
          PROVE  \A q \in Requests : run'[q].msg = run[q].msg
      BY <1>0, <3>3 DEF RunRows
    <3> QED
      BY <3>1, <3>2, <3>3
  <2>2. LiveOn /\ NoMessageAsks'
    BY <2>1 DEF LiveOn, LivesOn, Live, NoMessageAsks, NothingAsked
  <2> QED
    BY <1>1, <1>2, <1>3, <1>12, <2>1, <2>2
<1>13. CASE Crash
  <2>1. UNCHANGED <<run, frames, turn>>
    BY <1>13 DEF Crash, StoreVars
  <2>2. \A v \in Workers : worker'[v].out \in {worker[v].out, "none"}
    BY <1>0, <1>13 DEF Crash, CrashWorker, CrashDispatcher, CrashClient, CrashBeat, WorkerOK, IdleWorker
  <2> QED
    BY <1>8, <2>1, <2>2
<1>14. CASE UNCHANGED <<run, frames, turn, worker>>
  BY <1>8, <1>14
<1> QED
  BY <1>4, <1>6, <1>7, <1>9, <1>10, <1>11, <1>12, <1>13, <1>14, NextCases

LEMMA RetriesStaySingle ==
    ASSUME turn \in [Requests -> TurnRows], OneLiveRetry, (\A r \in Requests : LivesOn(r)) \/ AddsRow
    PROVE  OneLiveRetry'
<1> DEFINE Rivals(c, d) == Live(c) /\ Live(d) /\ turn[c].parent = turn[d].parent /\ turn[c].parent # None
<1>0. OneLiveRetry <=> \A c, d \in Requests : Rivals(c, d) => c = d
  BY DEF OneLiveRetry, InStatus, Live
<1>1. (OneLiveRetry)' <=> \A c, d \in Requests : Rivals(c, d)' => c = d
  BY DEF OneLiveRetry, InStatus, Live
<1>2. CASE \A r \in Requests : LivesOn(r)
  BY <1>0, <1>1, <1>2 DEF LivesOn
<1>3. ASSUME NEW a \in Requests, NEW priority, NEW parent, NEW row \in NewTurn(priority, parent),
             turn' = [turn EXCEPT ![a] = row],
             parent # None => \A q \in Requests : turn[q].parent = parent => ~Live(q)
      PROVE  OneLiveRetry'
  <2>1. turn'[a].parent = parent /\ \A q \in Requests : q # a => turn'[q] = turn[q]
    BY <1>3, NewTurnWaits
  <2>2. ASSUME NEW q \in Requests, q # a
        PROVE  ~Rivals(a, q)' /\ ~Rivals(q, a)'
    BY <1>3, <2>1, <2>2 DEF Live
  <2>3. ASSUME NEW p \in Requests, NEW q \in Requests, p # a, q # a, Rivals(p, q)'
        PROVE  p = q
    BY <1>0, <2>1, <2>3 DEF Live
  <2> HIDE DEF Rivals
  <2> QED
    BY <1>1, <2>2, <2>3
<1>4. CASE AddsRow
  <2>1. ASSUME NEW r \in Requests, NEW steer \in BOOLEAN, Enqueue(r, steer)
        PROVE  OneLiveRetry'
    BY <1>3, <2>1 DEF Enqueue
  <2>2. ASSUME NEW failed \in Requests, NEW r \in Requests, RetryFailed(failed, r)
        PROVE  OneLiveRetry'
    <3>1. \A q \in Requests : turn[q].parent = failed => ~Live(q)
      BY <2>2 DEF RetryFailed, RetryPending, Live
    <3>2. PICK row \in NewTurn(turn[failed].priority + 1, failed) : turn' = [turn EXCEPT ![r] = row]
      BY <2>2 DEF RetryFailed
    <3> QED
      BY <1>3, <3>1, <3>2
  <2> QED
    BY <1>4, <2>1, <2>2 DEF AddsRow
<1> QED
  BY <1>2, <1>4

\* A failed turn has at most one retry pending or active, for any number of users
\* who press retry at once and whatever crashes, as long as no turn waits for the
\* user: a worker that reports a question writes awaiting_user without a look at
\* the row, so that with questions nothing says that an ended turn stays ended.
THEOREM RetriesAreSingle ==
    ASSUME MaxFrames = 0
    PROVE  Spec => []OneLiveRetry
<1>1. Init => NothingAsked /\ OneLiveRetry
  BY DEF Init, TurnInit, RunInit, WorkersInit, NoTurn, NoRun, IdleWorker, NothingAsked, OneLiveRetry,
         InStatus, QueueableStatuses, ActiveQueueStatuses, PausedQueueStatuses
<1>2. TypeInv /\ NothingAsked /\ OneLiveRetry /\ [Next]_vars => NothingAsked' /\ OneLiveRetry'
  BY NothingAskedStep, RetriesStaySingle DEF TypeInv, TypeOK, TurnTypeOK
<1> QED
  BY <1>1, <1>2, TypeInvariant, PTL DEF Spec
-----------------------------------------------------------------------------
(***************************************************************************)
(* Pausing.  pause_queue commits the pause, looks for the active turn, and *)
(* stops it in three more commits; the claim looks at the pause and at the *)
(* active turn in one.                                                     *)
(***************************************************************************)

\* The handler that has paused the queue, or will still look for the active turn.
Stopping(c, r) == \/ api[c].pc = "pause_marker"
                  \/ api[c].pc \in {"pause_runs", "pause_turn"} /\ api[c].key = r

Running(r) == turn[r].status = "running"

PauseInv == control = "user_pause" => \A r \in Requests : Running(r) => \E c \in Clients : Stopping(c, r)

StartsNothing == \A r \in Requests : Running(r)' => Running(r)

LEMMA RowsDoNotStart ==
    ASSUME NEW row \in TurnRows, NEW new,
           \/ new \in {row, CancelRequestedTurn(row), ClearedTurn(row), Requeued(row)}
           \/ \E status : new = FinishedTurn(row, status),
           new.status = "running"
    PROVE  row.status = "running"
<1> USE DEF TurnRows
<1>1. CASE new \in {row, CancelRequestedTurn(row), ClearedTurn(row)}
  BY <1>1 DEF CancelRequestedTurn, ClearedTurn, CancelledTurn
<1>2. CASE new = Requeued(row)
  BY <1>2 DEF Requeued
<1>3. ASSUME NEW status, new = FinishedTurn(row, status)
      PROVE  FALSE
  BY <1>3 DEF FinishedTurn, FinishStatus, TerminalQueueStatuses, PausedQueueStatuses
<1> QED
  BY <1>1, <1>2, <1>3

LEMMA RecoveryStartsNothing ==
    ASSUME turn \in [Requests -> TurnRows], NEW closing, RecoverTerminalRuns(closing) \/ RecoverClaims(closing)
    PROVE  StartsNothing
<1> SUFFICES ASSUME NEW r \in Requests, Running(r)'
             PROVE  Running(r)
  BY DEF StartsNothing
<1>1. turn'[r] \in {turn[r], Requeued(turn[r])} \/ \E status : turn'[r] = FinishedTurn(turn[r], status)
  BY DEF RecoverTerminalRuns, RecoverClaims, RecoveredTurn
<1> QED
  BY <1>1, RowsDoNotStart DEF Running

LEMMA HandlersStartNothing ==
    ASSUME turn \in [Requests -> TurnRows], NothingAsked, NEW c \in Clients, ApiStep(c) \/ ApiFinishes(c)
    PROVE  StartsNothing
<1>1. UNCHANGED turn => StartsNothing
  BY DEF StartsNothing, Running
<1>2. ASSUME \/ \E k : CancelTurn(k)
             \/ turn' = [r \in Requests |-> ClearedTurn(turn[r])]
      PROVE  StartsNothing
  <2>1. \A r \in Requests : turn'[r] \in {turn[r], CancelRequestedTurn(turn[r]), ClearedTurn(turn[r])}
    BY <1>2 DEF CancelTurn
  <2> QED
    BY <2>1, RowsDoNotStart DEF StartsNothing, Running
<1>3. ASSUME NEW job, Continue(job)
      PROVE  StartsNothing
  BY <1>1, <1>3 DEF Continue, FirstPaused, InStatus, NothingAsked
<1>4. ASSUME NEW r \in Requests, NEW priority, NEW parent, NEW row \in NewTurn(priority, parent),
             turn' = [turn EXCEPT ![r] = row]
      PROVE  StartsNothing
  <2>1. row.status = "queued"
    BY NewTurnWaits
  <2> QED
    BY <1>4, <2>1 DEF StartsNothing, Running
<1>5. ASSUME NEW r \in Requests, (\E steer : Enqueue(r, steer)) \/ \E failed : RetryFailed(failed, r)
      PROVE  StartsNothing
  BY <1>4, <1>5 DEF Enqueue, RetryFailed
<1>6. ASSUME NEW r \in Requests, Promote(r)
      PROVE  StartsNothing
  BY <1>6 DEF Promote, StartsNothing, Running, TurnRows
<1>7. ASSUME NEW closing, RecoverTerminalRuns(closing) \/ RecoverClaims(closing)
      PROVE  StartsNothing
  BY <1>7, RecoveryStartsNothing
<1> HIDE DEF StartsNothing
<1>8. CASE ApiStep(c)
  <2>1. ASSUME NEW r \in Requests, \/ EnqueueTurn(r) \/ EnqueueSteered(c, r) \/ SteerTurn(c, r)
                                   \/ \E failed \in Requests : RetryTurn(c, failed, r)
        PROVE  StartsNothing
    BY <1>5, <1>6, <2>1 DEF EnqueueTurn, EnqueueSteered, SteerTurn, RetryTurn
  <2>2. ASSUME NEW r \in Requests, RunNow(c, r) \/ CancelRequest(c, r) \/ CancelQueued(c, r)
        PROVE  StartsNothing
    BY <1>1, <1>2, <2>2 DEF RunNow, CancelRequest, CancelQueued, StoreVars
  <2>3. ASSUME NEW r \in Requests, Answer(c, r) \/ Decide(c, r) \/ Approve(c, r)
        PROVE  StartsNothing
    BY <1>1, <1>3, <2>3 DEF Answer, Decide, Approve
  <2>4. CASE PauseQueue(c) \/ ResumeQueue(c) \/ ClearQueue(c)
    BY <1>1, <1>2, <2>4 DEF PauseQueue, Pause, ResumeQueue, Resume, ClearQueue, StoreVars
  <2>5. CASE ListQueue(c)
    BY <1>7, <2>5 DEF ListQueue
  <2> QED
    BY <1>8, <2>1, <2>2, <2>3, <2>4, <2>5 DEF ApiStep
<1>9. CASE ApiFinishes(c)
  <2>1. CASE \/ SteerWake(c) \/ RetryWake(c) \/ PauseMarks(c) \/ PauseRuns(c) \/ PauseTurn(c) \/ ClearRows(c)
             \/ ListResume(c) \/ CancelRequestTurn(c) \/ CancelSignal(c) \/ QueuedSignal(c)
    <3>1. \/ UNCHANGED turn \/ CancelTurn(api[c].key) \/ turn' = [r \in Requests |-> ClearedTurn(turn[r])]
      BY <2>1 DEF SteerWake, Resume, RetryWake, ResumeAfterFailure, PauseMarks, PauseRuns, PauseTurn, ClearRows,
                  ListResume, CancelRequestTurn, CancelSignal, QueuedSignal, Signal, StoreVars
    <3> QED
      BY <1>1, <1>2, <3>1
  <2>2. CASE ListClaims(c)
    BY <1>7, <2>2 DEF ListClaims
  <2>3. ASSUME NEW r \in Requests, RunNowSubmits(c, r)
        PROVE  StartsNothing
    BY <1>1, <1>5, <2>3 DEF RunNowSubmits, StoreVars
  <2> QED
    BY <1>9, <2>1, <2>2, <2>3 DEF ApiFinishes
<1> QED
  BY <1>8, <1>9

\* Only a claim starts a turn.
LEMMA ClaimsStart ==
    ASSUME TypeInv, NothingAsked, [Next]_vars
    PROVE  StartsNothing \/ \E r \in Requests : Claim(r)
<1>0. turn \in [Requests -> TurnRows]
  BY DEF TypeInv, TypeOK, TurnTypeOK
<1>1. UNCHANGED turn => StartsNothing
  BY DEF StartsNothing, Running
<1>2. ASSUME NEW closing, RecoverTerminalRuns(closing) \/ RecoverClaims(closing)
      PROVE  StartsNothing
  BY <1>0, <1>2, RecoveryStartsNothing
<1>3. ASSUME NEW c \in Clients, ApiStep(c) \/ ApiFinishes(c)
      PROVE  StartsNothing
  BY <1>0, <1>3, HandlersStartNothing
<1>4. ASSUME NEW k, NEW status, FinishTurnOf(k, status)
      PROVE  StartsNothing
  <2>1. \A r \in Requests : turn'[r] = turn[r] \/ turn'[r] = FinishedTurn(turn[r], status)
    BY <1>0, <1>4 DEF FinishTurnOf, HasTurn
  <2> QED
    BY <1>0, <2>1, RowsDoNotStart DEF StartsNothing, Running
<1> HIDE DEF StartsNothing
<1>5. ASSUME NEW d \in Dispatchers, DispStep(d)
      PROVE  StartsNothing \/ \E r \in Requests : Claim(r)
  <2>1. CASE DispTake(d) \/ DispResume(d) \/ DispFindsNothing(d) \/ DispSubmit(d)
    BY <1>1, <2>1 DEF DispTake, DispResume, DispFindsNothing, DispSubmit, ResumeAfterFailure, StoreVars
  <2>2. CASE DispTerminalRuns(d) \/ DispClaims(d)
    BY <1>2, <2>2 DEF DispTerminalRuns, DispClaims
  <2>3. CASE DispClaim(d)
    BY <2>3 DEF DispClaim
  <2>4. CASE DispRelease(d)
    <3>1. \A r \in Requests : turn'[r] \in {turn[r], Requeued(turn[r])}
      BY <1>0, <2>4 DEF DispRelease, ReleaseClaim
    <3> QED
      BY <1>0, <3>1, RowsDoNotStart DEF StartsNothing, Running
  <2> QED
    BY <1>5, <2>1, <2>2, <2>3, <2>4 DEF DispStep
<1>6. ASSUME NEW w \in Workers, WorkerActs(w) \/ WorkUnlock(w)
      PROVE  StartsNothing
  <2>1. CASE WorkEarlyTurn(w) \/ WorkFinalTurn(w)
    BY <1>4, <2>1 DEF WorkEarlyTurn, WorkFinalTurn
  <2>2. CASE \/ WorkCheck(w) \/ WorkEarlyRuns(w) \/ WorkStart(w) \/ WorkCreate(w) \/ WorkRevive(w) \/ WorkApply(w)
             \/ WorkHeartbeat(w) \/ WorkRound(w) \/ WorkSeesCancel(w) \/ WorkDeadline(w) \/ WorkFails(w)
             \/ WorkAnswers(w) \/ WorkAborts(w)
    BY <1>1, <2>2 DEF WorkCheck, WorkEarlyRuns, WorkStart, WorkCreate, WorkRevive, WorkApply, WorkHeartbeat,
                      WorkRound, WorkSeesCancel, WorkDeadline, WorkFails, WorkAnswers, WorkAborts, StoreVars
  <2>3. CASE \/ WorkFinalCheck(w) \/ WorkSave(w) \/ WorkEmit(w) \/ WorkFinalRun(w) \/ WorkUnlock(w)
             \/ WorkEmitFails(w)
    BY <1>1, <2>3 DEF WorkFinalCheck, WorkSave, WorkEmit, WorkFinalRun, WorkUnlock, WorkEmitFails, StoreVars
  <2> QED
    BY <1>6, <2>1, <2>2, <2>3 DEF WorkerActs, WorkStep
<1>7. CASE BeatStep
  <2>1. CASE BeatTerminalRuns \/ BeatClaims
    BY <1>2, <2>1 DEF BeatTerminalRuns, BeatClaims
  <2>2. CASE \/ BeatStarts \/ NoLeaseExpired \/ CloseExpired \/ BeatFailurePause \/ BeatWake
             \/ \E r \in Requests : ExpireLease(r)
    BY <1>1, <2>2 DEF BeatStarts, NoLeaseExpired, CloseExpired, BeatFailurePause, BeatWake, ExpireLease,
                      ResumeAfterFailure, StoreVars
  <2> QED
    BY <1>7, <2>1, <2>2 DEF BeatStep
<1>8. ASSUME NEW r \in Requests, TurnAges(r) \/ EndAges(r) \/ LeaseAges(r)
      PROVE  StartsNothing
  <2>1. \A q \in Requests : turn'[q].status = turn[q].status
    BY <1>0, <1>8 DEF TurnAges, EndAges, LeaseAges, TurnRows
  <2> QED
    BY <2>1 DEF StartsNothing, Running
<1>9. CASE \/ Crash \/ UNCHANGED turn
           \/ \E w \in Workers, job \in jobs, redelivered \in BOOLEAN : WorkTake(w, job, redelivered)
  BY <1>1, <1>9 DEF Crash, WorkTake, StoreVars
<1> QED
  BY <1>3, <1>5, <1>6, <1>7, <1>8, <1>9, NextCases

\* Only pause_queue pauses it for the user.
LEMMA OnlyUsersPause ==
    ASSUME [Next]_vars, control' = "user_pause", control # "user_pause"
    PROVE  \E c \in Clients : PauseQueue(c)
<1>1. ASSUME NEW c \in Clients, ApiStep(c)
      PROVE  PauseQueue(c)
  <2>1. ASSUME NEW r \in Requests, \/ EnqueueTurn(r) \/ EnqueueSteered(c, r) \/ SteerTurn(c, r) \/ RunNow(c, r)
                                   \/ CancelRequest(c, r) \/ CancelQueued(c, r)
                                   \/ \E failed \in Requests : RetryTurn(c, failed, r)
                                   \/ Answer(c, r) \/ Decide(c, r) \/ Approve(c, r)
        PROVE  FALSE
    BY <2>1 DEF EnqueueTurn, EnqueueSteered, SteerTurn, RunNow, CancelRequest, CancelQueued, RetryTurn, Enqueue,
                Promote, RetryFailed, Answer, Decide, Approve, StoreVars
  <2>2. CASE ResumeQueue(c) \/ ClearQueue(c)
    BY <2>2 DEF ResumeQueue, Resume, ClearQueue, StoreVars
  <2>3. CASE ListQueue(c)
    BY <2>3 DEF ListQueue, RecoverTerminalRuns
  <2> QED
    BY <1>1, <2>1, <2>2, <2>3 DEF ApiStep
<1>2. ASSUME NEW c \in Clients, ApiFinishes(c)
      PROVE  FALSE
  <2>1. CASE \/ SteerWake(c) \/ RetryWake(c) \/ PauseMarks(c) \/ PauseRuns(c) \/ PauseTurn(c) \/ ClearRows(c)
             \/ ListResume(c) \/ CancelRequestTurn(c) \/ CancelSignal(c) \/ QueuedSignal(c)
    BY <2>1 DEF SteerWake, Resume, RetryWake, ResumeAfterFailure, PauseMarks, PauseRuns, PauseTurn, ClearRows,
                ListResume, CancelRequestTurn, CancelSignal, QueuedSignal, Signal, StoreVars
  <2>2. CASE ListClaims(c) \/ \E r \in Requests : RunNowSubmits(c, r)
    BY <2>2 DEF ListClaims, RecoverClaims, RunNowSubmits, Enqueue, StoreVars
  <2> QED
    BY <1>2, <2>1, <2>2 DEF ApiFinishes
<1>3. ASSUME NEW d \in Dispatchers, DispStep(d)
      PROVE  FALSE
  BY <1>3 DEF DispStep, DispTake, DispTerminalRuns, DispClaims, DispResume, DispClaim, DispFindsNothing, DispSubmit,
              DispRelease, RecoverTerminalRuns, RecoverClaims, ResumeAfterFailure, Claim, ReleaseClaim, StoreVars
<1>4. ASSUME NEW w \in Workers, WorkStep(w) \/ WorkAborts(w) \/ WorkEmitFails(w)
      PROVE  FALSE
  <2>1. CASE \/ WorkCheck(w) \/ WorkEarlyRuns(w) \/ WorkStart(w) \/ WorkCreate(w) \/ WorkRevive(w) \/ WorkApply(w)
             \/ WorkHeartbeat(w) \/ WorkRound(w) \/ WorkSeesCancel(w) \/ WorkDeadline(w) \/ WorkFails(w)
             \/ WorkAnswers(w) \/ WorkAborts(w)
    BY <2>1 DEF WorkCheck, WorkEarlyRuns, WorkStart, WorkCreate, WorkRevive, WorkApply, WorkHeartbeat,
                WorkRound, WorkSeesCancel, WorkDeadline, WorkFails, WorkAnswers, WorkAborts, StoreVars
  <2>2. CASE \/ WorkFinalCheck(w) \/ WorkSave(w) \/ WorkEmit(w) \/ WorkFinalRun(w) \/ WorkUnlock(w)
             \/ WorkEmitFails(w) \/ WorkEarlyTurn(w) \/ WorkFinalTurn(w)
    BY <2>2 DEF WorkFinalCheck, WorkSave, WorkEmit, WorkFinalRun, WorkUnlock, WorkEmitFails, WorkEarlyTurn,
                WorkFinalTurn, StoreVars
  <2> QED
    BY <1>4, <2>1, <2>2 DEF WorkStep
<1>5. BeatStep => FALSE
  BY DEF BeatStep, BeatStarts, NoLeaseExpired, CloseExpired, BeatTerminalRuns, BeatClaims, BeatFailurePause, BeatWake,
         ExpireLease, RecoverTerminalRuns, RecoverClaims, ResumeAfterFailure, StoreVars
<1>6. (\E r \in Requests : TurnAges(r) \/ EndAges(r) \/ LeaseAges(r)) => FALSE
  BY DEF TurnAges, EndAges, LeaseAges
<1>7. Crash \/ (\E k \in Keys : LockExpires(k)) \/ UNCHANGED vars => FALSE
  BY DEF Crash, LockExpires, vars, StoreVars
<1>8. ASSUME NEW w \in Workers, NEW job \in jobs, Deliver(w, job) \/ Redeliver(w, job)
      PROVE  FALSE
  BY <1>8 DEF Deliver, Redeliver, WorkTake, StoreVars
<1> QED
  BY <1>1, <1>2, <1>3, <1>4, <1>5, <1>6, <1>7, <1>8 DEF Next, Call, Return, Dispatch, Work, Abort, Maintain, TimePasses

\* A handler that pauses goes on to stop the turn, unless it dies.
LEMMA PausersGoOn ==
    ASSUME "crash" \notin Failures, TypeInv, [Next]_vars, NEW c \in Clients, NEW r \in Requests,
           Stopping(c, r), ~Stopping(c, r)'
    PROVE  PauseMarks(c) \/ PauseTurn(c)
<1>0. ApiTypeOK /\ api[c].pc \in {"pause_marker", "pause_runs", "pause_turn"}
  BY DEF TypeInv, TypeOK, Stopping
<1>1. api' # api
  BY DEF Stopping
<1>2. PICK e \in Clients : ApiStep(e) \/ ApiFinishes(e)
  BY <1>1, NextCases DEF Crash
<1>3. \/ UNCHANGED api
      \/ \E row : api' = [api EXCEPT ![e] = row]
      \/ \E pc : api' = [api EXCEPT ![e].pc = pc]
  <2>1. CASE ApiStep(e)
    BY <2>1 DEF ApiStep, EnqueueTurn, EnqueueSteered, SteerTurn, RunNow, CancelRequest, CancelQueued, Answer, Decide,
                Approve, RetryTurn, PauseQueue, ResumeQueue, ClearQueue, ListQueue, Calls, Enters, ApiVars
  <2>2. CASE ApiFinishes(e)
    BY <2>2 DEF ApiFinishes, SteerWake, RetryWake, PauseMarks, PauseRuns, PauseTurn, ClearRows, RunNowSubmits,
                ListClaims, ListResume, CancelRequestTurn, CancelSignal, QueuedSignal, Signal, Moves, Returns, ApiVars
  <2> QED
    BY <1>2, <2>1, <2>2
<1>4. e = c
  BY <1>0, <1>1, <1>3 DEF ApiTypeOK, Stopping
<1>5. ~ApiStep(c)
  <2>1. ASSUME NEW q \in Requests
        PROVE  /\ ~EnqueueTurn(q)
               /\ ~(EnqueueSteered(c, q) \/ SteerTurn(c, q) \/ RunNow(c, q) \/ CancelRequest(c, q)
                    \/ CancelQueued(c, q) \/ Answer(c, q) \/ Decide(c, q) \/ Approve(c, q)
                    \/ \E failed \in Requests : RetryTurn(c, failed, q))
    BY <1>0, <1>1 DEF EnqueueTurn, EnqueueSteered, SteerTurn, RunNow, CancelRequest, CancelQueued, Answer, Decide,
                      Approve, RetryTurn, Calls, Enters, ApiVars
  <2>2. ~(PauseQueue(c) \/ ResumeQueue(c) \/ ClearQueue(c) \/ ListQueue(c))
    BY <1>0 DEF PauseQueue, ResumeQueue, ClearQueue, ListQueue, Calls, Enters
  <2> QED
    BY <2>1, <2>2 DEF ApiStep
<1>6. ~PauseRuns(c)
  <2> SUFFICES ASSUME PauseRuns(c) PROVE FALSE
    OBVIOUS
  <2>1. api[c].pc = "pause_runs" /\ api' = [api EXCEPT ![c].pc = "pause_turn"]
    BY DEF PauseRuns, Moves
  <2>2. api'[c].pc = "pause_turn" /\ api'[c].key = api[c].key
    BY <1>0, <2>1 DEF ApiTypeOK
  <2> QED
    BY <2>1, <2>2 DEF Stopping
<1>7. ~(\/ SteerWake(c) \/ RetryWake(c) \/ ClearRows(c) \/ (\E q \in Requests : RunNowSubmits(c, q))
        \/ ListClaims(c) \/ ListResume(c) \/ CancelRequestTurn(c) \/ CancelSignal(c) \/ QueuedSignal(c))
  BY <1>0 DEF SteerWake, RetryWake, ClearRows, RunNowSubmits, ListClaims, ListResume, CancelRequestTurn,
              CancelSignal, QueuedSignal, Signal, Moves, Returns
<1> QED
  BY <1>2, <1>4, <1>5, <1>6, <1>7 DEF ApiFinishes

LEMMA PauseStep ==
    ASSUME "crash" \notin Failures, TurnInv, NothingAsked, PauseInv, [Next]_vars
    PROVE  PauseInv'
<1>0. TypeInv /\ turn \in [Requests -> TurnRows] /\ api \in [Clients -> [pc : ApiPcs, key : Requests \cup {None}]]
  BY DEF TurnInv, LockInv, TypeInv, TypeOK, TurnTypeOK, ApiTypeOK
<1> SUFFICES ASSUME control' = "user_pause", NEW r \in Requests, Running(r)'
             PROVE  \E c \in Clients : Stopping(c, r)'
  BY DEF PauseInv
<1>1. CASE control # "user_pause"
  <2>1. PICK c \in Clients : PauseQueue(c)
    BY <1>1, OnlyUsersPause
  <2>2. api'[c].pc = "pause_marker"
    BY <1>0, <2>1 DEF PauseQueue, Enters
  <2> QED
    BY <2>2 DEF Stopping
<1>2. CASE control = "user_pause"
  <2>1. ~ \E q \in Requests : Claim(q)
    BY <1>2 DEF Claim, Claimable, Paused
  <2>2. Running(r)
    BY <1>0, <2>1, ClaimsStart DEF StartsNothing
  <2>3. PICK c \in Clients : Stopping(c, r)
    BY <1>2, <2>2 DEF PauseInv
  <2>4. CASE PauseMarks(c)
    <3>1. \A q \in InStatus(ActiveQueueStatuses) : q = r
      BY <2>2 DEF TurnInv, Core, OneBusy, Busy, ActiveTurn, InStatus, Running, ActiveQueueStatuses
    <3>2. ActiveRequest = {r}
      BY <1>0, <2>2, <3>1 DEF ActiveRequest, InStatus, Running, ActiveQueueStatuses, TurnRows
    <3>3. api' = [api EXCEPT ![c] = [pc |-> "pause_runs", key |-> r]]
      BY <2>4, <3>2 DEF PauseMarks
    <3> QED
      BY <1>0, <3>3 DEF Stopping
  <2>5. CASE PauseTurn(c)
    <3>1. api[c].pc = "pause_turn" /\ CancelTurn(api[c].key)
      BY <2>5 DEF PauseTurn, Returns
    <3>2. turn'[r] = CancelRequestedTurn(turn[r])
      BY <1>0, <2>3, <3>1 DEF Stopping, CancelTurn
    <3>3. turn'[r].status = "cancelling"
      BY <1>0, <2>2, <3>2 DEF CancelRequestedTurn, Running, QueueableStatuses, ActiveQueueStatuses,
                              PausedQueueStatuses, TurnRows
    <3> QED
      BY <3>3 DEF Running
  <2> QED
    BY <1>0, <2>3, <2>4, <2>5, PausersGoOn
<1> QED
  BY <1>1, <1>2

\* Once pause_deepspace_queue has returned no turn runs on, for any number of
\* clients who pause, resume, clear and steer at once and of dispatchers that claim
\* meanwhile.  A handler that dies in between leaves the turn running, and a worker
\* that reports a question has its turn wait for the user although it was cancelling.
THEOREM PausingStops ==
    ASSUME OrderlyUse, "crash" \notin Failures, MaxFrames = 0
    PROVE  Spec => []PauseStopsTheActiveTurn
<1>1. Init => NothingAsked /\ PauseInv
  BY DEF Init, TurnInit, RunInit, WorkersInit, NoTurn, NoRun, IdleWorker, NothingAsked, PauseInv, Running,
         PausedQueueStatuses
<1>2. TurnInv /\ NothingAsked /\ PauseInv /\ [Next]_vars => NothingAsked' /\ PauseInv'
  BY NothingAskedStep, PauseStep DEF TurnInv, LockInv
<1>3. NothingAsked /\ PauseInv => PauseStopsTheActiveTurn
  <2> SUFFICES ASSUME NothingAsked, PauseInv, control = "user_pause",
                      \A c \in Clients : api[c].pc \notin {"pause_marker", "pause_runs", "pause_turn"},
                      NEW r \in Active
               PROVE  turn[r].status = "cancelling"
    BY DEF PauseStopsTheActiveTurn
  <2>1. r \in Requests /\ turn[r].status \in {"running", "cancelling"}
    BY DEF Active, InStatus, NothingAsked, ActiveQueueStatuses, PausedQueueStatuses
  <2>2. ~Running(r)
    BY <2>1 DEF PauseInv, Stopping
  <2> QED
    BY <2>1, <2>2 DEF Running
<1> QED
  BY <1>1, <1>2, <1>3, TurnInvariant, PTL DEF Spec
-----------------------------------------------------------------------------
(* Streams end once, where no process crashes. *)

\* Nobody has anything of request r in hand, and nobody will get it.
Deserted(r) == /\ \A w \in Workers : worker[w].pc # "idle" => Key(w) # r
               /\ \A job \in jobs : job.key # r
               /\ \A d \in Dispatchers : ~Submits(d, r)
Gone(r) == Deserted(r) /\ ~Waiting(r)

\* A run that lost its lease, or that the beat will end, is one that nobody comes
\* back to.
Secluded(r) ==
    /\ ActiveRun(r) => ~Waiting(r)
    /\ run[r].lease => run[r].status \in {"failed", "cancelled"}
    /\ run[r].lease \/ r \in beat.stale => Gone(r)
    /\ ~HasRow(r) => Deserted(r)

OneEnd(k) == \A i \in 1..Len(frames[k]) : i # Len(frames[k]) => frames[k][i] \in PausedQueueStatuses

HasEnd(k) == HasTerminalFrame(k) /\ LastFrame(k) \notin PausedQueueStatuses

\* A worker that has written the end and now ends the rows.
Finishing(w) == /\ worker[w].pc \in {"early_runs", "early_turn", "final_run", "final_turn"}
                /\ worker[w].out \notin PausedQueueStatuses

\* A stream that has ended belongs to a run that lost its lease, to a turn that
\* has ended or to a worker that is ending it; no other worker gets past its look
\* at the queue.
EndStands(r) ==
    HasEnd(r) =>
        /\ \/ run[r].lease
           \/ EndedTurn(r)
           \/ \E w \in Workers : Key(w) = r /\ Finishing(w)
        /\ \A w \in Workers : worker[w].pc # "idle" /\ Key(w) = r =>
               worker[w].pc \in {"check", "unlock"} \/ Finishing(w)

BeatCloses == beat.pc = "close" => beat.key \in Requests /\ run[beat.key].lease

EndInv == /\ BeatCloses
          /\ \A r \in Requests : Secluded(r) /\ EndStands(r)
          /\ \A k \in Keys : OneEnd(k)
-----------------------------------------------------------------------------
(* Rows on which a step begins and reopens nothing. *)

QuietRow(r) ==
    /\ ActiveRun(r)' => ActiveRun(r)
    /\ Waiting(r)' => Waiting(r)
    /\ HasRow(r) => HasRow(r)'
    /\ EndedTurn(r) => EndedTurn(r)'
    /\ run'[r].lease = run[r].lease
    /\ run[r].lease => run'[r].status = run[r].status

LEMMA SameRowIsQuiet ==
    ASSUME NEW r, turn'[r].status = turn[r].status, run'[r].status = run[r].status, run'[r].lease = run[r].lease
    PROVE  QuietRow(r)
BY DEF QuietRow, ActiveRun, Waiting, HasRow, EndedTurn

LEMMA QuietStaysSecluded ==
    ASSUME NEW r \in Requests, Secluded(r), QuietRow(r), Deserted(r) => Deserted(r)',
           r \in beat'.stale => r \in beat.stale \/ (ActiveRun(r) /\ Deserted(r))
    PROVE  Secluded(r)'
<1>1. Gone(r) => Gone(r)'
  BY DEF Gone, QuietRow
<1> QED
  BY <1>1 DEF Secluded, QuietRow, Gone

\* Workers stay, go idle with their turn ended, or take a job and look at the queue.
Bystanding == \A w \in Workers : \/ worker'[w] = worker[w]
                                 \/ worker'[w].pc \in {"idle", "check"} /\ ~Finishing(w)

LEMMA QuietEndStands ==
    ASSUME NEW r \in Requests, EndStands(r), QuietRow(r), frames'[r] = frames[r], Bystanding
    PROVE  EndStands(r)'
<1>1. HasEnd(r)' <=> HasEnd(r)
  BY DEF HasEnd, HasTerminalFrame, LastFrame
<1>2. \A w \in Workers : worker'[w] = worker[w] => Key(w)' = Key(w) /\ (Finishing(w)' <=> Finishing(w))
  BY DEF Key, Finishing
<1>3. \A w \in Workers : Finishing(w) => worker'[w] = worker[w]
  BY DEF Bystanding
<1> QED
  BY <1>1, <1>2, <1>3 DEF EndStands, Bystanding, QuietRow

LEMMA SameFramesEndOnce ==
    ASSUME \A k \in Keys : OneEnd(k), UNCHANGED frames
    PROVE  \A k \in Keys : OneEnd(k)'
BY DEF OneEnd

\* Who goes on to nothing new leaves a deserted request deserted.
LEMMA StaysDeserted ==
    ASSUME jobs' \subseteq jobs,
           \A w \in Workers : worker'[w] = worker[w] \/ worker'[w].pc = "idle",
           \A d \in Dispatchers : disp'[d].pc = "submit" => disp'[d] = disp[d]
    PROVE  \A r \in Requests : Deserted(r) => Deserted(r)'
BY DEF Deserted, Key, Submits

\* Everything quiet.
LEMMA QuietStep ==
    ASSUME EndInv, Core, UNCHANGED frames, \A r \in Requests : QuietRow(r), jobs' \subseteq jobs,
           \A w \in Workers : \/ worker'[w] = worker[w]
                              \/ worker'[w].pc = "idle" /\ ~Finishing(w),
           \A d \in Dispatchers : disp'[d].pc = "submit" => disp'[d] = disp[d],
           \A r \in beat'.stale : r \in beat.stale \/ LeaseExpired(r),
           beat'.pc = "close" => UNCHANGED beat
    PROVE  EndInv'
<1>1. BeatCloses'
  BY DEF EndInv, BeatCloses, QuietRow
<1>2. ASSUME NEW r \in Requests
      PROVE  Secluded(r)'
  <2>1. LeaseExpired(r) => ActiveRun(r) /\ Deserted(r)
    <3>1. LeaseExpired(r) => ActiveRun(r) /\ run[r].beat # "fresh"
      BY DEF LeaseExpired, ActiveRun, ActiveRunStatuses, WorkerRunStatuses, OlderThanThirty
    <3> QED
      BY <3>1 DEF Core, Silent, Deserted
  <2>2. Secluded(r) /\ QuietRow(r) /\ (Deserted(r) => Deserted(r)')
    BY StaysDeserted DEF EndInv
  <2> QED
    BY <2>1, <2>2, QuietStaysSecluded
<1>3. ASSUME NEW r \in Requests
      PROVE  EndStands(r)'
  BY QuietEndStands DEF EndInv, Bystanding
<1> QED
  BY <1>1, <1>2, <1>3, SameFramesEndOnce DEF EndInv
-----------------------------------------------------------------------------
(* Handlers. *)

LEMMA RowsRemain ==
    ASSUME OrderlyUse, TurnInv, [Next]_vars
    PROVE  \A r \in Requests : HasRow(r) => HasRow(r)'
<1>0. turn \in [Requests -> TurnRows]
  BY TurnInvTypes
<1>1. ASSUME NEW q \in Requests, Adds(q), NEW r \in Requests, HasRow(r)
      PROVE  HasRow(r)'
  <2>1. CASE Promote(q)
    BY <1>0, <1>1, <2>1 DEF Promote, HasRow, TurnRows
  <2>2. ASSUME NEW steer \in BOOLEAN, Enqueue(q, steer)
        PROVE  HasRow(r)'
    BY <1>0, <1>1, <2>2 DEF Enqueue, HasRow
  <2> QED
    BY <1>1, <2>1, <2>2 DEF Adds
<1> QED
  BY <1>1, PlacesKept DEF SamePlace, HasRow

\* Of the runs and the streams a handler writes the flags of a cancellation.
LEMMA HandlersWrite ==
    ASSUME OrderlyUse, Plain, NEW c \in Clients, ApiStep(c) \/ ApiFinishes(c)
    PROVE  \/ \E r \in Requests : Answer(c, r)
           \/ UNCHANGED jobs /\ \E closing \in Closings : RecoverTerminalRuns(closing) \/ RecoverClaims(closing)
           \/ UNCHANGED frames /\ \A r \in Requests : run'[r] \in {run[r], CancelRequested(run[r])}
<1>0. \A op \in {"retry", "run_now", "decide", "approve"} : op \notin Ops
  BY DEF OrderlyUse
<1>1. CASE ApiStep(c)
  <2>1. ASSUME NEW r \in Requests, \/ EnqueueTurn(r) \/ EnqueueSteered(c, r) \/ SteerTurn(c, r)
                                   \/ CancelRequest(c, r) \/ CancelQueued(c, r)
        PROVE  UNCHANGED frames /\ \A q \in Requests : run'[q] \in {run[q], CancelRequested(run[q])}
    BY <2>1 DEF EnqueueTurn, EnqueueSteered, SteerTurn, Enqueue, Promote, CancelRequest, CancelQueued, CancelRuns
  <2>2. ASSUME NEW r \in Requests, \/ RunNow(c, r) \/ Decide(c, r) \/ Approve(c, r)
                                   \/ \E failed \in Requests : RetryTurn(c, failed, r)
        PROVE  FALSE
    BY <1>0, <2>2 DEF RunNow, Decide, Approve, RetryTurn, Calls, Enters
  <2>3. PauseQueue(c) \/ ResumeQueue(c) \/ ClearQueue(c) => UNCHANGED <<run, frames>>
    BY DEF PauseQueue, Pause, ResumeQueue, Resume, ClearQueue, StoreVars
  <2>4. ListQueue(c) => UNCHANGED jobs /\ \E closing \in Closings : RecoverTerminalRuns(closing)
    BY DEF ListQueue
  <2> QED
    BY <1>1, <2>1, <2>2, <2>3, <2>4 DEF ApiStep
<1>2. CASE ApiFinishes(c)
  <2>1. SteerWake(c) \/ PauseMarks(c) \/ ListResume(c) \/ CancelSignal(c) \/ QueuedSignal(c)
        => UNCHANGED <<run, frames>>
    BY DEF SteerWake, Resume, PauseMarks, ListResume, ResumeAfterFailure, CancelSignal, QueuedSignal, Signal, StoreVars
  <2>2. ~RetryWake(c) /\ \A r \in Requests : ~RunNowSubmits(c, r)
    BY DEF RetryWake, RunNowSubmits, Returns, Plain
  <2>3. PauseRuns(c) \/ PauseTurn(c) \/ CancelRequestTurn(c) \/ ClearRows(c)
        => UNCHANGED frames /\ \A q \in Requests : run'[q] \in {run[q], CancelRequested(run[q])}
    BY DEF PauseRuns, PauseTurn, CancelRequestTurn, ClearRows, CancelRuns
  <2>4. ListClaims(c) => UNCHANGED jobs /\ \E closing \in Closings : RecoverClaims(closing)
    BY DEF ListClaims
  <2> QED
    BY <1>2, <2>1, <2>2, <2>3, <2>4 DEF ApiFinishes
<1> QED
  BY <1>1, <1>2

\* A calm handler: cancelling reaches active runs only.
LEMMA CancelsAreQuiet ==
    ASSUME EndInv, run \in [Requests -> RunRows], NEW r \in Requests,
           run'[r] \in {run[r], CancelRequested(run[r])}
    PROVE  run'[r].lease = run[r].lease /\ (run[r].lease => run'[r].status = run[r].status)
<1>1. run[r] \in RunRows /\ (run[r].lease => run[r].status \in {"failed", "cancelled"})
  BY DEF EndInv, Secluded
<1> QED
  BY <1>1 DEF CancelRequested, RunRows, ActiveRunStatuses

LEMMA AnswerKeepsEnds ==
    ASSUME OrderlyUse, TurnInv, EndInv, NEW c \in Clients, NEW k \in Requests, Answer(c, k),
           UNCHANGED <<worker, disp, beat>>
    PROVE  EndInv'
<1>0. /\ StoreOK /\ Core /\ turn \in [Requests -> TurnRows] /\ run \in [Requests -> RunRows] /\ BeatIsRight(k)
  BY TurnInvTypes DEF Core
<1>1. /\ Uncancelled /\ turn[k].status \in PausedQueueStatuses /\ run[k].status = "awaiting_user"
      /\ turn' = [turn EXCEPT ![k] = Resumed(@)]
      /\ run' = [run EXCEPT ![k] = QuestionClaimed(@)]
      /\ jobs' \in {jobs, jobs \cup {[kind |-> "answer", key |-> k, target |-> k]}}
      /\ UNCHANGED frames
  BY <1>0, AnswerDoes DEF Answer
<1>2. ~run[k].lease /\ k \notin beat.stale
  <2>1. ActiveRun(k) /\ run[k].status # "running"
    BY <1>1 DEF ActiveRun, ActiveRunStatuses
  <2> QED
    BY <1>0, <1>1, <2>1 DEF EndInv, Secluded, BeatIsRight
<1>3. /\ run'[k].lease = run[k].lease /\ turn'[k].status = "running"
      /\ \A q \in Requests : q # k => run'[q] = run[q] /\ turn'[q] = turn[q]
  BY <1>0, <1>1 DEF Resumed, QuestionClaimed, TurnRows, RunRows
<1>4. QuietRow(k)
  BY <1>1, <1>2, <1>3 DEF QuietRow, ActiveRun, ActiveRunStatuses, Waiting, HasRow, EndedTurn, PausedQueueStatuses,
                          TerminalQueueStatuses
<1>5. \A q \in Requests : q # k => QuietRow(q)
  BY <1>3, SameRowIsQuiet
<1>6. Secluded(k)'
  BY <1>2, <1>3 DEF Secluded, Waiting, HasRow
<1>7. ASSUME NEW q \in Requests, q # k
      PROVE  Secluded(q)'
  <2>1. Deserted(q) => Deserted(q)'
    BY <1>1, <1>7 DEF Deserted, Key, Submits
  <2> QED
    BY <1>5, <1>7, <2>1, QuietStaysSecluded DEF EndInv
<1>8. BeatCloses'
  BY <1>4, <1>5 DEF EndInv, BeatCloses, QuietRow
<1>9. ASSUME NEW q \in Requests
      PROVE  EndStands(q)'
  BY <1>1, <1>4, <1>5, QuietEndStands DEF EndInv, Bystanding
<1> QED
  BY <1>1, <1>6, <1>7, <1>8, <1>9, SameFramesEndOnce DEF EndInv
-----------------------------------------------------------------------------
(* Dispatchers. *)

\* Rows and streams that a step leaves as they are, on the way of a request k.
LEMMA OnlyOneMoves ==
    ASSUME EndInv, UNCHANGED <<frames, beat>>, \A r \in Requests : QuietRow(r), Bystanding,
           NEW k \in Requests, Secluded(k)',
           \A r \in Requests : r # k /\ Deserted(r) => Deserted(r)'
    PROVE  EndInv'
<1>1. BeatCloses'
  BY DEF EndInv, BeatCloses, QuietRow
<1>2. ASSUME NEW r \in Requests
      PROVE  Secluded(r)'
  BY QuietStaysSecluded DEF EndInv
<1>3. ASSUME NEW r \in Requests
      PROVE  EndStands(r)'
  BY QuietEndStands DEF EndInv
<1> QED
  BY <1>1, <1>2, <1>3, SameFramesEndOnce DEF EndInv

LEMMA ClaimKeepsStreams ==
    ASSUME EndInv, turn \in [Requests -> TurnRows],
           disp \in [Dispatchers -> [pc : DispPcs, key : Requests \cup {None}]],
           NEW d \in Dispatchers, DispClaim(d), UNCHANGED beat
    PROVE  EndInv'
<1>1. PICK k \in Requests : Claim(k) /\ disp' = [disp EXCEPT ![d] = [pc |-> "submit", key |-> k]]
  BY DEF DispClaim
<1>2. /\ turn' = [turn EXCEPT ![k].status = "running", ![k].started = "fresh"] /\ turn[k].status = "queued"
      /\ UNCHANGED <<run, frames, jobs, worker>>
  BY <1>1 DEF Claim, Claimable, FirstQueued, DispClaim
<1>3. turn'[k].status = "running" /\ \A q \in Requests : q # k => turn'[q] = turn[q]
  BY <1>2 DEF TurnRows
<1>4. \A r \in Requests : QuietRow(r)
  BY <1>2, <1>3 DEF QuietRow, ActiveRun, Waiting, HasRow, EndedTurn, TerminalQueueStatuses
<1>5. Secluded(k)'
  BY <1>2, <1>3 DEF EndInv, Secluded, Gone, Waiting, HasRow, ActiveRun
<1>6. ASSUME NEW r \in Requests, r # k, Deserted(r)
      PROVE  Deserted(r)'
  BY <1>1, <1>2, <1>6 DEF Deserted, Submits, Key
<1> QED
  BY <1>2, <1>4, <1>5, <1>6, OnlyOneMoves DEF Bystanding

LEMMA SubmitKeepsStreams ==
    ASSUME EndInv, disp \in [Dispatchers -> [pc : DispPcs, key : Requests \cup {None}]],
           NEW d \in Dispatchers, DispSubmit(d), NEW k \in Requests, disp[d].key = k, UNCHANGED beat
    PROVE  EndInv'
<1>1. /\ jobs' = jobs \cup {[kind |-> "turn", key |-> k, target |-> k]}
      /\ disp' = [disp EXCEPT ![d] = IdleDispatcher]
      /\ UNCHANGED <<run, frames, turn, worker>>
  BY DEF DispSubmit, StoreVars
<1>2. ~Deserted(k)
  BY DEF DispSubmit, Deserted, Submits
<1>3. \A r \in Requests : QuietRow(r)
  BY <1>1, SameRowIsQuiet
<1>4. Secluded(k)'
  BY <1>1, <1>2 DEF EndInv, Secluded, Gone, Waiting, HasRow, ActiveRun
<1>5. ASSUME NEW r \in Requests, r # k, Deserted(r)
      PROVE  Deserted(r)'
  BY <1>1, <1>5 DEF Deserted, Submits, Key, IdleDispatcher
<1> QED
  BY <1>1, <1>3, <1>4, <1>5, OnlyOneMoves DEF Bystanding

LEMMA ReleaseKeepsStreams ==
    ASSUME EndInv, Core, turn \in [Requests -> TurnRows],
           disp \in [Dispatchers -> [pc : DispPcs, key : Requests \cup {None}]],
           NEW d \in Dispatchers, DispRelease(d), NEW k \in Requests, disp[d].key = k, UNCHANGED beat
    PROVE  EndInv'
<1>1. /\ turn' = [turn EXCEPT ![k] = IF @.status = "running" THEN Requeued(@) ELSE @]
      /\ disp' = [disp EXCEPT ![d] = IdleDispatcher]
      /\ UNCHANGED <<run, frames, jobs, worker>>
  BY DEF DispRelease, ReleaseClaim
<1>2. ~Deserted(k) /\ ~ActiveRun(k)
  BY DEF DispRelease, Deserted, Submits, Core, SubmitsFirst
<1>3. /\ turn'[k] = turn[k] \/ (turn[k].status = "running" /\ turn'[k].status = "queued")
      /\ \A q \in Requests : q # k => turn'[q] = turn[q]
  <2>1. turn[k] \in TurnRows /\ Requeued(turn[k]).status = "queued"
    BY DEF Requeued, TurnRows
  <2> QED
    BY <1>1, <2>1
<1>4. ~run[k].lease /\ k \notin beat.stale /\ HasRow(k)
  BY <1>2 DEF EndInv, Secluded, Gone
<1>5. HasRow(k)' /\ (EndedTurn(k) => EndedTurn(k)') /\ ~ActiveRun(k)'
  BY <1>1, <1>2, <1>3, <1>4 DEF HasRow, EndedTurn, ActiveRun, TerminalQueueStatuses
<1>6. Secluded(k)'
  BY <1>1, <1>4, <1>5 DEF Secluded
<1>7. \A q \in Requests : q # k => QuietRow(q)
  BY <1>1, <1>3, SameRowIsQuiet
<1>8. ASSUME NEW r \in Requests, r # k
      PROVE  Secluded(r)'
  <2>1. Deserted(r) => Deserted(r)'
    BY <1>1 DEF Deserted, Submits, Key, IdleDispatcher
  <2> QED
    BY <1>7, <1>8, <2>1, QuietStaysSecluded DEF EndInv
<1>9. EndStands(k)'
  <2>1. /\ HasEnd(k)' <=> HasEnd(k)
        /\ \A w \in Workers : Key(w)' = Key(w) /\ (Finishing(w)' <=> Finishing(w))
    BY <1>1 DEF HasEnd, HasTerminalFrame, LastFrame, Key, Finishing
  <2>2. EndStands(k)
    BY DEF EndInv
  <2> QED
    BY <1>1, <1>4, <1>5, <2>1, <2>2 DEF EndStands
<1>10. ASSUME NEW r \in Requests, r # k
       PROVE  EndStands(r)'
  BY <1>1, <1>7, <1>10, QuietEndStands DEF EndInv, Bystanding
<1>11. BeatCloses'
  BY <1>1 DEF EndInv, BeatCloses
<1> QED
  BY <1>1, <1>6, <1>8, <1>9, <1>10, <1>11, SameFramesEndOnce DEF EndInv
-----------------------------------------------------------------------------
(* Workers. *)

\* A worker writes to its stream twice at most: when it finds the marker, and
\* before it ends the rows.
Reports(w, k) == /\ worker[w].pc \in {"check", "emit"} /\ worker'[w].pc \in {"early_runs", "final_run"}
                 /\ worker'[w].out \in FrameKinds
                 /\ frames' = [frames EXCEPT ![k] = Append(@, worker'[w].out)]

LEMMA WorkerReports ==
    ASSUME WorkerOK, NEW w \in Workers, NEW k \in Requests, Key(w) = k, WorkerActs(w)
    PROVE  UNCHANGED frames \/ Reports(w, k)
<1> SUFFICES ASSUME frames' # frames
             PROVE  Reports(w, k)
  OBVIOUS
<1>1. CASE WorkCheck(w)
  <2>1. /\ frames' = [frames EXCEPT ![k] = Append(@, "cancelled")] /\ GotoWith(w, "early_runs", "cancelled")
        /\ worker[w].pc = "check"
    BY <1>1 DEF WorkCheck
  <2>2. Moved(w, "early_runs", "cancelled")
    BY <2>1, WorkerMoves
  <2> QED
    BY <2>1, <2>2 DEF Moved, Reports, FrameKinds, DoneStatuses
<1>2. CASE WorkEmit(w)
  <2>1. Moved(w, "final_run", worker[w].out)
    BY <1>2, WorkerMoves DEF WorkEmit
  <2>2. worker[w].pc = "emit" /\ worker[w].out \in FrameKinds
    BY <1>2 DEF WorkEmit, WorkerOK, WorkerCarries
  <2> QED
    BY <1>2, <2>1, <2>2 DEF WorkEmit, Moved, Reports
<1>3. CASE WorkEmitFails(w)
  <2>1. Moved(w, "final_run", "error")
    BY <1>3, WorkerMoves DEF WorkEmitFails
  <2> QED
    BY <1>3, <2>1 DEF WorkEmitFails, Moved, Reports, FrameKinds
<1>4. CASE \/ WorkEarlyRuns(w) \/ WorkEarlyTurn(w) \/ WorkStart(w) \/ WorkCreate(w) \/ WorkRevive(w)
           \/ WorkApply(w) \/ WorkHeartbeat(w) \/ WorkRound(w) \/ WorkSeesCancel(w)
  BY <1>4 DEF WorkEarlyRuns, WorkEarlyTurn, WorkStart, WorkCreate, WorkRevive, WorkApply, WorkHeartbeat,
         WorkRound, WorkSeesCancel
<1>5. CASE \/ WorkDeadline(w) \/ WorkFails(w) \/ WorkAnswers(w) \/ WorkAborts(w) \/ WorkFinalCheck(w)
           \/ WorkSave(w) \/ WorkFinalRun(w) \/ WorkFinalTurn(w)
  BY <1>5 DEF WorkDeadline, WorkFails, WorkAnswers, WorkAborts, WorkFinalCheck, WorkSave, WorkFinalRun,
         WorkFinalTurn, StoreVars
<1> QED
  BY <1>1, <1>2, <1>3, <1>4, <1>5 DEF WorkerActs, WorkStep

\* Only the beat and recovery take a lease.
LEMMA WorkersLeaveLeases ==
    ASSUME StoreOK, Plain, NEW w \in Workers, WorkerActs(w), NEW k \in Requests, Key(w) = k, ~run[k].lease
    PROVE  ~run'[k].lease
<1>0. /\ run \in [Requests -> RunRows] /\ run[k] \in RunRows /\ turn[k].parent = None
      /\ worker[w].pc # "idle" => Target(w) = k
  BY DEF StoreOK, StoreTypeOK, RunTypeOK, Plain, PlainJob, Key, Target
<1>1. /\ ~CreatedRun(run[k]).lease /\ ~CancellationFinished(run[k]).lease
      /\ \A status : ~FinishedRun(run[k], status).lease /\ ~FinishedForRequest(run[k], status).lease
      /\ \A status, pending : ~Checkpointed(run[k], status, pending).lease
  BY <1>0 DEF RunRows, CreatedRun, NoRun, CancellationFinished, FinishedRun, FinishedForRequest, Checkpointed
<1>2. CASE UNCHANGED run
  BY <1>2
<1>3. CASE WorkEarlyRuns(w) \/ WorkCreate(w) \/ WorkFinalRun(w)
  BY <1>0, <1>1, <1>3 DEF WorkEarlyRuns, WorkCreate, WorkFinalRun
<1>4. CASE WorkStart(w)
  <2>1. CASE StartFirst(w)
    BY <1>0, <2>1 DEF StartFirst, RunRows
  <2>2. ~StartRetry(w) /\ ~StartApproval(w)
    BY <1>0, <1>4 DEF StartRetry, StartApproval, Plain, PlainJob, WorkStart
  <2>3. CASE StartAnswer(w)
    BY <1>0, <1>1, <1>4, <2>3 DEF StartAnswer, WorkStart
  <2> QED
    BY <1>4, <2>1, <2>2, <2>3 DEF WorkStart, StartTurn
<1>5. CASE WorkHeartbeat(w) \/ WorkRound(w)
  <2>1. CASE WorkHeartbeat(w)
    BY <1>0, <2>1 DEF WorkHeartbeat, RunRows
  <2>2. CASE WorkRound(w)
    BY <1>0, <1>1, <2>2 DEF WorkRound
  <2> QED
    BY <1>5, <2>1, <2>2
<1>6. CASE WorkSeesCancel(w) \/ WorkDeadline(w) \/ WorkFails(w)
  <2>1. /\ worker[w].pc = "stream"
        /\ \E row : run' = [run EXCEPT ![k] = row] /\ ~row.lease
    <3>1. CASE WorkSeesCancel(w)
      <4>1. ~[FinishedRun(run[k], "cancelled") EXCEPT !.lease = FALSE].lease
        BY <1>0 DEF FinishedRun, RunRows
      <4> QED
        BY <1>0, <3>1, <4>1 DEF WorkSeesCancel
    <3>2. CASE WorkDeadline(w)
      <4>1. ~[FinishedRun(Checkpointed(run[k], "blocked", "none"), "blocked") EXCEPT !.lease = FALSE].lease
        BY <1>0 DEF FinishedRun, Checkpointed, RunRows
      <4> QED
        BY <1>0, <3>2, <4>1 DEF WorkDeadline
    <3>3. CASE WorkFails(w)
      <4>1. ~[FinishedRun(run[k], "failed") EXCEPT !.lease = FALSE, !.msg = "error"].lease
        BY <1>0 DEF FinishedRun, RunRows
      <4> QED
        BY <1>0, <3>3, <4>1 DEF WorkFails
    <3> QED
      BY <1>6, <3>1, <3>2, <3>3
  <2> QED
    BY <1>0, <2>1
<1>7. CASE WorkFinalCheck(w)
  BY <1>0, <1>7 DEF WorkFinalCheck, RunRows
<1>8. CASE WorkSave(w)
  BY <1>0, <1>1, <1>8 DEF WorkSave
<1>9. ~WorkRevive(w) /\ ~WorkApply(w)
  BY DEF Plain, WorkRevive, WorkApply
<1>10. WorkCheck(w) \/ WorkEarlyTurn(w) \/ WorkAnswers(w) \/ WorkEmit(w) \/ WorkFinalTurn(w)
       \/ WorkAborts(w) \/ WorkEmitFails(w) => UNCHANGED run
  BY DEF WorkCheck, WorkEarlyTurn, WorkAnswers, WorkEmit, WorkFinalTurn, WorkAborts, WorkEmitFails, StoreVars
<1> QED
  BY <1>2, <1>3, <1>4, <1>5, <1>6, <1>7, <1>8, <1>9, <1>10 DEF WorkerActs, WorkStep

\* A worker that has written an end ends the rows and leaves.
LEMMA WorkerFinishes ==
    ASSUME StoreOK, NEW w \in Workers, NEW k \in Requests, Key(w) = k, HasRow(k), WorkerActs(w), Finishing(w)
    PROVE  Finishing(w)' \/ (worker'[w].pc = "unlock" /\ EndedTurn(k)')
<1>0. WorkerOK /\ turn \in [Requests -> TurnRows]
  BY DEF StoreOK, StoreTypeOK, TurnTypeOK
<1>1. CASE WorkEarlyRuns(w) \/ WorkEarlyTurn(w) \/ WorkFinalRun(w)
  <2>1. \E pc \in {"early_turn", "final_run", "final_turn"} : Moved(w, pc, worker[w].out)
    BY <1>0, <1>1, WorkerMoves DEF WorkEarlyRuns, WorkEarlyTurn, WorkFinalRun
  <2> QED
    BY <2>1 DEF Moved, Finishing
<1>2. CASE WorkFinalTurn(w)
  <2>1. /\ Moved(w, "unlock", worker[w].out)
        /\ turn' = [turn EXCEPT ![k] = FinishedTurn(@, TurnStatusOf(worker[w].out))]
    BY <1>0, <1>2, WorkerMoves DEF WorkFinalTurn, FinishTurnOf, HasTurn
  <2>2. FinishStatus(TurnStatusOf(worker[w].out)) \in TerminalQueueStatuses
    BY DEF Finishing, FinishStatus, TurnStatusOf, PausedQueueStatuses, TerminalQueueStatuses
  <2>3. turn'[k].status = FinishStatus(TurnStatusOf(worker[w].out))
    BY <1>0, <2>1 DEF FinishedTurn, TurnRows
  <2> QED
    BY <2>1, <2>2, <2>3 DEF Moved, EndedTurn
<1>3. worker[w].pc \in {"early_runs", "early_turn", "final_run", "final_turn"}
  BY DEF Finishing
<1> QED
  BY <1>1, <1>2, <1>3 DEF WorkerActs, WorkStep, WorkAborts, WorkEmitFails, WorkCheck, WorkStart,
              WorkCreate, WorkRevive, WorkApply, WorkHeartbeat, WorkRound, WorkSeesCancel, WorkDeadline, WorkFails,
              WorkAnswers, WorkFinalCheck, WorkSave, WorkEmit

\* A stream gets its next frame while all it says is that the user was asked.
LEMMA WorkerWritesOneEnd ==
    ASSUME NEW w \in Workers, NEW k \in Requests, Reports(w, k), ~HasEnd(k), OneEnd(k),
           frames \in [Keys -> Seq(FrameKinds)]
    PROVE  OneEnd(k)' /\ (HasEnd(k)' => worker'[w].out \notin PausedQueueStatuses)
<1>1. /\ frames[k] \in Seq(FrameKinds) /\ worker'[w].out \in FrameKinds
      /\ frames'[k] = Append(frames[k], worker'[w].out)
  BY DEF Reports, Keys
<1>2. \A i \in 1..Len(frames[k]) : frames[k][i] \in PausedQueueStatuses
  <2>1. frames[k] # <<>> => Len(frames[k]) \in 1..Len(frames[k])
    BY <1>1
  <2> QED
    BY <1>1, <2>1 DEF OneEnd, HasEnd, HasTerminalFrame, LastFrame
<1>3. /\ Len(frames'[k]) = Len(frames[k]) + 1
      /\ frames'[k][Len(frames'[k])] = worker'[w].out
      /\ \A i \in 1..Len(frames'[k]) : i # Len(frames'[k]) => i \in 1..Len(frames[k]) /\ frames'[k][i] = frames[k][i]
  BY <1>1
<1> QED
  BY <1>2, <1>3 DEF OneEnd, HasEnd, LastFrame

LEMMA WorkerEndStands ==
    ASSUME TurnInv, EndInv, NEW w \in Workers, NEW k \in Requests, Key(w) = k, WorkerActs(w),
           HasRow(k), ~run[k].lease, UNCHANGED beat
    PROVE  EndStands(k)' /\ OneEnd(k)'
<1>0. StoreOK /\ Plain /\ NoCancels /\ Core /\ LockHeld /\ WorkerOK /\ frames \in [Keys -> Seq(FrameKinds)]
  BY TurnInvTypes DEF StoreOK, StoreTypeOK, RunTypeOK
<1>1. OwnStep(w, k) /\ worker[w].pc # "idle" /\ Key(w)' = k
  BY <1>0, WorkerActsOnOne, WorkerOwns DEF OwnStep, Key
<1>2. /\ EndStands(k) /\ OneEnd(k)
      /\ UNCHANGED frames \/ Reports(w, k)
  BY <1>0, WorkerReports DEF EndInv, Keys
<1>3. \A v \in Workers : v # w => worker'[v] = worker[v] /\ (worker[v].pc # "idle" => Key(v) # k)
  BY <1>0, <1>1, LockHeldExcludes DEF OwnStep, OneWorkerPerKey
<1>4. \A v \in Workers : worker'[v].pc # "idle" /\ Key(v)' = k => v = w
  BY <1>3 DEF Key
<1>5. CASE ~HasEnd(k) /\ UNCHANGED frames
  BY <1>2, <1>5 DEF EndStands, OneEnd, HasEnd, HasTerminalFrame, LastFrame
<1>6. CASE ~HasEnd(k) /\ Reports(w, k)
  <2>1. OneEnd(k)' /\ (HasEnd(k)' => worker'[w].out \notin PausedQueueStatuses)
    BY <1>0, <1>2, <1>6, WorkerWritesOneEnd
  <2>2. HasEnd(k)' => Finishing(w)'
    BY <1>6, <2>1 DEF Finishing, Reports
  <2> QED
    BY <1>1, <1>4, <2>1, <2>2 DEF EndStands
<1>7. CASE HasEnd(k) /\ Finishing(w)
  <2>1. UNCHANGED frames
    BY <1>2, <1>7 DEF Finishing, Reports
  <2>2. Finishing(w)' \/ (worker'[w].pc = "unlock" /\ EndedTurn(k)')
    BY <1>0, <1>7, WorkerFinishes
  <2> QED
    BY <1>1, <1>2, <1>4, <2>1, <2>2 DEF EndStands, OneEnd
<1>8. CASE HasEnd(k) /\ ~Finishing(w)
  <2>1. worker[w].pc \in {"check", "unlock"}
    BY <1>1, <1>2, <1>8 DEF EndStands
  <2>2. EndedTurn(k)
    <3>1. \A v \in Workers : Finishing(v) => worker[v].pc # "idle"
      BY DEF Finishing
    <3> QED
      BY <1>2, <1>3, <1>8, <3>1 DEF EndStands
  <2>3. WorkCheck(w)
    BY <2>1 DEF WorkerActs, WorkStep, WorkAborts, WorkEmitFails, WorkCheck, WorkEarlyRuns, WorkEarlyTurn, WorkStart,
                WorkCreate, WorkRevive, WorkApply, WorkHeartbeat, WorkRound, WorkSeesCancel, WorkDeadline, WorkFails,
                WorkAnswers, WorkFinalCheck, WorkSave, WorkEmit, WorkFinalRun, WorkFinalTurn
  <2>4. Goto(w, "unlock") /\ UNCHANGED <<frames, turn>>
    BY <2>2, <2>3 DEF WorkCheck, HasTurn, HasRow, EndedTurn, TerminalQueueStatuses
  <2>5. worker'[w].pc = "unlock" /\ EndedTurn(k)'
    BY <1>0, <2>2, <2>4, WorkerMoves DEF Moved, EndedTurn
  <2> QED
    BY <1>2, <1>4, <2>4, <2>5 DEF EndStands, OneEnd
<1> QED
  BY <1>2, <1>5, <1>6, <1>7, <1>8

LEMMA WorkersKeepStreams ==
    ASSUME TurnInv, EndInv, NEW w \in Workers, NEW k \in Requests, Key(w) = k, WorkerActs(w),
           UNCHANGED beat, \A r \in Requests : HasRow(r) => HasRow(r)'
    PROVE  EndInv'
<1>0. StoreOK /\ Plain /\ NoCancels /\ Core /\ LockHeld /\ WorkerOK /\ frames \in [Keys -> Seq(FrameKinds)]
  BY TurnInvTypes DEF StoreOK, StoreTypeOK, RunTypeOK
<1>1. OwnStep(w, k) /\ worker[w].pc # "idle" /\ UNCHANGED <<jobs, disp, beat>>
  BY <1>0, WorkerActsOnOne, WorkerOwns DEF OwnStep
<1>2. HasRow(k) /\ ~run[k].lease /\ k \notin beat.stale /\ Secluded(k)
  BY <1>1 DEF EndInv, Secluded, Gone, Deserted
<1>3. \A v \in Workers : Key(v)' = Key(v) /\ (v # w => worker'[v] = worker[v])
  BY <1>1 DEF OwnStep, Key
<1>4. Secluded(k)'
  <2>1. ~run'[k].lease
    BY <1>0, <1>2, WorkersLeaveLeases
  <2>2. ActiveRun(k)' => ~Waiting(k)'
    <3>1. OwnRows(w, k) /\ WaitsAlone(k)
      BY <1>0, <1>1 DEF OwnStep, Core
    <3> QED
      BY <1>2, <3>1 DEF OwnRows, WaitsAlone, Carried, Secluded
  <2> QED
    BY <1>1, <1>2, <2>1, <2>2 DEF Secluded
<1>5. ASSUME NEW q \in Requests, q # k
      PROVE  Secluded(q)' /\ EndStands(q)' /\ OneEnd(q)'
  <2>1. turn'[q] = turn[q] /\ run'[q] = run[q] /\ frames'[q] = frames[q]
    BY <1>0, <1>1, <1>5, WorkersWriteTheirStream DEF OwnStep
  <2>2. Deserted(q)' <=> Deserted(q)
    BY <1>1, <1>3, <1>5 DEF Deserted, Submits
  <2>3. Secluded(q)'
    BY <1>1, <2>1, <2>2 DEF EndInv, Secluded, Gone, ActiveRun, Waiting, HasRow
  <2>4. \A v \in Workers : Key(v) = q => (Finishing(v)' <=> Finishing(v)) /\ worker'[v] = worker[v]
    BY <1>3, <1>5 DEF Finishing
  <2>5. EndStands(q) /\ OneEnd(q)
    BY <1>5 DEF EndInv, Keys
  <2>6. /\ HasEnd(q)' <=> HasEnd(q)
        /\ EndedTurn(q)' <=> EndedTurn(q)
        /\ OneEnd(q)'
    BY <2>1, <2>5 DEF HasEnd, HasTerminalFrame, LastFrame, EndedTurn, OneEnd
  <2>7. EndStands(q)'
    BY <1>3, <2>1, <2>4, <2>5, <2>6 DEF EndStands
  <2> QED
    BY <2>3, <2>6, <2>7
<1>6. EndStands(k)' /\ OneEnd(k)'
  BY <1>1, <1>2, WorkerEndStands
<1>7. OneEnd(Anon)'
  <2>1. frames'[Anon] = frames[Anon]
    BY <1>0, WorkerReports, AnonAssumption DEF Reports, Keys
  <2> QED
    BY <2>1 DEF EndInv, OneEnd, Keys
<1>8. BeatCloses'
  <2>1. beat.pc = "close" => beat.key # k
    BY <1>2 DEF EndInv, BeatCloses
  <2> QED
    BY <1>1, <2>1 DEF EndInv, BeatCloses, OwnStep
<1> QED
  BY <1>4, <1>5, <1>6, <1>7, <1>8 DEF EndInv, Keys

\* A worker that takes a job only looks at the queue.
LEMMA TakeKeepsStreams ==
    ASSUME EndInv, WorkerOK, NEW w \in Workers, NEW job \in jobs, NEW redelivered, job.key \in Requests,
           WorkTake(w, job, redelivered), LockIsFree(job.key), UNCHANGED beat
    PROVE  EndInv'
<1>1. /\ jobs' \subseteq jobs /\ worker[w].pc = "idle" /\ UNCHANGED <<run, frames, turn, disp>>
      /\ worker' = [worker EXCEPT ![w] = [pc |-> "check", job |-> job, out |-> "none"]]
  BY DEF WorkTake, StoreVars
<1>2. /\ worker'[w].pc = "check" /\ Key(w)' = job.key
      /\ \A v \in Workers : v # w => worker'[v] = worker[v] /\ Key(v)' = Key(v)
  BY <1>1 DEF WorkerOK, Key
<1>3. Bystanding
  BY <1>1, <1>2 DEF Bystanding, Finishing
<1>4. \A r \in Requests : QuietRow(r)
  BY <1>1, SameRowIsQuiet
<1>5. Secluded(job.key)'
  <2>1. ~Deserted(job.key) /\ Secluded(job.key)
    BY DEF Deserted, EndInv
  <2> QED
    BY <1>1, <2>1 DEF Secluded, Gone, Waiting, HasRow, ActiveRun
<1>6. ASSUME NEW r \in Requests, r # job.key, Deserted(r)
      PROVE  Deserted(r)'
  BY <1>1, <1>2, <1>6 DEF Deserted, Submits
<1> QED
  BY <1>1, <1>3, <1>4, <1>5, <1>6, OnlyOneMoves
-----------------------------------------------------------------------------
(* The beat and recovery. *)

Settled(r) == Secluded(r) /\ EndStands(r) /\ OneEnd(r)

LEMMA EndInvMeans == EndInv <=> BeatCloses /\ (\A r \in Requests : Settled(r)) /\ OneEnd(Anon)
BY DEF EndInv, Settled, Keys

LEMMA BystandersDesert ==
    ASSUME Bystanders
    PROVE  \A r \in Requests : Deserted(r) => Deserted(r)'
BY StaysDeserted DEF Bystanders

LEMMA UntouchedSettles ==
    ASSUME Bystanders, NEW r \in Requests, Settled(r), turn'[r] = turn[r], run'[r] = run[r], frames'[r] = frames[r]
    PROVE  Settled(r)'
<1>1. QuietRow(r) /\ Bystanding /\ (r \in beat'.stale => r \in beat.stale)
  BY SameRowIsQuiet DEF Bystanders, Bystanding
<1>2. Secluded(r)'
  BY <1>1, BystandersDesert, QuietStaysSecluded DEF Settled
<1>3. EndStands(r)'
  BY <1>1, QuietEndStands DEF Settled
<1> QED
  BY <1>2, <1>3 DEF Settled, OneEnd

\* The end of a run that everybody has left.
EndsQuietly(r) ==
    /\ Deserted(r) /\ HasRow(r)' /\ ~Waiting(r)'
    /\ run'[r].lease => run'[r].status \in {"failed", "cancelled"}
    /\ HasEnd(r)' => run'[r].lease \/ EndedTurn(r)'
    /\ frames'[r] = frames[r] \/ (~HasTerminalFrame(r) /\ \E frame : frames'[r] = <<frame>>)

LEMMA QuietEndSettles ==
    ASSUME Bystanders, NEW r \in Requests, Settled(r), EndsQuietly(r)
    PROVE  Settled(r)'
<1>1. Deserted(r)'
  BY BystandersDesert DEF EndsQuietly
<1>2. Secluded(r)'
  BY <1>1 DEF EndsQuietly, Secluded, Gone
<1>3. EndStands(r)'
  BY <1>1 DEF EndsQuietly, EndStands, Deserted
<1>4. OneEnd(r)'
  <2>1. CASE frames'[r] = frames[r]
    BY <2>1 DEF Settled, OneEnd
  <2>2. ASSUME NEW frame, frames'[r] = <<frame>>
        PROVE  OneEnd(r)'
    BY <2>2 DEF OneEnd
  <2> QED
    BY <2>1, <2>2 DEF EndsQuietly
<1> QED
  BY <1>2, <1>3, <1>4 DEF Settled

LEMMA TerminalRunsKeepStreams ==
    ASSUME StoreOK, Core, EndInv, Bystanders, NEW closing, RecoverTerminalRuns(closing),
           beat'.pc = "close" => UNCHANGED beat
    PROVE  EndInv'
<1>0. /\ run \in [Requests -> RunRows] /\ turn \in [Requests -> TurnRows] /\ frames \in [Keys -> Seq(FrameKinds)]
      /\ BeatCloses /\ (\A r \in Requests : Settled(r)) /\ OneEnd(Anon)
  BY EndInvMeans DEF StoreOK, StoreTypeOK, RunTypeOK, TurnTypeOK
<1>1. ASSUME NEW r \in Requests, ~Orphaned(r)
      PROVE  run'[r] = run[r] /\ Settled(r)'
  <2>1. turn'[r] = turn[r] /\ run'[r] = run[r] /\ frames'[r] = frames[r]
    BY <1>1 DEF RecoverTerminalRuns, Keys
  <2> QED
    BY <1>0, <2>1, UntouchedSettles
<1>2. ASSUME NEW r \in Requests, Orphaned(r)
      PROVE  ~run[r].lease /\ EndsQuietly(r)
  <2>1. ActiveRun(r) /\ run[r].beat # "fresh" /\ EndedTurn(r)
    BY <1>2 DEF Orphaned, ActiveRun, ActiveRunStatuses, WorkerRunStatuses, OlderThanTen, EndedTurn
  <2>2. Deserted(r)
    BY <2>1 DEF Core, Silent, Deserted
  <2>3. ~run[r].lease
    BY <1>0, <2>1 DEF Settled, Secluded, ActiveRun, ActiveRunStatuses
  <2>4. /\ run'[r] = ReconciledRun(r, closing)
        /\ turn'[r] = FinishedTurn(turn[r], TurnOutcome(OrphanOutcome(r)))
        /\ frames'[r] = IF ~HasTerminalFrame(r) /\ closing = "stream" THEN <<CloseFrame(OrphanOutcome(r))>> ELSE frames[r]
    BY <1>2 DEF RecoverTerminalRuns, Keys
  <2>5. turn'[r].status = FinishStatus(TurnOutcome(OrphanOutcome(r)))
    BY <1>0, <2>4 DEF FinishedTurn, TurnRows
  <2>6. HasRow(r)' /\ ~Waiting(r)'
    BY <2>5 DEF HasRow, Waiting, FinishStatus, TerminalQueueStatuses, PausedQueueStatuses
  <2>7. CASE HasTerminalFrame(r)
    <3>1. ~run'[r].lease /\ frames'[r] = frames[r]
      BY <1>0, <2>3, <2>4, <2>7 DEF ReconciledRun, FinishedRun, RunRows
    <3>2. ASSUME HasEnd(r)'
          PROVE  EndedTurn(r)'
      <4>1. LastFrame(r) \in FrameKinds /\ LastFrame(r) \notin PausedQueueStatuses
        BY <1>0, <2>7, <3>1, <3>2 DEF HasEnd, HasTerminalFrame, LastFrame, Keys
      <4>2. OrphanOutcome(r) \in DoneStatuses \ PausedQueueStatuses
        BY <2>7, <4>1 DEF OrphanOutcome, FrameKinds, DoneStatuses, PausedQueueStatuses
      <4> QED
        BY <2>5, <4>2 DEF EndedTurn, FinishStatus, TurnOutcome, DoneStatuses, PausedQueueStatuses, TerminalQueueStatuses
    <3> QED
      BY <2>2, <2>3, <2>6, <3>1, <3>2 DEF EndsQuietly
  <2>8. CASE ~HasTerminalFrame(r)
    <3>1. OrphanOutcome(r) \in {"failed", "cancelled"}
      BY <2>8 DEF OrphanOutcome
    <3>2. run'[r].status \in {"failed", "cancelled"} /\ run'[r].lease
      BY <1>0, <2>4, <2>8, <3>1 DEF ReconciledRun, FinishedRun, RunRows
    <3> QED
      BY <2>2, <2>3, <2>4, <2>6, <2>8, <3>2 DEF EndsQuietly
  <2> QED
    BY <2>7, <2>8
<1>3. \A r \in Requests : Settled(r)'
  BY <1>0, <1>1, <1>2, QuietEndSettles
<1>4. OneEnd(Anon)'
  <2>1. frames'[Anon] = frames[Anon]
    BY AnonAssumption DEF RecoverTerminalRuns, Keys
  <2> QED
    BY <1>0, <2>1 DEF OneEnd
<1>5. BeatCloses'
  <2>1. \A r \in Requests : run[r].lease => run'[r] = run[r]
    BY <1>1, <1>2
  <2> QED
    BY <1>0, <2>1 DEF BeatCloses
<1> QED
  BY <1>3, <1>4, <1>5 DEF EndInv, Settled, Keys

LEMMA ClaimsKeepStreams ==
    ASSUME StoreOK, Core, EndInv, Bystanders, NEW closing, RecoverClaims(closing),
           beat'.pc = "close" => UNCHANGED beat
    PROVE  EndInv'
<1>0. /\ run \in [Requests -> RunRows] /\ turn \in [Requests -> TurnRows]
      /\ BeatCloses /\ (\A r \in Requests : Settled(r)) /\ OneEnd(Anon)
  BY EndInvMeans DEF StoreOK, StoreTypeOK, RunTypeOK, TurnTypeOK
<1>1. ASSUME NEW r \in Requests
      PROVE  run'[r].status = run[r].status /\ run'[r].lease = run[r].lease
  <2>1. run[r] \in RunRows
    BY <1>0
  <2>2. run'[r] = run[r] \/ \E msg : run'[r] = [run[r] EXCEPT !.msg = msg]
    BY DEF RecoverClaims
  <2>3. ASSUME NEW msg, run'[r] = [run[r] EXCEPT !.msg = msg]
        PROVE  run'[r].status = run[r].status /\ run'[r].lease = run[r].lease
    BY <2>1, <2>3 DEF RunRows
  <2> QED
    BY <2>2, <2>3
<1>2. ASSUME NEW r \in Requests, RunIsActive \/ r \notin StaleClaims
      PROVE  Settled(r)'
  <2>1. turn'[r] = turn[r] /\ run'[r] = run[r] /\ frames'[r] = frames[r]
    BY <1>2 DEF RecoverClaims, Keys
  <2> QED
    BY <1>0, <2>1, UntouchedSettles
<1>3. ASSUME NEW r \in Requests, ~RunIsActive, r \in StaleClaims
      PROVE  Settled(r)'
  <2>1. Claimed(r) /\ ~ActiveRun(r) /\ ~ActiveRun(r)' /\ ~EndedTurn(r)
    BY <1>1, <1>3 DEF StaleClaims, InStatus, Claimed, RunIsActive, ActiveRun, EndedTurn, TerminalQueueStatuses
  <2>2. r \notin beat.stale /\ r \notin beat'.stale
    BY <2>1 DEF Core, BeatIsRight, Bystanders
  <2>3. turn'[r] = RecoveredTurn(r) /\ turn[r] \in TurnRows
    BY <1>0, <1>3 DEF RecoverClaims
  <2>4. HasRow(r)'
    BY <2>3 DEF RecoveredTurn, FinishedTurn, FinishStatus, Requeued, TurnRows, TerminalQueueStatuses, HasRow
  <2>5. run[r].lease => EndedTurn(r)' /\ run[r].status \in {"failed", "cancelled"} /\ Deserted(r)
    <3>1. ASSUME run[r].status \in {"failed", "cancelled"}
          PROVE  EndedTurn(r)'
      BY <2>3, <3>1 DEF RecoveredTurn, FinishedTurn, FinishStatus, TurnRows, TerminalQueueStatuses, EndedTurn
    <3> QED
      BY <1>0, <3>1 DEF Settled, Secluded, Gone
  <2>6. CASE run[r].lease
    <3>1. ~Waiting(r)'
      BY <2>5, <2>6 DEF EndedTurn, Waiting, TerminalQueueStatuses
    <3>2. frames'[r] = frames[r] \/ (~HasTerminalFrame(r) /\ \E frame : frames'[r] = <<frame>>)
      BY <1>3 DEF RecoverClaims, Keys, OwesTerminalFrame
    <3>3. EndsQuietly(r)
      BY <1>1, <2>4, <2>5, <2>6, <3>1, <3>2 DEF EndsQuietly
    <3> QED
      BY <1>0, <3>3, QuietEndSettles
  <2>7. CASE ~run[r].lease
    <3>1. frames'[r] = frames[r] /\ ~run'[r].lease
      BY <1>1, <1>3, <2>7 DEF RecoverClaims, Keys, OwesTerminalFrame
    <3>2. Secluded(r)'
      BY <2>1, <2>2, <2>4, <3>1 DEF Secluded
    <3>3. EndStands(r)'
      <4>1. /\ HasEnd(r)' <=> HasEnd(r)
            /\ \A w \in Workers : worker'[w] = worker[w] /\ Key(w)' = Key(w) /\ (Finishing(w)' <=> Finishing(w))
        BY <3>1 DEF HasEnd, HasTerminalFrame, LastFrame, Bystanders, Key, Finishing
      <4> QED
        BY <1>0, <2>1, <2>7, <4>1 DEF Settled, EndStands
    <3> QED
      BY <1>0, <3>1, <3>2, <3>3 DEF Settled, OneEnd
  <2> QED
    BY <2>6, <2>7
<1>4. OneEnd(Anon)'
  <2>1. Anon \notin StaleClaims
    BY AnonAssumption DEF StaleClaims, InStatus
  <2>2. frames'[Anon] = frames[Anon]
    BY <2>1 DEF RecoverClaims, Keys
  <2> QED
    BY <1>0, <2>2 DEF OneEnd
<1>5. BeatCloses'
  BY <1>0, <1>1 DEF BeatCloses
<1> QED
  BY <1>2, <1>3, <1>4, <1>5 DEF EndInv, Settled, Keys

LEMMA ExpireKeepsStreams ==
    ASSUME StoreOK, EndInv, BeatTypeOK, NEW r \in Requests, ExpireLease(r), UNCHANGED <<jobs, worker, disp>>
    PROVE  EndInv'
<1>0. /\ run \in [Requests -> RunRows] /\ r \in beat.stale /\ UNCHANGED <<turn, frames>>
      /\ beat' = [beat EXCEPT !.pc = "close", !.key = r, !.stale = @ \ {r}]
      /\ Bystanders
      /\ (\A q \in Requests : Settled(q)) /\ OneEnd(Anon)
  BY EndInvMeans DEF StoreOK, StoreTypeOK, RunTypeOK, ExpireLease, BeatTypeOK, Bystanders
<1>1. /\ run'[r].status \in {"cancelled", "failed"} /\ run'[r].lease
      /\ \A q \in Requests : q # r => run'[q] = run[q]
  <2>1. \A status : LET row == [FinishedRun(run[r], status) EXCEPT
                        !.lease = TRUE, !.msg = ClosedMessage(@, status)]
                    IN  row.status = status /\ row.lease
    BY <1>0 DEF FinishedRun, RunRows
  <2> QED
    BY <1>0, <2>1 DEF ExpireLease, LeaseOutcome
<1>2. Settled(r)'
  <2>1. Gone(r) /\ (HasRow(r)' <=> HasRow(r)) /\ (Waiting(r)' <=> Waiting(r))
    BY <1>0 DEF Settled, Secluded, HasRow, Waiting
  <2>2. HasRow(r)
    BY <2>1 DEF Gone, Waiting, HasRow
  <2> QED
    BY <1>0, <1>1, <2>1, <2>2, QuietEndSettles DEF Gone, EndsQuietly
<1>3. \A q \in Requests : q # r => Settled(q)'
  BY <1>0, <1>1, UntouchedSettles
<1>4. OneEnd(Anon)'
  BY <1>0 DEF OneEnd
<1>5. BeatCloses'
  <2>1. beat'.key = r
    BY <1>0 DEF ExpireLease, BeatTypeOK
  <2> QED
    BY <1>1, <2>1 DEF BeatCloses
<1> QED
  BY <1>2, <1>3, <1>4, <1>5 DEF EndInv, Settled, Keys

LEMMA CloseKeepsStreams ==
    ASSUME EndInv, BeatTypeOK, CloseExpired, frames \in [Keys -> Seq(FrameKinds)],
           NEW r \in Requests, beat.key = r, UNCHANGED <<jobs, worker, disp>>
    PROVE  EndInv'
<1>0. /\ run[r].lease /\ UNCHANGED <<turn, run>>
      /\ beat' = [beat EXCEPT !.pc = "runs", !.key = None]
      /\ (\A q \in Requests : Settled(q)) /\ OneEnd(Anon)
  BY EndInvMeans DEF CloseExpired, BeatCloses
<1>1. beat'.stale = beat.stale /\ beat'.pc = "runs"
  BY <1>0 DEF BeatTypeOK
<1>2. Bystanders
  BY <1>1 DEF Bystanders
<1>3. /\ frames'[r] = frames[r] \/ (~HasTerminalFrame(r) /\ \E frame : frames'[r] = <<frame>>)
      /\ \A k \in Keys : k # r => frames'[k] = frames[k]
  BY DEF CloseExpired, Keys
<1>4. Settled(r)'
  <2>1. Gone(r) /\ run[r].status \in {"failed", "cancelled"}
    BY <1>0 DEF Settled, Secluded
  <2>2. HasRow(r)' /\ ~Waiting(r)' /\ Deserted(r)
    BY <1>0, <2>1 DEF Gone, Waiting, HasRow
  <2> QED
    BY <1>0, <1>2, <1>3, <2>1, <2>2, QuietEndSettles DEF EndsQuietly
<1>5. \A q \in Requests : q # r => Settled(q)'
  BY <1>0, <1>2, <1>3, UntouchedSettles DEF Keys
<1>6. OneEnd(Anon)'
  BY <1>0, <1>3, AnonAssumption DEF OneEnd, Keys
<1> QED
  BY <1>1, <1>4, <1>5, <1>6 DEF BeatCloses, EndInv, Settled, Keys

LEMMA BeatKeepsStreams ==
    ASSUME TurnInv, EndInv, BeatStep, UNCHANGED <<disp, worker>>
    PROVE  EndInv'
<1>0. StoreOK /\ Core /\ BeatTypeOK /\ frames \in [Keys -> Seq(FrameKinds)]
  BY TurnInvTypes DEF StoreOK, StoreTypeOK, RunTypeOK
<1>1. ASSUME NEW from, NEW to, to # "close", BeatGoto(from, to)
      PROVE  beat'.stale = {} /\ beat'.pc # "close"
  BY <1>1 DEF BeatGoto, IdleBeat
<1>2. CASE BeatStarts \/ NoLeaseExpired \/ BeatFailurePause \/ BeatWake
  <2>1. UNCHANGED <<run, turn, frames, jobs>>
    BY <1>2 DEF BeatStarts, NoLeaseExpired, BeatFailurePause, BeatWake, ResumeAfterFailure, StoreVars
  <2>2. beat'.pc # "close" /\ \A r \in beat'.stale : LeaseExpired(r)
    <3>1. CASE BeatStarts
      BY <3>1 DEF BeatStarts, IdleBeat
    <3> QED
      BY <1>1, <1>2, <3>1 DEF NoLeaseExpired, BeatFailurePause, BeatWake
  <2>3. \A r \in Requests : QuietRow(r)
    BY <2>1, SameRowIsQuiet
  <2> QED
    BY <1>0, <2>1, <2>2, <2>3, QuietStep
<1>3. CASE CloseExpired
  <2>1. beat.key \in Requests /\ UNCHANGED jobs
    BY <1>3 DEF CloseExpired, EndInv, BeatCloses
  <2> QED
    BY <1>0, <1>3, <2>1, CloseKeepsStreams
<1>4. CASE BeatTerminalRuns
  <2>1. Bystanders /\ beat'.pc # "close" /\ \E closing \in Closings : RecoverTerminalRuns(closing)
    BY <1>1, <1>4 DEF BeatTerminalRuns, Bystanders
  <2> QED
    BY <1>0, <2>1, TerminalRunsKeepStreams
<1>5. CASE BeatClaims
  <2>1. Bystanders /\ beat'.pc # "close" /\ \E closing \in Closings : RecoverClaims(closing)
    BY <1>1, <1>5 DEF BeatClaims, Bystanders
  <2> QED
    BY <1>0, <2>1, ClaimsKeepStreams
<1>6. ASSUME NEW r \in Requests, ExpireLease(r)
      PROVE  EndInv'
  BY <1>0, <1>6, ExpireKeepsStreams DEF ExpireLease
<1> QED
  BY <1>2, <1>3, <1>4, <1>5, <1>6 DEF BeatStep

LEMMA DispatchersKeepStreams ==
    ASSUME TurnInv, EndInv, NEW d \in Dispatchers, DispStep(d), UNCHANGED <<worker, beat>>
    PROVE  EndInv'
<1>0. /\ StoreOK /\ Core /\ turn \in [Requests -> TurnRows]
      /\ disp \in [Dispatchers -> [pc : DispPcs, key : Requests \cup {None}]]
      /\ disp[d].pc = "submit" => disp[d].key \in Requests
  BY TurnInvTypes
<1>1. ASSUME NEW pc, pc # "submit", DispGoto(d, pc) \/ disp' = [disp EXCEPT ![d] = IdleDispatcher]
      PROVE  \A e \in Dispatchers : disp'[e].pc = "submit" => disp'[e] = disp[e]
  BY <1>0, <1>1 DEF DispGoto, IdleDispatcher
<1>2. CASE DispTake(d) \/ DispResume(d) \/ DispFindsNothing(d)
  <2>1. /\ UNCHANGED <<run, turn, frames, jobs>>
        /\ \E pc : pc # "submit" /\ (DispGoto(d, pc) \/ disp' = [disp EXCEPT ![d] = IdleDispatcher])
    BY <1>2 DEF DispTake, DispResume, DispFindsNothing, ResumeAfterFailure, StoreVars
  <2>2. \A r \in Requests : QuietRow(r)
    BY <2>1, SameRowIsQuiet
  <2> QED
    BY <1>0, <1>1, <2>1, <2>2, QuietStep
<1>3. CASE DispTerminalRuns(d)
  <2>1. Bystanders /\ \E closing \in Closings : RecoverTerminalRuns(closing)
    BY <1>1, <1>3 DEF DispTerminalRuns, Bystanders
  <2> QED
    BY <1>0, <2>1, TerminalRunsKeepStreams
<1>4. CASE DispClaims(d)
  <2>1. Bystanders /\ \E closing \in Closings : RecoverClaims(closing)
    BY <1>1, <1>4 DEF DispClaims, Bystanders
  <2> QED
    BY <1>0, <2>1, ClaimsKeepStreams
<1>5. CASE DispClaim(d)
  BY <1>0, <1>5, ClaimKeepsStreams
<1>6. CASE DispSubmit(d) \/ DispRelease(d)
  <2>1. disp[d].key \in Requests
    BY <1>0, <1>6 DEF DispSubmit, DispRelease
  <2> QED
    BY <1>0, <1>6, <2>1, SubmitKeepsStreams, ReleaseKeepsStreams
<1> QED
  BY <1>2, <1>3, <1>4, <1>5, <1>6 DEF DispStep

LEMMA EndStep ==
    ASSUME OrderlyUse, "crash" \notin Failures, TurnInv, EndInv, [Next]_vars
    PROVE  EndInv'
<1>0. /\ StoreOK /\ Plain /\ NoCancels /\ Core /\ WorkerOK
      /\ run \in [Requests -> RunRows] /\ turn \in [Requests -> TurnRows]
  BY TurnInvTypes DEF StoreOK
<1>r. \A r \in Requests : HasRow(r) => HasRow(r)'
  BY RowsRemain
<1>1. ASSUME NEW c \in Clients, ApiStep(c) \/ ApiFinishes(c), UNCHANGED <<disp, worker, beat>>
      PROVE  EndInv'
  <2>1. ASSUME NEW r \in Requests, Answer(c, r)
        PROVE  EndInv'
    BY <1>1, <2>1, AnswerKeepsEnds
  <2>2. ASSUME UNCHANGED jobs, NEW closing, RecoverTerminalRuns(closing) \/ RecoverClaims(closing)
        PROVE  EndInv'
    <3>1. Bystanders
      BY <1>1, <2>2 DEF Bystanders
    <3> QED
      BY <1>0, <1>1, <2>2, <3>1, TerminalRunsKeepStreams, ClaimsKeepStreams
  <2>3. ASSUME CalmStep, UNCHANGED frames, \A r \in Requests : run'[r] \in {run[r], CancelRequested(run[r])}
        PROVE  EndInv'
    <3>1. ASSUME NEW r \in Requests
          PROVE  QuietRow(r)
      <4>1. run'[r].lease = run[r].lease /\ (run[r].lease => run'[r].status = run[r].status)
        BY <1>0, <2>3, CancelsAreQuiet
      <4> QED
        BY <1>r, <2>3, <4>1 DEF QuietRow, CalmStep, CalmTurn, CalmRun
    <3> QED
      BY <1>0, <1>1, <2>3, <3>1, QuietStep DEF CalmStep
  <2>4. \/ CalmStep
        \/ \E r \in Requests : Answer(c, r)
        \/ UNCHANGED jobs /\ \E closing : RecoverTerminalRuns(closing) \/ RecoverClaims(closing)
    BY <1>0, <1>1, HandlersAreCalm
  <2> QED
    BY <1>0, <1>1, <2>1, <2>2, <2>3, <2>4, HandlersWrite
<1>2. ASSUME NEW w \in Workers, WorkerActs(w), UNCHANGED beat
      PROVE  EndInv'
  BY <1>0, <1>r, <1>2, WorkerActsOnOne, WorkersKeepStreams
<1>3. ASSUME NEW w \in Workers, WorkUnlock(w), UNCHANGED <<disp, beat>>
      PROVE  EndInv'
  <2>1. /\ UNCHANGED <<run, turn, frames, jobs>> /\ worker' = [worker EXCEPT ![w] = IdleWorker]
        /\ worker[w].pc = "unlock"
    BY <1>3 DEF WorkUnlock, StoreVars
  <2>2. \A v \in Workers : worker'[v] = worker[v] \/ (worker'[v].pc = "idle" /\ ~Finishing(v))
    BY <1>0, <2>1 DEF WorkerOK, IdleWorker, Finishing
  <2>3. \A r \in Requests : QuietRow(r)
    BY <2>1, SameRowIsQuiet
  <2> QED
    BY <1>0, <1>3, <2>1, <2>2, <2>3, QuietStep
<1>4. ASSUME NEW w \in Workers, NEW job \in jobs, NEW redelivered \in BOOLEAN,
             WorkTake(w, job, redelivered), UNCHANGED <<disp, beat>>
      PROVE  EndInv'
  <2>1. job.key \in Requests
    BY <1>0 DEF Plain, PlainJob
  <2>2. CASE LockIsFree(job.key)
    BY <1>0, <1>4, <2>1, <2>2, TakeKeepsStreams
  <2>3. CASE ~LockIsFree(job.key)
    <3>1. UNCHANGED <<run, turn, frames, worker>> /\ jobs' \subseteq jobs
      BY <1>4, <2>3 DEF WorkTake, StoreVars
    <3>2. \A r \in Requests : QuietRow(r)
      BY <3>1, SameRowIsQuiet
    <3> QED
      BY <1>0, <1>4, <3>1, <3>2, QuietStep
  <2> QED
    BY <2>2, <2>3
<1>5. ASSUME NEW r \in Requests, TurnAges(r) \/ EndAges(r) \/ LeaseAges(r), UNCHANGED <<jobs, disp, worker, beat>>
      PROVE  EndInv'
  <2>1. UNCHANGED frames
    BY <1>5 DEF TurnAges, EndAges, LeaseAges
  <2>2. \A q \in Requests : /\ turn'[q].status = turn[q].status
                            /\ run'[q].status = run[q].status /\ run'[q].lease = run[q].lease
    <3>1. CASE TurnAges(r) \/ EndAges(r)
      BY <1>0, <3>1 DEF TurnAges, EndAges, TurnRows
    <3>2. CASE LeaseAges(r)
      BY <1>0, <3>2 DEF LeaseAges, RunRows
    <3> QED
      BY <1>5, <3>1, <3>2
  <2>3. \A q \in Requests : QuietRow(q)
    BY <2>2, SameRowIsQuiet
  <2> QED
    BY <1>0, <1>5, <2>1, <2>3, QuietStep
<1>6. CASE UNCHANGED <<run, frames, turn, jobs, marker, disp, worker, api, beat>>
  <2>1. \A r \in Requests : QuietRow(r)
    BY <1>6, SameRowIsQuiet
  <2> QED
    BY <1>0, <1>6, <2>1, QuietStep
<1>7. ~Crash
  BY DEF Crash
<1> QED
  BY <1>1, DispatchersKeepStreams, <1>2, <1>3, <1>4, BeatKeepsStreams, <1>5, <1>6, <1>7, NextCases

\* A stream reports one end, whatever fails in a task, is delivered twice or is
\* recovered: while no process dies, nobody comes back to a stream that has ended.
THEOREM StreamsEndOnce ==
    ASSUME OrderlyUse, "crash" \notin Failures
    PROVE  Spec => []StreamEndsOnce
<1>1. Init => EndInv
  <2> SUFFICES ASSUME Init PROVE EndInv
    OBVIOUS
  <2>1. \A r \in Requests : ~run[r].lease /\ ~ActiveRun(r) /\ Deserted(r) /\ r \notin beat.stale
    BY DEF Init, RunInit, NoRun, ActiveRun, ActiveRunStatuses, Deserted, WorkersInit, IdleWorker, BrokerInit,
           IdleDispatcher, Submits, BeatInit, IdleBeat
  <2>2. \A k \in Keys : frames[k] = <<>>
    BY DEF Init, RunInit
  <2>3. BeatCloses
    BY DEF Init, BeatInit, IdleBeat, BeatCloses
  <2> QED
    BY <2>1, <2>2, <2>3 DEF EndInv, Secluded, EndStands, OneEnd, HasEnd, HasTerminalFrame, Keys
<1>2. EndInv => StreamEndsOnce
  BY DEF EndInv, OneEnd, StreamEndsOnce
<1> QED
  BY <1>1, <1>2, TurnInvariant, EndStep, PTL DEF Spec
=============================================================================
