-------------------------- MODULE DeepSpaceLedgerProofs --------------------------
(***************************************************************************)
(* The processes of a conversation implement TurnLedger: every step of     *)
(* DeepSpaceRuntime is one of the ledger's, which needs two facts that the *)
(* earlier invariants do not say: nothing counts as answered that was not  *)
(* executed (Started), and a run outlives its turn only if the turn was    *)
(* cancelled (Lingers).                                                    *)
(***************************************************************************)
EXTENDS DeepSpaceOutcomeProofs

-----------------------------------------------------------------------------
(* Runs that have started. *)

HasRun(r) == run[r].status # "none"
Answered(r) == run[r].msg \in {"ready", "blocked"}

\* A worker that has executed its run.
Executed(w) == \/ worker[w].pc \in {"final_check", "save"}
               \/ worker[w].pc # "idle" /\ worker[w].out \in {"ready", "blocked"}

\* Nothing is reported as answered, and nothing expires, that was not executed.
Started ==
    /\ \A r \in Requests : Answered(r) => HasRun(r)
    /\ \A w \in Workers : Executed(w) => HasRun(Key(w))
    /\ \A r \in beat.stale : HasRun(r)

\* What every step but the creation of a run does to it.
KeepsRun(r) == /\ HasRun(r)' <=> HasRun(r)
               /\ Answered(r)' => Answered(r) \/ HasRun(r)

LEMMA SameRunKeeps ==
    ASSUME NEW r, run'[r].status = run[r].status, run'[r].msg = run[r].msg
    PROVE  KeepsRun(r)
BY DEF KeepsRun, HasRun, Answered

LEMMA LiveRunKeeps ==
    ASSUME NEW r, HasRun(r), run'[r].status # "none"
    PROVE  KeepsRun(r)
BY DEF KeepsRun, HasRun

\* Recovery ends runs that are alive, and closes messages of runs that have ended.
LEMMA RecoveryKeepsRuns ==
    ASSUME StoreOK, NEW closing, RecoverTerminalRuns(closing) \/ RecoverClaims(closing)
    PROVE  \A r \in Requests : KeepsRun(r)
<1> SUFFICES ASSUME NEW r \in Requests PROVE KeepsRun(r)
  OBVIOUS
<1>0. StoreTypeOK /\ run[r] \in RunRows
  BY DEF StoreOK, StoreTypeOK, RunTypeOK
<1>1. CASE RecoverTerminalRuns(closing)
  <2>1. CASE Orphaned(r)
    <3>1. HasRun(r)
      BY <2>1 DEF Orphaned, WorkerRunStatuses, HasRun
    <3>2. run'[r] = ReconciledRun(r, closing)
      BY <1>1, <2>1 DEF RecoverTerminalRuns
    <3>3. ReconciledRun(r, closing).status = OrphanOutcome(r)
      BY <1>0 DEF ReconciledRun, FinishedRun, RunRows
    <3>4. OrphanOutcome(r) # "none"
      BY <1>0, OrphanOutcomeType DEF RunStatuses, ActiveRunStatuses
    <3> QED
      BY <3>1, <3>2, <3>3, <3>4, LiveRunKeeps
  <2>2. CASE ~Orphaned(r)
    BY <1>1, <2>2, SameRunKeeps DEF RecoverTerminalRuns
  <2> QED
    BY <2>1, <2>2
<1>2. CASE RecoverClaims(closing)
  <2>1. CASE run'[r] = run[r]
    BY <2>1, SameRunKeeps
  <2>2. CASE run'[r] # run[r]
    <3>1. OwesTerminalFrame(r) /\ run'[r] = [run[r] EXCEPT !.msg = ClosedMessage(run[r].msg, run[r].status)]
      BY <1>2, <2>2 DEF RecoverClaims
    <3>2. HasRun(r)
      BY <3>1 DEF OwesTerminalFrame, HasRun
    <3>3. run'[r].status = run[r].status
      BY <1>0, <3>1, RunWrites
    <3> QED
      BY <3>2, <3>3, LiveRunKeeps DEF HasRun
  <2> QED
    BY <2>1, <2>2
<1> QED
  BY <1>1, <1>2

LEMMA HandlersKeepRuns ==
    ASSUME OrderlyUse, StoreOK, Plain, Core, NEW c \in Clients, ApiStep(c) \/ ApiFinishes(c)
    PROVE  \A r \in Requests : KeepsRun(r)
<1>0. run \in [Requests -> RunRows]
  BY DEF StoreOK, StoreTypeOK, RunTypeOK
<1>1. ASSUME NEW k \in Requests, Answer(c, k)
      PROVE  \A r \in Requests : KeepsRun(r)
  <2> SUFFICES ASSUME NEW r \in Requests PROVE KeepsRun(r)
    OBVIOUS
  <2>1. run[k].status = "awaiting_user" /\ run' = [run EXCEPT ![k] = QuestionClaimed(run[k])]
    BY <1>1, AnswerDoes
  <2>2. QuestionClaimed(run[k]).status = "running"
    BY <1>0 DEF QuestionClaimed, RunRows
  <2>3. CASE r = k
    BY <1>0, <2>1, <2>2, <2>3, LiveRunKeeps DEF HasRun
  <2>4. CASE r # k
    BY <1>0, <2>1, <2>4, SameRunKeeps
  <2> QED
    BY <2>3, <2>4
<1>2. ASSUME NEW r \in Requests, run'[r] \in {run[r], CancelRequested(run[r])}
      PROVE  KeepsRun(r)
  <2>1. CASE run'[r] = run[r]
    BY <2>1, SameRunKeeps
  <2>2. CASE run'[r] # run[r]
    <3>1. /\ run[r].status \in ActiveRunStatuses
          /\ run'[r] = [run[r] EXCEPT !.status = "cancelling", !.cancel = TRUE]
      BY <1>2, <2>2 DEF CancelRequested
    <3> QED
      BY <1>0, <3>1, LiveRunKeeps DEF HasRun, ActiveRunStatuses, RunRows
  <2> QED
    BY <2>1, <2>2
<1> QED
  BY <1>1, <1>2, HandlersWrite, RecoveryKeepsRuns

\* A worker creates the run of its request, or finds it there.
LEMMA WorkersKeepRuns ==
    ASSUME StoreOK, Plain, Core, Started, NEW w \in Workers, NEW k \in Requests, Key(w) = k, WorkerActs(w)
    PROVE  (WorkCreate(w) /\ HasRun(k)') \/ KeepsRun(k)
<1>0. /\ run[k] \in RunRows /\ run \in [Requests -> RunRows] /\ worker[w].pc # "idle"
      /\ Target(w) = k /\ turn[k].parent = None /\ WorkerCarries(w)
  BY WorkerActsOnOne DEF StoreOK, StoreTypeOK, RunTypeOK, Plain, PlainJob, Key, Target, WorkerOK
<1>1. worker[w].pc \in {"stream", "final_check", "save"} => HasRun(k)
  BY DEF Started, Executed, Core, WorkerFits, Holds, ActiveRun, ActiveRunStatuses, HasRun
<1>2. ASSUME NEW row, HasRun(k), row.status # "none", run' = [run EXCEPT ![k] = row]
      PROVE  KeepsRun(k)
  BY <1>0, <1>2, LiveRunKeeps
<1>3. CASE \/ WorkCheck(w) \/ WorkEarlyTurn(w) \/ WorkAnswers(w) \/ WorkEmit(w) \/ WorkFinalTurn(w)
           \/ WorkAborts(w) \/ WorkEmitFails(w)
  BY <1>3, SameRunKeeps DEF WorkCheck, WorkEarlyTurn, WorkAnswers, WorkEmit, WorkFinalTurn, WorkAborts, WorkEmitFails,
                            StoreVars
<1>4. CASE WorkEarlyRuns(w)
  <2>1. run'[k] = CancellationFinished(run[k])
    BY <1>4 DEF WorkEarlyRuns
  <2>2. CASE run[k].status = "cancelling"
    <3>1. CancellationFinished(run[k]).status # "none"
      BY <1>0, <2>2 DEF CancellationFinished, FinishedRun, RunRows
    <3> QED
      BY <2>1, <2>2, <3>1, LiveRunKeeps DEF HasRun
  <2>3. CASE run[k].status # "cancelling"
    BY <2>1, <2>3, SameRunKeeps DEF CancellationFinished
  <2> QED
    BY <2>2, <2>3
<1>5. CASE WorkCreate(w)
  <2>1. run'[k] = CreatedRun(run[k])
    BY <1>0, <1>5 DEF WorkCreate
  <2> QED
    BY <1>0, <1>5, <2>1, RunWrites DEF HasRun
<1>6. CASE WorkStart(w)
  <2>1. CASE StartTurn(w)
    <3>1. UNCHANGED run \/ run' = [run EXCEPT ![k] = [run[k] EXCEPT !.msg = "streaming"]]
      BY <1>0, <2>1 DEF StartTurn, StartRetry, StartFirst
    <3>2. run'[k].status = run[k].status /\ (Answered(k)' => Answered(k))
      BY <1>0, <3>1 DEF RunRows, Answered
    <3> QED
      BY <3>2 DEF KeepsRun, HasRun
  <2>2. CASE StartAnswer(w)
    <3>1. CASE UNCHANGED run
      BY <3>1, SameRunKeeps
    <3>2. CASE run' # run
      <4>1. /\ run[k].status \in {"running", "awaiting_user"}
            /\ run' = [run EXCEPT ![k] = Checkpointed(run[k], "running", "claimed")]
        BY <1>0, <2>2, <3>2 DEF StartAnswer, CanClaimQuestion
      <4>2. Checkpointed(run[k], "running", "claimed").status = "running"
        BY <1>0, RunWrites
      <4> QED
        BY <1>2, <4>1, <4>2 DEF HasRun
    <3> QED
      BY <3>1, <3>2
  <2>3. ~StartApproval(w)
    BY <1>0 DEF StartApproval, Plain, PlainJob
  <2> QED
    BY <1>6, <2>1, <2>2, <2>3 DEF WorkStart
<1>7. CASE WorkHeartbeat(w)
  BY <1>0, <1>7, SameRunKeeps DEF WorkHeartbeat, RunRows
<1>8. CASE WorkRound(w) \/ WorkSeesCancel(w) \/ WorkDeadline(w) \/ WorkFails(w)
  <2>1. /\ [FinishedRun(run[k], "cancelled") EXCEPT !.lease = FALSE].status = "cancelled"
        /\ [FinishedRun(run[k], "failed") EXCEPT !.lease = FALSE, !.msg = "error"].status = "failed"
        /\ [FinishedRun(Checkpointed(run[k], "blocked", "none"), "blocked") EXCEPT !.lease = FALSE].status = "blocked"
    BY <1>0 DEF FinishedRun, Checkpointed, RunRows
  <2>2. Checkpointed(run[k], "running", "none").status = "running"
    BY <1>0, RunWrites
  <2> QED
    BY <1>0, <1>1, <1>2, <1>8, <2>1, <2>2 DEF WorkRound, WorkSeesCancel, WorkDeadline, WorkFails
<1>9. CASE WorkFinalCheck(w)
  <2>1. HasRun(k) /\ run'[k].status = run[k].status
    BY <1>0, <1>1, <1>9 DEF WorkFinalCheck, RunRows
  <2> QED
    BY <2>1, LiveRunKeeps DEF HasRun
<1>10. CASE WorkSave(w)
  <2> DEFINE saved == CASE worker[w].out = "awaiting_user"     -> Checkpointed(run[k], "awaiting_user", "question")
                        [] worker[w].out = "awaiting_approval" -> Checkpointed(run[k], "awaiting_approval", "approval")
                        [] OTHER                               -> FinishedRun(run[k], worker[w].out)
  <2>1. HasRun(k) /\ worker[w].out # "none" /\ run' = [run EXCEPT ![k] = saved]
    BY <1>0, <1>1, <1>10 DEF WorkSave, WorkerCarries, DoneStatuses
  <2>2. saved.status = worker[w].out
    BY <1>0, RunWrites
  <2> HIDE DEF saved
  <2> QED
    BY <1>2, <2>1, <2>2
<1>11. CASE WorkFinalRun(w)
  <2>1. RunStatusOf(worker[w].out) # "none"
    BY <1>0, <1>11 DEF WorkFinalRun, WorkerCarries, FrameKinds, DoneStatuses, RunStatusOf
  <2>2. \/ UNCHANGED run
        \/ HasRun(k) /\ run' = [run EXCEPT ![k] = FinishedForRequest(run[k], RunStatusOf(worker[w].out))]
    BY <1>0, <1>11 DEF WorkFinalRun, HasRun
  <2>3. HasRun(k) => FinishedForRequest(run[k], RunStatusOf(worker[w].out)).status # "none"
    BY <1>0, <2>1 DEF FinishedForRequest, FinishedRun, RunRows, HasRun
  <2> QED
    BY <1>2, <2>2, <2>3, SameRunKeeps
<1>12. CASE WorkRevive(w) \/ WorkApply(w)
  BY <1>12 DEF Plain, WorkRevive, WorkApply
<1> QED
  BY <1>3, <1>4, <1>5, <1>6, <1>7, <1>8, <1>9, <1>10, <1>11, <1>12 DEF WorkerActs, WorkStep

\* What a worker is about to report it has executed, or replays.
LEMMA WorkersExecute ==
    ASSUME StoreOK, Plain, Core, Started, NEW w \in Workers, NEW k \in Requests, Key(w) = k, WorkerActs(w),
           Executed(w)'
    PROVE  HasRun(k)
<1>0. WorkerOK /\ worker[w].pc # "idle" /\ Target(w) = k
  BY WorkerActsOnOne DEF StoreOK, Plain, PlainJob, Key, Target
<1>1. worker[w].pc \in {"stream", "final_check", "save"} \/ worker[w].out \in {"ready", "blocked"} => HasRun(k)
  BY <1>0 DEF Started, Executed, Core, WorkerFits, Holds, ActiveRun, ActiveRunStatuses, HasRun
<1>2. CASE \/ WorkAnswers(w) \/ WorkSeesCancel(w) \/ WorkDeadline(w) \/ WorkFails(w) \/ WorkHeartbeat(w) \/ WorkRound(w)
           \/ WorkFinalCheck(w) \/ WorkSave(w)
  BY <1>1, <1>2 DEF WorkAnswers, WorkSeesCancel, WorkDeadline, WorkFails, WorkHeartbeat, WorkRound, WorkFinalCheck,
                    WorkSave
<1>3. ASSUME NEW pc, pc \notin {"final_check", "save"},
             Goto(w, pc) \/ GotoWith(w, pc, "cancelled") \/ GotoWith(w, pc, "error")
      PROVE  HasRun(k)
  <2>1. worker'[w].pc = pc /\ worker'[w].out \in {worker[w].out, "cancelled", "error"}
    BY <1>0, <1>3, WorkerMoves DEF Moved
  <2> QED
    BY <1>1, <1>3, <2>1 DEF Executed
<1>4. CASE \/ WorkCheck(w) \/ WorkEarlyRuns(w) \/ WorkEarlyTurn(w) \/ WorkCreate(w) \/ WorkEmit(w) \/ WorkEmitFails(w)
           \/ WorkFinalRun(w) \/ WorkFinalTurn(w) \/ WorkAborts(w)
  BY <1>3, <1>4 DEF WorkCheck, WorkEarlyRuns, WorkEarlyTurn, WorkCreate, WorkEmit, WorkEmitFails, WorkFinalRun,
                    WorkFinalTurn, WorkAborts
<1>5. CASE WorkStart(w)
  <2>1. CASE StartTurn(w)
    <3>1. StartFirst(w)
      BY <2>1 DEF StartTurn, StartRetry, Plain, Key
    <3>2. CASE Goto(w, "create")
      BY <1>3, <3>2
    <3>3. CASE GotoWith(w, "emit", IF run[k].msg \in DoneStatuses THEN run[k].msg ELSE "error")
      <4>1. worker'[w].pc = "emit" /\ worker'[w].out \in {run[k].msg, "error"}
        BY <1>0, <3>3, WorkerMoves DEF Moved
      <4>2. Answered(k)
        BY <4>1 DEF Executed, Answered
      <4> QED
        BY <4>2 DEF Started
    <3> QED
      BY <3>1, <3>2, <3>3 DEF StartFirst
  <2>2. CASE StartAnswer(w)
    BY <1>3, <2>2 DEF StartAnswer
  <2>3. ~StartApproval(w)
    BY <1>0 DEF StartApproval, Plain, PlainJob
  <2> QED
    BY <1>5, <2>1, <2>2, <2>3 DEF WorkStart
<1>6. ~WorkRevive(w) /\ ~WorkApply(w)
  BY DEF Plain, WorkRevive, WorkApply
<1> QED
  BY <1>2, <1>4, <1>5, <1>6 DEF WorkerActs, WorkStep

\* A step that keeps the runs, and leaves the workers that have executed alone.
LEMMA KeptRunsStart ==
    ASSUME Started, Plain, BeatTypeOK, \A r \in Requests : KeepsRun(r),
           \A w \in Workers : Executed(w)' => worker'[w] = worker[w],
           \A r \in beat'.stale : r \in beat.stale \/ (r \in Requests /\ LeaseExpired(r))
    PROVE  Started'
<1>1. \A r \in Requests : Answered(r)' => HasRun(r)'
  BY DEF Started, KeepsRun
<1>2. ASSUME NEW w \in Workers, Executed(w)'
      PROVE  HasRun(Key(w))'
  <2>1. worker'[w] = worker[w] /\ worker[w].pc # "idle" /\ Executed(w) /\ Key(w)' = Key(w)
    BY <1>2 DEF Executed, Key
  <2>2. Key(w) \in Requests /\ HasRun(Key(w))
    BY <2>1 DEF Plain, PlainJob, Key, Started
  <2> QED
    BY <2>1, <2>2 DEF KeepsRun, HasRun
<1>3. \A r \in beat'.stale : HasRun(r)'
  BY DEF Started, KeepsRun, BeatTypeOK, LeaseExpired, WorkerRunStatuses, HasRun
<1> QED
  BY <1>1, <1>2, <1>3 DEF Started

LEMMA ExpiryKeepsRuns ==
    ASSUME StoreOK, Started, NEW k \in Requests, ExpireLease(k)
    PROVE  \A r \in Requests : KeepsRun(r)
<1> SUFFICES ASSUME NEW r \in Requests PROVE KeepsRun(r)
  OBVIOUS
<1>0. run \in [Requests -> RunRows]
  BY DEF StoreOK, StoreTypeOK, RunTypeOK
<1>1. CASE r = k
  <2>1. HasRun(k) /\ run'[k] = [FinishedRun(run[k], LeaseOutcome(k)) EXCEPT
                                   !.lease = TRUE, !.msg = ClosedMessage(run[k].msg, LeaseOutcome(k))]
    BY <1>0, RunWrites DEF ExpireLease, Started, FinishedRun, RunRows
  <2>2. run'[k].status = LeaseOutcome(k)
    BY <1>0, <2>1 DEF FinishedRun, RunRows
  <2> QED
    BY <1>1, <2>1, <2>2, LiveRunKeeps DEF LeaseOutcome
<1>2. CASE r # k
  BY <1>0, <1>2, SameRunKeeps DEF ExpireLease
<1> QED
  BY <1>1, <1>2

\* The beat takes up leases that have expired, and no others.
LEMMA BeatHolds ==
    ASSUME BeatTypeOK, BeatStep
    PROVE  \A r \in beat'.stale : r \in beat.stale \/ (r \in Requests /\ LeaseExpired(r))
<1>1. CASE BeatStarts
  <2>1. beat'.stale = {r \in Requests : LeaseExpired(r)}
    BY <1>1 DEF BeatStarts, IdleBeat
  <2> QED
    BY <2>1
<1>2. CASE CloseExpired
  <2>1. beat' = [beat EXCEPT !.pc = "runs", !.key = None]
    BY <1>2 DEF CloseExpired
  <2> QED
    BY <2>1 DEF BeatTypeOK
<1>3. ASSUME NEW k \in Requests, ExpireLease(k)
      PROVE  beat'.stale \subseteq beat.stale
  <2>1. beat' = [beat EXCEPT !.pc = "close", !.key = k, !.stale = beat.stale \ {k}]
    BY <1>3 DEF ExpireLease
  <2> QED
    BY <2>1 DEF BeatTypeOK
<1>4. ASSUME NEW from, NEW to, BeatGoto(from, to)
      PROVE  beat'.stale = {}
  BY <1>4 DEF BeatGoto, IdleBeat
<1>5. CASE NoLeaseExpired \/ BeatTerminalRuns \/ BeatClaims \/ BeatFailurePause \/ BeatWake
  <2>1. beat'.stale = {}
    BY <1>4, <1>5 DEF NoLeaseExpired, BeatTerminalRuns, BeatClaims, BeatFailurePause, BeatWake
  <2> QED
    BY <2>1
<1> QED
  BY <1>1, <1>2, <1>3, <1>5 DEF BeatStep

LEMMA StartedStep ==
    ASSUME OrderlyUse, TurnInv, Started, [Next]_vars
    PROVE  Started'
<1>0. StoreOK /\ Plain /\ NoCancels /\ Core /\ BeatTypeOK /\ WorkerOK /\ run \in [Requests -> RunRows]
  BY TurnInvTypes DEF StoreOK
<1>1. ASSUME \A r \in Requests : KeepsRun(r), UNCHANGED <<worker, beat>>
      PROVE  Started'
  BY <1>0, <1>1, KeptRunsStart
<1>2. UNCHANGED run => \A r \in Requests : KeepsRun(r)
  BY SameRunKeeps
<1>3. ASSUME NEW c \in Clients, ApiStep(c) \/ ApiFinishes(c), UNCHANGED <<worker, beat>>
      PROVE  Started'
  BY <1>0, <1>1, <1>3, HandlersKeepRuns
<1>4. ASSUME NEW d \in Dispatchers, DispStep(d), UNCHANGED <<worker, beat>>
      PROVE  Started'
  <2>1. UNCHANGED run \/ \E closing : RecoverTerminalRuns(closing) \/ RecoverClaims(closing)
    BY <1>4 DEF DispStep, DispTake, DispTerminalRuns, DispClaims, DispResume, ResumeAfterFailure, DispClaim, Claim,
                DispFindsNothing, DispSubmit, DispRelease, ReleaseClaim, StoreVars
  <2> QED
    BY <1>0, <1>1, <1>2, <1>4, <2>1, RecoveryKeepsRuns
<1>5. ASSUME NEW w \in Workers, WorkerActs(w), UNCHANGED beat
      PROVE  Started'
  <2>0. worker[w].pc # "idle" /\ Key(w) \in Requests
    BY <1>0, <1>5, WorkerActsOnOne
  <2>1. PICK k \in Requests : Key(w) = k
    BY <2>0
  <2>2. OwnStep(w, k)
    BY <1>0, <1>5, <2>1, WorkerOwns
  <2>3. (WorkCreate(w) /\ HasRun(k)') \/ KeepsRun(k)
    BY <1>0, <1>5, <2>1, WorkersKeepRuns
  <2>4. Executed(w)' => HasRun(k)
    BY <1>0, <1>5, <2>1, WorkersExecute
  <2>5. \A q \in Requests : q # k => KeepsRun(q)
    BY <2>2, SameRunKeeps DEF OwnStep
  <2>6. \A q \in Requests : (HasRun(q) => HasRun(q)') /\ (Answered(q)' => HasRun(q)')
    BY <2>1, <2>3, <2>5 DEF KeepsRun, Started
  <2>7. ASSUME NEW v \in Workers, Executed(v)'
        PROVE  HasRun(Key(v))'
    <3>1. CASE v = w
      BY <2>0, <2>1, <2>2, <2>4, <2>6, <2>7, <3>1 DEF OwnStep, Key, HasRun
    <3>2. CASE v # w
      <4>1. worker'[v] = worker[v] /\ Key(v)' = Key(v) /\ Executed(v) /\ worker[v].pc # "idle"
        BY <2>2, <2>7, <3>2 DEF OwnStep, Key, Executed
      <4>2. Key(v) \in Requests /\ HasRun(Key(v))
        BY <1>0, <4>1 DEF Plain, PlainJob, Key, Started
      <4> QED
        BY <2>6, <4>1, <4>2 DEF HasRun
    <3> QED
      BY <3>1, <3>2
  <2>8. \A q \in beat'.stale : HasRun(q)'
    BY <1>0, <1>5, <2>6 DEF Started, BeatTypeOK
  <2> QED
    BY <2>6, <2>7, <2>8 DEF Started
<1>6. ASSUME NEW w \in Workers, WorkUnlock(w), UNCHANGED beat
      PROVE  Started'
  <2>1. UNCHANGED run /\ worker' = [worker EXCEPT ![w] = IdleWorker]
    BY <1>6 DEF WorkUnlock, StoreVars
  <2>2. \A v \in Workers : Executed(v)' => worker'[v] = worker[v]
    BY <1>0, <2>1 DEF WorkerOK, IdleWorker, Executed
  <2> QED
    BY <1>0, <1>2, <1>6, <2>1, <2>2, KeptRunsStart
<1>7. ASSUME NEW w \in Workers, NEW job \in jobs, NEW redelivered, WorkTake(w, job, redelivered), UNCHANGED beat
      PROVE  Started'
  <2>1. UNCHANGED run
    BY <1>7 DEF WorkTake, StoreVars
  <2>2. \A v \in Workers : Executed(v)' => worker'[v] = worker[v]
    BY <1>0, <1>7 DEF WorkTake, WorkerOK, Executed
  <2> QED
    BY <1>0, <1>2, <1>7, <2>1, <2>2, KeptRunsStart
<1>8. ASSUME BeatStep, UNCHANGED worker
      PROVE  Started'
  <2>1. \A r \in Requests : KeepsRun(r)
    BY <1>0, <1>2, <1>8, BeatTouches, RecoveryKeepsRuns, ExpiryKeepsRuns
  <2> QED
    BY <1>0, <1>8, <2>1, BeatHolds, KeptRunsStart
<1>9. ASSUME NEW k \in Requests, TurnAges(k) \/ EndAges(k) \/ LeaseAges(k), UNCHANGED <<worker, beat>>
      PROVE  Started'
  <2>1. \A r \in Requests : run'[r].status = run[r].status /\ run'[r].msg = run[r].msg
    BY <1>0, <1>9 DEF TurnAges, EndAges, LeaseAges, RunRows
  <2> QED
    BY <1>1, <1>9, <2>1, SameRunKeeps
<1>10. CASE Crash
  <2>1. UNCHANGED run
    BY <1>10 DEF Crash, StoreVars
  <2>2. \A v \in Workers : worker'[v] = worker[v] \/ worker'[v].pc = "idle"
    BY <1>0, <1>10 DEF Crash, CrashWorker, CrashDispatcher, CrashClient, CrashBeat, WorkerOK, IdleWorker
  <2>3. beat'.stale \subseteq beat.stale
    BY <1>10 DEF Crash, CrashWorker, CrashDispatcher, CrashClient, CrashBeat, IdleBeat
  <2> QED
    BY <1>0, <1>2, <2>1, <2>2, <2>3, KeptRunsStart DEF Executed
<1>11. CASE UNCHANGED <<run, worker, beat>>
  BY <1>1, <1>2, <1>11
<1> QED
  BY <1>3, <1>4, <1>5, <1>6, <1>7, <1>8, <1>9, <1>10, <1>11, NextCases
-----------------------------------------------------------------------------
(* Which turns a step writes. *)

LEMMA HandlersWriteTurns ==
    ASSUME OrderlyUse, TurnInv, NEW c \in Clients, ApiStep(c) \/ ApiFinishes(c)
    PROVE  \/ UNCHANGED turn
           \/ \E r \in Requests : Answer(c, r)
           \/ \E r \in Requests : (\E steer \in BOOLEAN : Enqueue(r, steer)) \/ Promote(r)
           \/ UNCHANGED control /\ \E k \in Requests \cup {None} : CancelTurn(k)
           \/ control' = "open" /\ turn' = [r \in Requests |-> ClearedTurn(turn[r])]
           \/ \E closing \in Closings : RecoverTerminalRuns(closing) \/ RecoverClaims(closing)
<1> DEFINE Written == \/ UNCHANGED turn
                      \/ \E r \in Requests : Answer(c, r)
                      \/ \E r \in Requests : (\E steer \in BOOLEAN : Enqueue(r, steer)) \/ Promote(r)
                      \/ UNCHANGED control /\ \E k \in Requests \cup {None} : CancelTurn(k)
                      \/ control' = "open" /\ turn' = [r \in Requests |-> ClearedTurn(turn[r])]
                      \/ \E closing \in Closings : RecoverTerminalRuns(closing) \/ RecoverClaims(closing)
<1>0. \A op \in {"retry", "run_now", "decide", "approve"} : op \notin Ops
  BY DEF OrderlyUse
<1>1. CASE ApiStep(c)
  <2>1. ASSUME NEW r \in Requests, EnqueueTurn(r) \/ EnqueueSteered(c, r) \/ SteerTurn(c, r)
        PROVE  Written
    BY <2>1 DEF EnqueueTurn, EnqueueSteered, SteerTurn
  <2>2. ASSUME NEW r \in Requests, \/ RunNow(c, r) \/ Decide(c, r) \/ Approve(c, r)
                                   \/ \E failed \in Requests : RetryTurn(c, failed, r)
        PROVE  FALSE
    BY <1>0, <2>2 DEF RunNow, Decide, Approve, RetryTurn, Calls, Enters
  <2>3. ASSUME NEW r \in Requests, CancelRequest(c, r) \/ CancelQueued(c, r)
        PROVE  Written
    BY <2>3 DEF CancelRequest, CancelQueued
  <2>4. CASE PauseQueue(c) \/ ResumeQueue(c) \/ ClearQueue(c)
    BY <2>4 DEF PauseQueue, Pause, ResumeQueue, Resume, ClearQueue, StoreVars
  <2>5. CASE ListQueue(c)
    BY <2>5 DEF ListQueue
  <2> QED
    BY <1>1, <2>1, <2>2, <2>3, <2>4, <2>5 DEF ApiStep
<1>2. CASE ApiFinishes(c)
  <2>1. CASE SteerWake(c) \/ PauseMarks(c) \/ ListResume(c) \/ CancelSignal(c) \/ QueuedSignal(c) \/ PauseRuns(c)
    BY <2>1 DEF SteerWake, Resume, PauseMarks, ListResume, ResumeAfterFailure, CancelSignal, QueuedSignal, Signal,
                PauseRuns, StoreVars
  <2>2. ~RetryWake(c) /\ \A r \in Requests : ~RunNowSubmits(c, r)
    BY DEF TurnInv, RetryWake, RunNowSubmits, Returns, Plain
  <2>3. CASE PauseTurn(c) \/ CancelRequestTurn(c)
    <3>1. CancelTurn(api[c].key) /\ UNCHANGED control
      BY <2>3 DEF PauseTurn, CancelRequestTurn
    <3>2. api[c].key \in Requests \cup {None}
      BY DEF TurnInv, LockInv, TypeInv, TypeOK, ApiTypeOK
    <3> QED
      BY <3>1, <3>2
  <2>4. CASE ClearRows(c) \/ ListClaims(c)
    BY <2>4 DEF ClearRows, ListClaims
  <2> QED
    BY <1>2, <2>1, <2>2, <2>3, <2>4 DEF ApiFinishes
<1> QED
  BY <1>1, <1>2

LEMMA DispatchersWriteTurns ==
    ASSUME NEW d \in Dispatchers, DispStep(d), disp[d].pc = "submit" => disp[d].key \in Requests
    PROVE  \/ UNCHANGED <<run, turn>>
           \/ \E r \in Requests : Claim(r) \/ (Submits(d, r) /\ ReleaseClaim(r))
           \/ \E closing \in Closings : RecoverTerminalRuns(closing) \/ RecoverClaims(closing)
<1>1. CASE DispTake(d) \/ DispResume(d) \/ DispFindsNothing(d) \/ DispSubmit(d)
  BY <1>1 DEF DispTake, DispResume, DispFindsNothing, DispSubmit, ResumeAfterFailure, StoreVars
<1>2. CASE DispClaim(d)
  BY <1>2 DEF DispClaim
<1>3. CASE DispTerminalRuns(d) \/ DispClaims(d)
  BY <1>3 DEF DispTerminalRuns, DispClaims
<1>4. CASE DispRelease(d)
  BY <1>4 DEF DispRelease, Submits
<1> QED
  BY <1>1, <1>2, <1>3, <1>4 DEF DispStep

\* A worker writes its turn when it gives up, and last of all.
Concludes(w, k) ==
    /\ UNCHANGED run
    /\ \/ /\ worker[w].pc = "early_turn" /\ worker'[w].pc = "final_run"
          /\ FinishTurnOf(k, "cancelled")
       \/ /\ worker[w].pc = "final_turn" /\ worker'[w].pc = "unlock"
          /\ FinishTurnOf(k, TurnStatusOf(worker[w].out))

LEMMA WorkersWriteTurns ==
    ASSUME StoreOK, Plain, NEW w \in Workers, NEW k \in Requests, Key(w) = k, WorkerActs(w)
    PROVE  UNCHANGED control /\ (UNCHANGED turn \/ Concludes(w, k))
<1>0. WorkerOK
  BY DEF StoreOK
<1>1. CASE WorkEarlyTurn(w)
  <2>1. /\ worker[w].pc = "early_turn" /\ FinishTurnOf(k, "cancelled")
        /\ Goto(w, "final_run") /\ UNCHANGED <<run, control>>
    BY <1>1 DEF WorkEarlyTurn
  <2> QED
    BY <1>0, <2>1, WorkerMoves DEF Moved, Concludes
<1>2. CASE WorkFinalTurn(w)
  <2>1. /\ worker[w].pc = "final_turn" /\ FinishTurnOf(k, TurnStatusOf(worker[w].out))
        /\ Goto(w, "unlock") /\ UNCHANGED <<run, control>>
    BY <1>2 DEF WorkFinalTurn
  <2> QED
    BY <1>0, <2>1, WorkerMoves DEF Moved, Concludes
<1>3. CASE WorkCheck(w) \/ WorkEmit(w) \/ WorkEmitFails(w) \/ WorkEarlyRuns(w) \/ WorkStart(w) \/ WorkCreate(w)
  BY <1>3 DEF WorkCheck, WorkEmit, WorkEmitFails, WorkEarlyRuns, WorkStart, WorkCreate
<1>4. CASE \/ WorkHeartbeat(w) \/ WorkRound(w) \/ WorkSeesCancel(w) \/ WorkDeadline(w) \/ WorkFails(w)
           \/ WorkAnswers(w) \/ WorkAborts(w)
  BY <1>4 DEF WorkHeartbeat, WorkRound, WorkSeesCancel, WorkDeadline, WorkFails, WorkAnswers, WorkAborts, StoreVars
<1>5. CASE WorkFinalCheck(w) \/ WorkSave(w) \/ WorkFinalRun(w)
  BY <1>5 DEF WorkFinalCheck, WorkSave, WorkFinalRun
<1>6. ~WorkRevive(w) /\ ~WorkApply(w)
  BY DEF Plain, WorkRevive, WorkApply
<1> QED
  BY <1>1, <1>2, <1>3, <1>4, <1>5, <1>6 DEF WorkerActs, WorkStep
-----------------------------------------------------------------------------
(* A run that outlives its turn. *)

\* Only a cancelled turn ends before its run.
Lingers(r) == ActiveRun(r) /\ EndedTurn(r) => turn[r].status = "cancelled"

LEMMA LingersStill ==
    ASSUME NEW r, Lingers(r),
           ActiveRun(r)' /\ EndedTurn(r)' => ActiveRun(r) /\ turn'[r].status \in {turn[r].status, "cancelled"}
    PROVE  Lingers(r)'
BY DEF Lingers, EndedTurn

LEMMA RowsEndCancelled ==
    ASSUME NEW row \in TurnRows, NEW new \in {CancelRequestedTurn(row), ClearedTurn(row)},
           new.status \in TerminalQueueStatuses
    PROVE  new.status \in {row.status, "cancelled"}
BY DEF TurnRows, CancelRequestedTurn, ClearedTurn, CancelledTurn, TerminalQueueStatuses

LEMMA RecoveryLingers ==
    ASSUME StoreOK, NEW closing, RecoverTerminalRuns(closing) \/ RecoverClaims(closing),
           NEW r \in Requests, Lingers(r)
    PROVE  Lingers(r)'
<1>0. StoreTypeOK /\ run[r] \in RunRows /\ turn[r] \in TurnRows
  BY DEF StoreOK, StoreTypeOK, RunTypeOK, TurnTypeOK
<1>1. CASE turn'[r] = turn[r] /\ run'[r] = run[r]
  BY <1>1 DEF Lingers, ActiveRun, EndedTurn
<1>2. CASE RecoverTerminalRuns(closing) /\ Orphaned(r)
  <2>1. run'[r] = ReconciledRun(r, closing) /\ turn'[r] = FinishedTurn(turn[r], TurnOutcome(OrphanOutcome(r)))
    BY <1>2 DEF RecoverTerminalRuns
  <2>2. run'[r].status = OrphanOutcome(r) /\ turn'[r].status = FinishStatus(TurnOutcome(OrphanOutcome(r)))
    BY <1>0, <2>1 DEF ReconciledRun, FinishedRun, RunRows, FinishedTurn, TurnRows
  <2>3. CASE OrphanOutcome(r) \in PausedQueueStatuses
    BY <2>2, <2>3 DEF Lingers, EndedTurn, FinishStatus, TurnOutcome, PausedQueueStatuses, TerminalQueueStatuses
  <2>4. CASE OrphanOutcome(r) \notin PausedQueueStatuses
    <3>1. OrphanOutcome(r) \in DoneStatuses \cup {"failed", "cancelled"}
      <4>1. HasTerminalFrame(r) => LastFrame(r) \in FrameKinds
        BY <1>0 DEF StoreTypeOK, RunTypeOK, HasTerminalFrame, LastFrame, Keys
      <4> QED
        BY <4>1 DEF OrphanOutcome, FrameKinds
    <3> QED
      BY <2>2, <2>4, <3>1 DEF Lingers, ActiveRun, ActiveRunStatuses, DoneStatuses, PausedQueueStatuses
  <2> QED
    BY <2>3, <2>4
<1>3. RecoverClaims(closing) => run'[r].status = run[r].status
  <2>1. RecoverClaims(closing) => \/ run'[r] = run[r]
                                  \/ run'[r] = [run[r] EXCEPT !.msg = ClosedMessage(run[r].msg, run[r].status)]
    BY DEF RecoverClaims
  <2>2. [run[r] EXCEPT !.msg = ClosedMessage(run[r].msg, run[r].status)].status = run[r].status
    BY <1>0, RunWrites
  <2> QED
    BY <2>1, <2>2
<1>4. CASE RecoverClaims(closing) /\ turn'[r] # turn[r]
  <2>1. ~RunIsActive
    BY <1>4 DEF RecoverClaims
  <2> QED
    BY <1>4, <1>3, <2>1 DEF RunIsActive, Lingers, ActiveRun
<1>5. CASE RecoverClaims(closing) /\ turn'[r] = turn[r]
  BY <1>5, <1>3 DEF Lingers, ActiveRun, EndedTurn
<1>6. RecoverTerminalRuns(closing) /\ ~Orphaned(r) => turn'[r] = turn[r] /\ run'[r] = run[r]
  BY DEF RecoverTerminalRuns
<1> QED
  BY <1>1, <1>2, <1>4, <1>5, <1>6

LEMMA HandlersLinger ==
    ASSUME OrderlyUse, TurnInv, NEW c \in Clients, ApiStep(c) \/ ApiFinishes(c), UNCHANGED <<worker, disp, beat>>,
           NEW r \in Requests, Lingers(r)
    PROVE  Lingers(r)'
<1>0. StoreOK /\ Plain /\ NoCancels /\ Core /\ turn \in [Requests -> TurnRows]
  BY TurnInvTypes
<1>1. ASSUME NEW closing, RecoverTerminalRuns(closing) \/ RecoverClaims(closing)
      PROVE  Lingers(r)'
  BY <1>0, <1>1, RecoveryLingers
<1>2. ASSUME NEW k \in Requests, Answer(c, k)
      PROVE  Lingers(r)'
  <2>1. /\ turn' = [turn EXCEPT ![k] = Resumed(turn[k])] /\ run' = [run EXCEPT ![k] = QuestionClaimed(run[k])]
    BY <1>0, <1>2, AnswerDoes
  <2>2. CASE r = k
    BY <1>0, <2>1, <2>2 DEF Resumed, TurnRows, Lingers, EndedTurn, TerminalQueueStatuses
  <2>3. CASE r # k
    BY <2>1, <2>3 DEF Lingers, ActiveRun, EndedTurn
  <2> QED
    BY <2>2, <2>3
<1>3. CASE CalmStep /\ ~(\E k \in Requests : Answer(c, k))
           /\ ~(\E closing \in Closings : RecoverTerminalRuns(closing) \/ RecoverClaims(closing))
  <2>1. ActiveRun(r)' <=> ActiveRun(r)
    BY <1>3 DEF CalmStep, CalmRun
  <2>2. CASE turn'[r].status = turn[r].status
    BY <2>1, <2>2, LingersStill
  <2>3. CASE \E k \in Requests : (\E steer \in BOOLEAN : Enqueue(k, steer)) \/ Promote(k)
    <3>1. turn'[r].status = turn[r].status \/ turn'[r].status = "queued"
      <4>1. ASSUME NEW k \in Requests, NEW steer \in BOOLEAN, Enqueue(k, steer)
            PROVE  turn'[r].status = turn[r].status \/ turn'[r].status = "queued"
        BY <1>0, <4>1, NewTurnWaits DEF Enqueue
      <4>2. ASSUME NEW k \in Requests, Promote(k)
            PROVE  turn'[r].status = turn[r].status
        BY <1>0, <4>2 DEF Promote, TurnRows
      <4> QED
        BY <2>3, <4>1, <4>2
    <3> QED
      BY <2>2, <3>1 DEF Lingers, EndedTurn, TerminalQueueStatuses
  <2>4. CASE turn'[r] \in {CancelRequestedTurn(turn[r]), ClearedTurn(turn[r])}
    BY <1>0, <2>1, <2>4, RowsEndCancelled, LingersStill DEF EndedTurn
  <2>5. ASSUME NEW k, CancelTurn(k)
        PROVE  turn'[r] \in {turn[r], CancelRequestedTurn(turn[r])}
    BY <1>0, <2>5 DEF CancelTurn
  <2> QED
    BY <1>3, <2>2, <2>3, <2>4, <2>5, HandlersWriteTurns
<1> QED
  BY <1>0, <1>1, <1>2, <1>3, HandlersAreCalm

LEMMA WorkersLinger ==
    ASSUME TurnInv, NEW w \in Workers, NEW k \in Requests, Key(w) = k, WorkerActs(w), UNCHANGED beat,
           NEW r \in Requests, Lingers(r)
    PROVE  Lingers(r)'
<1>0. StoreOK /\ Plain /\ NoCancels /\ Core /\ turn \in [Requests -> TurnRows]
  BY TurnInvTypes
<1>1. OwnStep(w, k)
  BY <1>0, WorkerOwns
<1>2. CASE r # k
  BY <1>1, <1>2 DEF OwnStep, Lingers, ActiveRun, EndedTurn
<1>3. CASE r = k /\ UNCHANGED turn
  <2>1. EndedTurn(k)' <=> EndedTurn(k)
    BY <1>3 DEF EndedTurn
  <2>2. ActiveRun(k)' /\ EndedTurn(k) => ActiveRun(k)
    BY <1>1 DEF OwnStep, OwnRows
  <2> QED
    BY <1>3, <2>1, <2>2, LingersStill
<1>4. CASE r = k /\ Concludes(w, k) /\ turn' # turn
  <2>1. ASSUME NEW status, FinishTurnOf(k, status)
        PROVE  turn'[k].status = FinishStatus(status)
    BY <1>0, <1>4, <2>1 DEF FinishTurnOf, FinishedTurn, TurnRows
  <2>2. CASE FinishTurnOf(k, "cancelled")
    BY <1>4, <2>1, <2>2 DEF Lingers, FinishStatus, TerminalQueueStatuses
  <2>3. CASE worker[w].pc = "final_turn" /\ FinishTurnOf(k, TurnStatusOf(worker[w].out))
    <3>1. CASE worker[w].out \in PausedQueueStatuses
      BY <1>4, <2>1, <2>3, <3>1 DEF Lingers, EndedTurn, TurnStatusOf, FinishStatus, PausedQueueStatuses,
                                    TerminalQueueStatuses
    <3>2. CASE worker[w].out \notin PausedQueueStatuses
      BY <1>0, <1>4, <2>3, <3>2 DEF Core, WorkerFits, Concludes, Lingers, ActiveRun
    <3> QED
      BY <3>1, <3>2
  <2> QED
    BY <1>4, <2>2, <2>3 DEF Concludes
<1> QED
  BY <1>0, <1>2, <1>3, <1>4, WorkersWriteTurns

LEMMA LingersStep ==
    ASSUME OrderlyUse, TurnInv, [Next]_vars, NEW r \in Requests, Lingers(r)
    PROVE  Lingers(r)'
<1>0. /\ StoreOK /\ turn \in [Requests -> TurnRows] /\ run \in [Requests -> RunRows] /\ Plain
      /\ \A d \in Dispatchers : disp[d].pc = "submit" => disp[d].key \in Requests
  BY TurnInvTypes
<1>1. CASE UNCHANGED <<run, turn>>
  BY <1>1 DEF Lingers, ActiveRun, EndedTurn
<1>2. ASSUME NEW closing, RecoverTerminalRuns(closing) \/ RecoverClaims(closing)
      PROVE  Lingers(r)'
  BY <1>0, <1>2, RecoveryLingers
<1>3. ASSUME NEW c \in Clients, ApiStep(c) \/ ApiFinishes(c), UNCHANGED <<worker, disp, beat>>
      PROVE  Lingers(r)'
  BY <1>3, HandlersLinger
<1>4. ASSUME NEW d \in Dispatchers, DispStep(d)
      PROVE  Lingers(r)'
  <2>1. ASSUME NEW k \in Requests, Claim(k) \/ ReleaseClaim(k)
        PROVE  Lingers(r)'
    <3>1. UNCHANGED run /\ turn'[r].status \in {turn[r].status, "running", "queued"}
      BY <1>0, <2>1 DEF Claim, ReleaseClaim, Requeued, TurnRows
    <3> QED
      BY <3>1 DEF Lingers, ActiveRun, EndedTurn, TerminalQueueStatuses
  <2> QED
    BY <1>0, <1>1, <1>2, <1>4, <2>1, DispatchersWriteTurns
<1>5. ASSUME NEW w \in Workers, WorkerActs(w), UNCHANGED beat
      PROVE  Lingers(r)'
  BY <1>0, <1>5, WorkerActsOnOne, WorkersLinger
<1>6. ASSUME NEW w \in Workers, WorkUnlock(w)
      PROVE  UNCHANGED <<run, turn>>
  BY <1>6 DEF WorkUnlock, StoreVars
<1>7. ASSUME NEW w \in Workers, NEW job \in jobs, NEW redelivered, WorkTake(w, job, redelivered)
      PROVE  UNCHANGED <<run, turn>>
  BY <1>7 DEF WorkTake, StoreVars
<1>8. CASE BeatStep
  <2>1. ASSUME NEW k \in Requests, ExpireLease(k)
        PROVE  Lingers(r)'
    <3>1. UNCHANGED turn /\ (ActiveRun(r)' => ActiveRun(r))
      <4>1. CASE r = k
        <5>1. run'[k] = [FinishedRun(run[k], LeaseOutcome(k)) EXCEPT
                            !.lease = TRUE, !.msg = ClosedMessage(run[k].msg, LeaseOutcome(k))]
          BY <1>0, <2>1, RunWrites DEF ExpireLease, FinishedRun, RunRows
        <5>2. run'[k].status = LeaseOutcome(k)
          BY <1>0, <5>1 DEF FinishedRun, RunRows
        <5> QED
          BY <2>1, <4>1, <5>2 DEF ExpireLease, LeaseOutcome, ActiveRun, ActiveRunStatuses
      <4>2. CASE r # k
        BY <1>0, <2>1, <4>2 DEF ExpireLease, ActiveRun
      <4> QED
        BY <4>1, <4>2
    <3> QED
      BY <3>1, LingersStill
  <2> QED
    BY <1>1, <1>2, <1>8, <2>1, BeatTouches
<1>9. ASSUME NEW k \in Requests, TurnAges(k) \/ EndAges(k) \/ LeaseAges(k)
      PROVE  Lingers(r)'
  <2>1. turn'[r].status = turn[r].status /\ run'[r].status = run[r].status
    BY <1>0, <1>9 DEF TurnAges, EndAges, LeaseAges, TurnRows, RunRows
  <2> QED
    BY <2>1 DEF Lingers, ActiveRun, EndedTurn
<1>10. Crash => UNCHANGED <<run, turn>>
  BY DEF Crash, StoreVars
<1> QED
  BY <1>1, <1>3, <1>4, <1>5, <1>6, <1>7, <1>8, <1>9, <1>10, NextCases
-----------------------------------------------------------------------------
(* The ledger: what its terms mean for rows and workers, and what a step has *)
(* to do in order to be one of its own.                                      *)

\* An active turn is "active", another one in the stage of its row.
LEMMA StageRows ==
    ASSUME NEW r \in Requests
    PROVE  /\ Stage[r] = IF ActiveTurn(r) THEN "active" ELSE turn[r].status
           /\ Stage'[r] = IF ActiveTurn(r)' THEN "active" ELSE turn'[r].status
BY DEF Stage, Active, InStatus, ActiveTurn

LEMMA LedgerSets ==
    ASSUME turn \in [Requests -> TurnRows]
    PROVE  /\ Ledger!At({"active"}) = {r \in Requests : ActiveTurn(r)}
           /\ Ledger!At({"queued"}) = InStatus({"queued"})
           /\ Ledger!At({"queued", "active"}) = InStatus(QueueableStatuses)
<1>1. \A r \in Requests : turn[r].status # "active"
  BY DEF TurnRows, QueueStatuses, QueueableStatuses, ActiveQueueStatuses, TerminalQueueStatuses
<1>2. \A r \in Requests : /\ Stage[r] = "active" <=> ActiveTurn(r)
                          /\ Stage[r] = "queued" <=> turn[r].status = "queued"
  BY <1>1, StageRows DEF ActiveTurn, ActiveQueueStatuses
<1> QED
  BY <1>2 DEF Ledger!At, InStatus, ActiveTurn, QueueableStatuses

\* Whose run is executed, and by how many.
LEMMA ServingMeans ==
    ASSUME TurnInv
    PROVE  /\ \A w \in Workers : ExecutesRun(w) <=> worker[w].pc = "stream"
           /\ \A w \in Workers : ExecutesRun(w) => Serving = {Key(w)}
           /\ (\A w \in Workers : ~ExecutesRun(w)) => Serving = {}
           /\ \A r \in Serving : /\ r \in Requests /\ Claimed(r) /\ ActiveRun(r)
                                 /\ \E w \in Workers : ExecutesRun(w) /\ Key(w) = r
<1>0. Plain /\ Core
  BY DEF TurnInv
<1>1. \A w \in Workers : ExecutesRun(w) <=> worker[w].pc = "stream"
  BY <1>0 DEF ExecutesRun, Plain
<1>2. \A w \in Workers : ExecutesRun(w) => Key(w) \in Requests /\ Claimed(Key(w)) /\ ActiveRun(Key(w))
  BY <1>0, <1>1 DEF Plain, PlainJob, Key, Core, WorkerFits, Holds
<1>3. \A w, v \in Workers : ExecutesRun(w) /\ ExecutesRun(v) => Key(w) = Key(v)
  BY <1>0, <1>2 DEF Core, OneBusy, Busy
<1> QED
  BY <1>1, <1>2, <1>3 DEF Serving

LEMMA ServingKept ==
    ASSUME \A w \in Workers : /\ ExecutesRun(w)' <=> ExecutesRun(w)
                              /\ ExecutesRun(w) => Key(w)' = Key(w)
    PROVE  Serving' = Serving
BY DEF Serving

LEMMA ServedKept ==
    ASSUME \A r \in Requests : KeepsRun(r)
    PROVE  Served' = Served
BY DEF KeepsRun, HasRun, Served

\* Nothing that the users see.
LEMMA LedgerRests ==
    ASSUME \A r \in Requests : SamePlace(r) /\ Stage'[r] = Stage[r], Serving' = Serving, Served' = Served
    PROVE  Ledger!Next
<1>1. Stage' = Stage /\ Priorities' = Priorities /\ Places' = Places
  BY DEF SamePlace, Stage, Priorities, Places
<1> QED
  BY <1>1 DEF Ledger!Next, Ledger!Hold, Paused

\* One turn changes.
OneTurn(k) == /\ \A q \in Requests : SamePlace(q) /\ (q # k => turn'[q].status = turn[q].status)
              /\ UNCHANGED control
              /\ Serving' = Serving /\ Served' = Served

LEMMA TurnBecomes ==
    ASSUME NEW k \in Requests, OneTurn(k), NEW to, Stage'[k] = to
    PROVE  Ledger!Becomes(k, to)
<1>1. \A q \in Requests : q # k => Stage'[q] = Stage[q]
  BY StageRows DEF OneTurn, ActiveTurn
<1>2. Stage' = [Stage EXCEPT ![k] = to]
  BY <1>1 DEF Stage
<1>3. Priorities' = Priorities /\ Places' = Places /\ Paused' = Paused
  BY DEF OneTurn, SamePlace, Priorities, Places, Paused
<1> QED
  BY <1>2, <1>3 DEF Ledger!Becomes, OneTurn

LEMMA TurnFinishes ==
    ASSUME turn \in [Requests -> TurnRows], NEW k \in Requests, OneTurn(k), k \notin Serving, HasRow(k), ~Completed(k),
           EndedTurn(k)', Completed(k)' => HasRun(k)
    PROVE  Ledger!Next
<1>1. Stage[k] \notin {"absent", "completed"}
  BY StageRows DEF HasRow, Completed
<1>2. Stage'[k] = turn'[k].status /\ turn'[k].status \in Ledger!TurnOutcomes
  BY StageRows DEF EndedTurn, ActiveTurn, ActiveQueueStatuses, TerminalQueueStatuses, Ledger!TurnOutcomes
<1>3. turn'[k].status = "completed" => k \in Served
  BY DEF Completed, HasRun, Served
<1>4. Ledger!Finish(k, turn'[k].status)
  BY <1>1, <1>2, <1>3, TurnBecomes DEF Ledger!Finish
<1> QED
  BY <1>2, <1>4 DEF Ledger!Next

LEMMA TurnReturns ==
    ASSUME NEW k \in Requests, OneTurn(k), k \notin Serving, ActiveTurn(k), Queued(k)'
    PROVE  Ledger!Next
<1>1. Stage[k] = "active" /\ Stage'[k] = "queued"
  BY StageRows DEF Queued, ActiveTurn, ActiveQueueStatuses
<1>2. Ledger!Return(k)
  BY <1>1, TurnBecomes DEF Ledger!Return
<1> QED
  BY <1>2 DEF Ledger!Next
-----------------------------------------------------------------------------
(* Each step is one of the ledger's. *)

LEMMA EnqueueEnters ==
    ASSUME turn \in [Requests -> TurnRows], NEW k \in Requests, NEW steer \in BOOLEAN, Enqueue(k, steer),
           Serving' = Serving, Served' = Served
    PROVE  Ledger!Next
<1>1. PICK row \in NewTurn(IF steer THEN 1 ELSE 0, None) : turn' = [turn EXCEPT ![k] = row]
  BY DEF Enqueue
<1>2. PICK top \in Requests : /\ \A q \in Requests : turn[q].sequence <= turn[top].sequence
                              /\ row = [NoTurn EXCEPT !.status = "queued", !.priority = IF steer THEN 1 ELSE 0,
                                                      !.sequence = turn[top].sequence + 1, !.parent = None]
  BY <1>1 DEF NewTurn
<1>3. /\ row.status = "queued" /\ row.priority \in {0, 1} /\ row.sequence = turn[top].sequence + 1
      /\ turn'[k] = row /\ \A q \in Requests : q # k => turn'[q] = turn[q]
  BY <1>1, <1>2 DEF NoTurn
<1>4. Stage[k] = "absent" /\ Stage' = [Stage EXCEPT ![k] = "queued"]
  <2>1. turn[k].status = "absent"
    BY DEF Enqueue
  <2>2. Stage[k] = "absent" /\ Stage'[k] = "queued"
    BY <1>3, <2>1, StageRows DEF ActiveTurn, ActiveQueueStatuses
  <2>3. \A q \in Requests : q # k => Stage'[q] = Stage[q]
    BY <1>3, StageRows DEF ActiveTurn
  <2> QED
    BY <2>2, <2>3 DEF Stage
<1>5. \E urgency \in {0, 1} : Priorities' = [Priorities EXCEPT ![k] = urgency]
  BY <1>3 DEF Priorities
<1>6. Places' = [Places EXCEPT ![k] = Places'[k]] /\ Places'[k] = turn[top].sequence + 1
  BY <1>3 DEF Places
<1>7. \A q \in Requests : Places[q] < Places'[k]
  <2>1. \A q \in Requests : turn[q].sequence \in Nat
    BY DEF TurnRows
  <2> QED
    BY <1>2, <1>6, <2>1 DEF Places
<1>8. Cardinality(Ledger!At({"queued", "active"})) < MaxTurns
  BY LedgerSets DEF Enqueue, Room
<1>9. Paused' = Paused
  BY DEF Enqueue, Paused
<1>10. Ledger!Enter(k)
  <2>1. Stage[k] = "absent" /\ Stage' = [Stage EXCEPT ![k] = "queued"]
    BY <1>4
  <2>2. Places' = [Places EXCEPT ![k] = Places'[k]]
    BY <1>6
  <2>3. UNCHANGED <<Paused, Serving, Served>>
    BY <1>9
  <2>4. Ledger!Cardinality(Ledger!At({"queued", "active"})) < MaxTurns
    BY <1>8 DEF Cardinality, Ledger!Cardinality
  <2> QED
    BY <1>5, <1>7, <2>1, <2>2, <2>3, <2>4 DEF Ledger!Enter
<1> QED
  BY <1>10 DEF Ledger!Next

LEMMA PromoteRaises ==
    ASSUME turn \in [Requests -> TurnRows], NEW k \in Requests, Promote(k), Serving' = Serving, Served' = Served
    PROVE  Ledger!Next
<1>1. PICK top \in InStatus({"queued"}) :
          /\ \A q \in InStatus({"queued"}) : turn[q].priority <= turn[top].priority
          /\ turn' = [turn EXCEPT ![k].priority = turn[top].priority + 1]
  BY DEF Promote
<1>2. /\ \A q \in Requests : turn'[q].status = turn[q].status /\ turn'[q].sequence = turn[q].sequence
      /\ \A q \in Requests : q # k => turn'[q].priority = turn[q].priority
      /\ turn'[k].priority = turn[top].priority + 1
  BY <1>1 DEF TurnRows
<1>3. Stage[k] = "queued" /\ Stage' = Stage /\ Places' = Places
  <2>1. \A q \in Requests : Stage'[q] = Stage[q]
    BY <1>2, StageRows DEF ActiveTurn
  <2>2. Stage[k] = "queued"
    BY StageRows DEF Promote, ActiveTurn, ActiveQueueStatuses
  <2> QED
    BY <1>2, <2>1, <2>2 DEF Stage, Places
<1>4. Priorities' = [Priorities EXCEPT ![k] = Priorities'[k]] /\ Priorities'[k] = turn[top].priority + 1
  BY <1>2 DEF Priorities
<1>5. \A q \in Ledger!At({"queued"}) : Priorities[q] < Priorities'[k]
  <2>1. \A q \in InStatus({"queued"}) : turn[q].priority \in Nat /\ Priorities[q] = turn[q].priority
    BY DEF TurnRows, InStatus, Priorities
  <2> QED
    BY <1>1, <1>4, <2>1, LedgerSets
<1>6. Ledger!Raise(k)
  BY <1>3, <1>4, <1>5 DEF Ledger!Raise, Promote, Paused
<1> QED
  BY <1>6 DEF Ledger!Next

LEMMA ClearingClears ==
    ASSUME turn \in [Requests -> TurnRows], turn' = [r \in Requests |-> ClearedTurn(turn[r])], control' = "open",
           Serving' = Serving, Served' = Served
    PROVE  Ledger!Next
<1>1. \A r \in Requests : turn'[r] = ClearedTurn(turn[r])
  OBVIOUS
<1>2. \A r \in Requests : SamePlace(r)
  BY <1>1, RowsKeepPlace
<1>3. ASSUME NEW r \in Requests
      PROVE  Stage'[r] = IF Stage[r] \in {"queued", "failed"} THEN "cancelled" ELSE Stage[r]
  <2>0. turn[r] \in TurnRows /\ turn[r].status \in QueueStatuses \cup {"absent"}
    BY DEF TurnRows
  <2>1. CASE turn[r].status \in ActiveQueueStatuses
    <3>1. turn'[r].status = "cancelling"
      <4>1. turn'[r] = [turn[r] EXCEPT !.status = "cancelling"]
        BY <1>1, <2>1 DEF ClearedTurn, ActiveQueueStatuses
      <4> QED
        BY <2>0, <4>1 DEF TurnRows
    <3> QED
      BY <2>1, <3>1, StageRows DEF ActiveTurn, ActiveQueueStatuses
  <2>2. CASE turn[r].status \in {"queued", "failed"}
    <3>1. turn'[r].status = "cancelled"
      BY <1>1, <2>0, <2>2 DEF ClearedTurn, CancelledTurn, TurnRows, ActiveQueueStatuses
    <3> QED
      BY <2>2, <3>1, StageRows DEF ActiveTurn, ActiveQueueStatuses
  <2>3. CASE turn[r].status \notin ActiveQueueStatuses \cup {"queued", "failed"}
    <3>1. turn'[r] = turn[r]
      BY <1>1, <2>0, <2>3 DEF ClearedTurn
    <3> QED
      BY <2>3, <3>1, StageRows DEF ActiveTurn
  <2> QED
    BY <2>1, <2>2, <2>3
<1>4. Stage' = [r \in Requests |-> IF Stage[r] \in {"queued", "failed"} THEN "cancelled" ELSE Stage[r]]
  BY <1>3 DEF Stage
<1>5. Ledger!Clear
  BY <1>2, <1>4 DEF Ledger!Clear, SamePlace, Priorities, Places, Paused
<1> QED
  BY <1>5 DEF Ledger!Next

\* A waiting or paused turn is cancelled; one under a worker stays active, an ended one as it is.
LEMMA CancellingAdvances ==
    ASSUME TurnInv, NEW k \in Requests \cup {None}, CancelTurn(k), UNCHANGED control,
           Serving' = Serving, Served' = Served
    PROVE  Ledger!Next
<1>0. turn \in [Requests -> TurnRows] /\ None \notin Requests
  BY TurnInvTypes, NoneAssumption
<1>1. \A r \in Requests : turn'[r] = IF r = k THEN CancelRequestedTurn(turn[r]) ELSE turn[r]
  BY <1>0 DEF CancelTurn
<1>2. \A r \in Requests : SamePlace(r)
  BY <1>0, <1>1, RowsKeepPlace
<1>3. CASE k \in Requests /\ turn[k].status \in {"queued"} \cup PausedQueueStatuses
  <2>1. turn'[k].status = "cancelled"
    BY <1>0, <1>1, <1>3 DEF CancelRequestedTurn, CancelledTurn, TurnRows
  <2>2. k \notin Serving
    BY <1>3, ServingMeans DEF Claimed, PausedQueueStatuses
  <2>3. OneTurn(k)
    BY <1>1, <1>2 DEF OneTurn
  <2>4. HasRow(k) /\ ~Completed(k)
    BY <1>3 DEF HasRow, Completed, PausedQueueStatuses
  <2>5. EndedTurn(k)' /\ ~Completed(k)'
    BY <2>1 DEF EndedTurn, TerminalQueueStatuses, Completed
  <2> QED
    BY <1>0, <1>3, <2>2, <2>3, <2>4, <2>5, TurnFinishes
<1>4. CASE k \in Requests => turn[k].status \notin {"queued"} \cup PausedQueueStatuses
  <2>1. ASSUME NEW r \in Requests
        PROVE  Stage'[r] = Stage[r]
    <3>1. CASE turn'[r] = turn[r]
      BY <3>1, StageRows DEF ActiveTurn
    <3>2. CASE turn'[r] # turn[r]
      <4>1. turn[r].status \in ActiveQueueStatuses /\ turn'[r] = [turn[r] EXCEPT !.status = "cancelling"]
        BY <1>1, <1>4, <3>2 DEF CancelRequestedTurn, QueueableStatuses
      <4>2. turn'[r].status = "cancelling"
        BY <1>0, <4>1 DEF TurnRows
      <4> QED
        BY <4>1, <4>2, StageRows DEF ActiveTurn, ActiveQueueStatuses
    <3> QED
      BY <3>1, <3>2
  <2> QED
    BY <1>2, <2>1, LedgerRests
<1> QED
  BY <1>3, <1>4

\* A paused turn that is resumed was active and stays so.
LEMMA AnswerRests ==
    ASSUME OrderlyUse, TurnInv, NEW c \in Clients, NEW k \in Requests, Answer(c, k),
           Serving' = Serving, Served' = Served
    PROVE  Ledger!Next
<1>0. StoreOK /\ Core /\ turn \in [Requests -> TurnRows]
  BY TurnInvTypes
<1>1. turn[k].status \in PausedQueueStatuses /\ turn' = [turn EXCEPT ![k] = Resumed(turn[k])]
  BY <1>0, AnswerDoes
<1>2. ASSUME NEW r \in Requests
      PROVE  SamePlace(r) /\ Stage'[r] = Stage[r]
  <2>1. CASE r = k
    <3>1. turn'[k] = Resumed(turn[k]) /\ HasRow(k)
      BY <1>0, <1>1 DEF HasRow, PausedQueueStatuses
    <3>2. turn'[k].status = "running"
      BY <1>0, <3>1 DEF Resumed, TurnRows
    <3> QED
      BY <1>0, <1>1, <2>1, <3>1, <3>2, RowsKeepPlace, StageRows
         DEF ActiveTurn, ActiveQueueStatuses, PausedQueueStatuses
  <2>2. CASE r # k
    <3>1. turn'[r] = turn[r]
      BY <1>1, <2>2
    <3> QED
      BY <1>0, <3>1, RowsKeepPlace, StageRows DEF ActiveTurn
  <2> QED
    BY <2>1, <2>2
<1> QED
  BY <1>2, LedgerRests

\* A claim is taken in the order of the queue, with no turn active and no pause.
LEMMA ClaimBegins ==
    ASSUME turn \in [Requests -> TurnRows], NEW k \in Requests, Claim(k), Serving' = Serving, Served' = Served
    PROVE  Ledger!Next
<1>1. \A r \in Requests : turn'[r] = IF r = k THEN [turn[k] EXCEPT !.status = "running", !.started = "fresh"]
                                     ELSE turn[r]
  BY DEF Claim
<1>2. OneTurn(k) /\ turn'[k].status = "running" /\ turn[k].status = "queued"
  BY <1>1 DEF Claim, Claimable, FirstQueued, OneTurn, SamePlace, TurnRows
<1>3. Ledger!Becomes(k, "active")
  BY <1>2, StageRows, TurnBecomes DEF ActiveTurn, ActiveQueueStatuses
<1>4. Ledger!At({"active"}) = {}
  BY LedgerSets DEF Claim, Claimable, InStatus, ActiveTurn
<1>5. Ledger!GoesFirst(k)
  BY LedgerSets DEF Claim, Claimable, FirstQueued, RunsBefore, Ledger!GoesFirst, Priorities, Places, InStatus
<1>6. Stage[k] = "queued" /\ ~Paused
  BY <1>2, StageRows DEF ActiveTurn, ActiveQueueStatuses, Claim, Claimable
<1>7. Ledger!Begin(k)
  BY <1>3, <1>4, <1>5, <1>6 DEF Ledger!Begin
<1> QED
  BY <1>7 DEF Ledger!Next

\* A claim that could not be submitted is not under a worker, as long as jobs arrive in time.
LEMMA ReleaseReturns ==
    ASSUME TurnInv, NEW d \in Dispatchers, NEW k \in Requests, Submits(d, k), ReleaseClaim(k),
           Serving' = Serving, Served' = Served
    PROVE  Ledger!Next
<1>0. turn \in [Requests -> TurnRows] /\ Core
  BY TurnInvTypes
<1>1. \A r \in Requests : turn'[r] = IF r = k /\ turn[k].status = "running" THEN Requeued(turn[k]) ELSE turn[r]
  BY <1>0 DEF ReleaseClaim
<1>2. k \notin Serving
  BY <1>0, ServingMeans DEF Core, SubmitsFirst
<1>3. CASE turn[k].status = "running"
  <2>1. turn'[k].status = "queued" /\ OneTurn(k)
    BY <1>0, <1>1, <1>3 DEF ReleaseClaim, OneTurn, SamePlace, Requeued, TurnRows
  <2> QED
    BY <1>2, <1>3, <2>1, TurnReturns DEF ActiveTurn, ActiveQueueStatuses, Queued
<1>4. CASE turn[k].status # "running"
  <2>1. \A r \in Requests : turn'[r] = turn[r]
    BY <1>1, <1>4
  <2> QED
    BY <2>1, StageRows, LedgerRests DEF SamePlace, ActiveTurn
<1> QED
  BY <1>3, <1>4

LEMMA HandlersAdvance ==
    ASSUME OrderlyUse, TurnInv, NEW c \in Clients, ApiStep(c) \/ ApiFinishes(c), UNCHANGED worker,
           \A closing : RecoverTerminalRuns(closing) \/ RecoverClaims(closing) => Ledger!Next
    PROVE  Ledger!Next
<1>0. StoreOK /\ Plain /\ Core /\ turn \in [Requests -> TurnRows]
  BY TurnInvTypes
<1>1. Serving' = Serving
  BY ServingKept DEF ExecutesRun, Key
<1>2. Served' = Served
  BY <1>0, HandlersKeepRuns, ServedKept
<1>3. CASE UNCHANGED turn
  BY <1>1, <1>2, <1>3, StageRows, LedgerRests DEF SamePlace, ActiveTurn
<1> QED
  BY <1>0, <1>1, <1>2, <1>3, HandlersWriteTurns, AnswerRests, EnqueueEnters, PromoteRaises, CancellingAdvances,
     ClearingClears

\* Recovery of abandoned runs: at most one looks alive, and nobody executes it.
LEMMA TerminalRunsAdvance ==
    ASSUME TurnInv, Durable, \A r \in Requests : Lingers(r),
           NEW closing, RecoverTerminalRuns(closing), Serving' = Serving
    PROVE  Ledger!Next
<1>0. StoreOK /\ Core /\ turn \in [Requests -> TurnRows] /\ StoreTypeOK
  BY TurnInvTypes DEF StoreOK
<1>1. UNCHANGED control /\ \A r \in Requests : SamePlace(r)
  BY <1>0, RecoveryKeepsPlaces DEF RecoverTerminalRuns
<1>2. Served' = Served
  BY <1>0, RecoveryKeepsRuns, ServedKept
<1>3. CASE \A r \in Requests : ~Orphaned(r)
  <2>1. \A r \in Requests : turn'[r] = turn[r]
    BY <1>3 DEF RecoverTerminalRuns
  <2> QED
    BY <1>1, <1>2, <2>1, StageRows, LedgerRests DEF ActiveTurn
<1>4. ASSUME NEW k \in Requests, Orphaned(k)
      PROVE  Ledger!Next
  <2>1. ActiveRun(k) /\ EndedTurn(k) /\ run[k].beat # "fresh" /\ HasRun(k)
    BY <1>4 DEF Orphaned, WorkerRunStatuses, ActiveRun, ActiveRunStatuses, EndedTurn, OlderThanTen, HasRun
  <2>2. \A r \in Requests : r # k => ~Orphaned(r)
    BY <1>0, <2>1 DEF Core, OneBusy, Busy, Orphaned, WorkerRunStatuses, ActiveRun, ActiveRunStatuses
  <2>3. OneTurn(k)
    BY <1>1, <1>2, <2>2 DEF OneTurn, RecoverTerminalRuns
  <2>4. k \notin Serving
    <3>1. \A w \in Workers : worker[w].pc # "idle" => Key(w) # k
      BY <1>0, <2>1 DEF Core, Silent
    <3> QED
      BY <3>1, ServingMeans
  <2>5. turn'[k].status = FinishStatus(TurnOutcome(OrphanOutcome(k)))
    <3>1. turn'[k] = FinishedTurn(turn[k], TurnOutcome(OrphanOutcome(k)))
      BY <1>4 DEF RecoverTerminalRuns
    <3> QED
      BY <1>0, <3>1 DEF FinishedTurn, TurnRows
  <2>6. CASE turn'[k].status \in PausedQueueStatuses
    <3>1. \A r \in Requests : ~ActiveTurn(r)
      <4>1. ~ActiveTurn(k)
        BY <2>1 DEF EndedTurn, ActiveTurn, TerminalQueueStatuses, ActiveQueueStatuses
      <4> QED
        BY <1>0, <2>1, <4>1 DEF Core, OneBusy, Busy
    <3>2. Stage[k] = "cancelled"
      BY <2>1, <3>1, StageRows DEF Lingers
    <3>3. Ledger!Becomes(k, "active")
      BY <2>3, <2>6, StageRows, TurnBecomes DEF ActiveTurn, ActiveQueueStatuses, PausedQueueStatuses
    <3>4. Ledger!At({"active"}) = {}
      BY <1>0, <3>1, LedgerSets
    <3>5. Ledger!Reopen(k)
      BY <3>2, <3>3, <3>4 DEF Ledger!Reopen
    <3> QED
      BY <3>5 DEF Ledger!Next
  <2>7. CASE turn'[k].status \notin PausedQueueStatuses
    <3>1. EndedTurn(k)'
      BY <2>5, <2>7 DEF FinishStatus, EndedTurn, TerminalQueueStatuses
    <3>2. HasRow(k) /\ ~Completed(k)
      BY <2>1 DEF Durable, IsDone, EndedTurn, TerminalQueueStatuses, HasRow
    <3> QED
      BY <1>0, <2>1, <2>3, <2>4, <3>1, <3>2, TurnFinishes
  <2> QED
    BY <2>6, <2>7
<1> QED
  BY <1>3, <1>4

\* Recovery of stale claims, which nobody executes as long as no run is alive.
LEMMA ClaimsAdvance ==
    ASSUME TurnInv, NEW closing, RecoverClaims(closing), Serving' = Serving
    PROVE  Ledger!Next
<1>0. StoreOK /\ Core /\ turn \in [Requests -> TurnRows]
  BY TurnInvTypes
<1>1. UNCHANGED control /\ \A r \in Requests : SamePlace(r)
  BY <1>0, RecoveryKeepsPlaces DEF RecoverClaims
<1>2. Served' = Served
  BY <1>0, RecoveryKeepsRuns, ServedKept
<1>3. CASE RunIsActive \/ StaleClaims = {}
  <2>1. \A r \in Requests : turn'[r] = turn[r]
    BY <1>3 DEF RecoverClaims
  <2> QED
    BY <1>1, <1>2, <2>1, StageRows, LedgerRests DEF ActiveTurn
<1>4. ASSUME ~RunIsActive, NEW k \in StaleClaims
      PROVE  Ledger!Next
  <2>1. k \in Requests /\ Claimed(k) /\ ActiveTurn(k) /\ HasRow(k) /\ ~Completed(k)
    BY <1>4 DEF StaleClaims, InStatus, Claimed, ActiveTurn, ActiveQueueStatuses, HasRow, Completed
  <2>2. \A r \in Requests : r # k => r \notin StaleClaims
    BY <1>0, <2>1 DEF Core, OneBusy, Busy, StaleClaims, InStatus, ActiveTurn, ActiveQueueStatuses
  <2>3. OneTurn(k)
    BY <1>1, <1>2, <2>2 DEF OneTurn, RecoverClaims
  <2>4. k \notin Serving
    BY <1>4, ServingMeans DEF RunIsActive, ActiveRun
  <2>5. turn'[k] = RecoveredTurn(k)
    BY <1>4, <2>1 DEF RecoverClaims
  <2>6. \/ \E status \in {"failed", "cancelled"} : turn'[k] = FinishedTurn(turn[k], status)
        \/ turn'[k] = FinishedTurn(turn[k], "completed") /\ run[k].status = "completed"
        \/ turn'[k] = Requeued(turn[k])
    BY <2>5 DEF RecoveredTurn
  <2>7. ASSUME NEW status \in TerminalQueueStatuses, turn'[k] = FinishedTurn(turn[k], status),
               status = "completed" => HasRun(k)
        PROVE  Ledger!Next
    <3>1. turn'[k].status = status
      BY <1>0, <2>1, <2>7 DEF FinishedTurn, FinishStatus, TurnRows
    <3> QED
      BY <1>0, <2>1, <2>3, <2>4, <2>7, <3>1, TurnFinishes DEF EndedTurn, Completed
  <2>8. CASE turn'[k] = Requeued(turn[k])
    <3>1. Queued(k)'
      BY <1>0, <2>1, <2>8 DEF Queued, Requeued, TurnRows
    <3> QED
      BY <2>1, <2>3, <2>4, <3>1, TurnReturns
  <2> QED
    BY <2>6, <2>7, <2>8 DEF TerminalQueueStatuses, HasRun
<1> QED
  BY <1>3, <1>4

LEMMA RecoveryAdvances ==
    ASSUME TurnInv, Durable, \A r \in Requests : Lingers(r), Serving' = Serving
    PROVE  \A closing : RecoverTerminalRuns(closing) \/ RecoverClaims(closing) => Ledger!Next
BY TerminalRunsAdvance, ClaimsAdvance

LEMMA DispatchersAdvance ==
    ASSUME TurnInv, Durable, \A r \in Requests : Lingers(r), NEW d \in Dispatchers, DispStep(d), UNCHANGED worker
    PROVE  Ledger!Next
<1>0. turn \in [Requests -> TurnRows] /\ (disp[d].pc = "submit" => disp[d].key \in Requests)
  BY TurnInvTypes
<1>1. Serving' = Serving
  BY ServingKept DEF ExecutesRun, Key
<1>2. CASE UNCHANGED <<run, turn>>
  BY <1>1, <1>2, StageRows, LedgerRests DEF SamePlace, ActiveTurn, Served
<1>3. ASSUME NEW r \in Requests, Claim(r) \/ (Submits(d, r) /\ ReleaseClaim(r))
      PROVE  Ledger!Next
  <2>1. Served' = Served
    BY <1>3 DEF Claim, ReleaseClaim, Served
  <2> QED
    BY <1>0, <1>1, <1>3, <2>1, ClaimBegins, ReleaseReturns
<1> QED
  BY <1>0, <1>1, <1>2, <1>3, RecoveryAdvances, DispatchersWriteTurns

\* A worker that ends its turn has left the run, and reports it completed only if it executed it.
LEMMA ConclusionFinishes ==
    ASSUME TurnInv, Durable, Started, NEW w \in Workers, NEW k \in Requests, Key(w) = k, Concludes(w, k),
           \A r \in Requests : SamePlace(r), UNCHANGED control, Serving' = Serving, Served' = Served
    PROVE  Ledger!Next
<1>0. Core /\ LockHeld /\ turn \in [Requests -> TurnRows] /\ StoreOK
  BY TurnInvTypes
<1>1. worker[w].pc \in {"early_turn", "final_turn"}
  BY DEF Concludes
<1>2. k \notin Serving
  BY <1>0, <1>1, ServingMeans, LockHeldExcludes DEF OneWorkerPerKey
<1>3. CASE ~HasTurn(k)
  BY <1>3, StageRows, LedgerRests DEF Concludes, FinishTurnOf, ActiveTurn
<1>4. CASE HasTurn(k)
  <2>1. HasRow(k) /\ ~Completed(k)
    BY <1>1, <1>4 DEF HasTurn, Durable, IsDone
  <2>2. ASSUME NEW status, FinishTurnOf(k, status)
        PROVE  OneTurn(k) /\ turn'[k].status = FinishStatus(status)
    BY <1>0, <1>4, <2>2 DEF FinishTurnOf, FinishedTurn, TurnRows, OneTurn
  <2>3. ASSUME NEW status, FinishTurnOf(k, status), FinishStatus(status) \in TerminalQueueStatuses,
               FinishStatus(status) = "completed" => HasRun(k)
        PROVE  Ledger!Next
    BY <1>0, <1>2, <2>1, <2>2, <2>3, TurnFinishes DEF EndedTurn, Completed
  <2>4. CASE FinishTurnOf(k, "cancelled")
    BY <2>3, <2>4 DEF FinishStatus, TerminalQueueStatuses
  <2>5. CASE worker[w].pc = "final_turn" /\ FinishTurnOf(k, TurnStatusOf(worker[w].out))
    <3>1. CASE worker[w].out \in PausedQueueStatuses
      <4>1. Claimed(k)
        BY <1>0, <2>5, <3>1 DEF Core, WorkerFits, Holds
      <4>2. turn'[k].status \in PausedQueueStatuses
        BY <2>2, <2>5, <3>1 DEF FinishStatus, TurnStatusOf, PausedQueueStatuses
      <4> QED
        BY <2>2, <2>5, <4>1, <4>2, StageRows, LedgerRests
           DEF OneTurn, Claimed, ActiveTurn, ActiveQueueStatuses, PausedQueueStatuses
    <3>2. CASE worker[w].out \notin PausedQueueStatuses
      <4>1. FinishStatus(TurnStatusOf(worker[w].out)) \in TerminalQueueStatuses
        BY <3>2 DEF FinishStatus, TurnStatusOf, PausedQueueStatuses, TerminalQueueStatuses
      <4>2. FinishStatus(TurnStatusOf(worker[w].out)) = "completed" => worker[w].out \in {"ready", "blocked"}
        <5>1. worker[w].out \in FrameKinds
          BY <1>0, <2>5 DEF StoreOK, WorkerOK, WorkerCarries
        <5>2. worker[w].out \in {"error", "failed"} => FinishStatus(TurnStatusOf(worker[w].out)) = "failed"
          BY DEF FinishStatus, TurnStatusOf, TerminalQueueStatuses
        <5>3. worker[w].out = "cancelled" => FinishStatus(TurnStatusOf(worker[w].out)) = "cancelled"
          BY DEF FinishStatus, TurnStatusOf, TerminalQueueStatuses
        <5> QED
          BY <3>2, <5>1, <5>2, <5>3 DEF FrameKinds, DoneStatuses, PausedQueueStatuses
      <4>3. worker[w].out \in {"ready", "blocked"} => HasRun(k)
        BY <2>5 DEF Started, Executed
      <4> QED
        BY <2>3, <2>5, <4>1, <4>2, <4>3
    <3> QED
      BY <3>1, <3>2
  <2> QED
    BY <2>4, <2>5 DEF Concludes
<1> QED
  BY <1>3, <1>4

LEMMA StoreRests ==
    ASSUME UNCHANGED <<run, turn>>, Serving' = Serving
    PROVE  Ledger!Next
BY StageRows, LedgerRests DEF SamePlace, ActiveTurn, Served

\* The worker that executes leaves its run; no other one executes.
LEMMA WorkerLeaves ==
    ASSUME TurnInv, NEW w \in Workers, ExecutesRun(w), ~ExecutesRun(w)', UNCHANGED <<turn, control>>,
           \A v \in Workers : v # w => worker'[v] = worker[v], Served' = Served
    PROVE  Ledger!Next
<1>1. ASSUME NEW v \in Workers, ExecutesRun(v)
      PROVE  v = w
  <2>1. Key(v) = Key(w)
    BY <1>1, ServingMeans
  <2> QED
    BY <1>1, <2>1, TurnInvTypes, LockHeldExcludes DEF OneWorkerPerKey, ExecutesRun
<1>2. \A v \in Workers : ~ExecutesRun(v)'
  BY <1>1 DEF ExecutesRun
<1>3. Serving' = {}
  BY <1>2 DEF Serving
<1>4. UNCHANGED <<Stage, Priorities, Places, Paused>>
  BY DEF Stage, Active, InStatus, Priorities, Places, Paused
<1>5. Ledger!Leave
  BY <1>3, <1>4 DEF Ledger!Leave
<1> QED
  BY <1>5 DEF Ledger!Next

\* A worker enters a run: it is the only one that does, and the turn is active.
LEMMA WorkerServes ==
    ASSUME TurnInv, NEW w \in Workers, NEW k \in Requests, OwnStep(w, k), ~ExecutesRun(w), worker'[w].pc = "stream",
           UNCHANGED <<turn, control>>, \A q \in Requests : q # k => KeepsRun(q)
    PROVE  Ledger!Next
<1>0. Core /\ LockHeld
  BY TurnInvTypes
<1>1. Key(w) = k /\ Key(w)' = k /\ worker[w].pc # "idle" /\ WorkerFits(w)'
  BY DEF OwnStep, Key
<1>2. Claimed(k)' /\ ActiveRun(k)'
  BY <1>1 DEF WorkerFits, Holds
<1>3. ActiveTurn(k) /\ HasRun(k)'
  BY <1>2 DEF Claimed, ActiveTurn, ActiveQueueStatuses, ActiveRun, ActiveRunStatuses, HasRun
<1>4. \A v \in Workers : ~ExecutesRun(v)
  <2> SUFFICES ASSUME NEW v \in Workers, ExecutesRun(v) PROVE FALSE
    OBVIOUS
  <2>1. Key(v) \in Requests /\ ActiveRun(Key(v)) /\ worker[v].pc # "idle"
    BY ServingMeans DEF ExecutesRun
  <2>2. Key(v) = k
    BY <1>0, <1>3, <2>1 DEF Core, OneBusy, Busy
  <2> QED
    BY <1>0, <1>1, <2>1, <2>2, LockHeldExcludes DEF OneWorkerPerKey
<1>5. Serving = {} /\ Serving' = {k}
  <2>1. \A v \in Workers : ExecutesRun(v)' <=> v = w
    BY <1>4 DEF OwnStep, ExecutesRun
  <2> QED
    BY <1>1, <1>4, <2>1 DEF Serving
<1>6. Served' = Served \cup {k}
  BY <1>3 DEF KeepsRun, HasRun, Served
<1>7. UNCHANGED <<Stage, Priorities, Places, Paused>>
  BY DEF Stage, Active, InStatus, Priorities, Places, Paused
<1>8. Ledger!Serve(k)
  BY <1>3, <1>5, <1>6, <1>7, StageRows DEF Ledger!Serve
<1> QED
  BY <1>8 DEF Ledger!Next

LEMMA WorkersAdvance ==
    ASSUME TurnInv, Durable, Started, NEW w \in Workers, NEW k \in Requests, Key(w) = k, WorkerActs(w), UNCHANGED beat
    PROVE  Ledger!Next
<1>0. StoreOK /\ Plain /\ NoCancels /\ Core /\ turn \in [Requests -> TurnRows] /\ WorkerOK
  BY TurnInvTypes DEF StoreOK
<1>1. OwnStep(w, k)
  BY <1>0, WorkerOwns
<1>2. \A q \in Requests : SamePlace(q)
  BY <1>0, WorkersKeepPlaces DEF WorkerActs
<1>3. UNCHANGED control /\ (UNCHANGED turn \/ Concludes(w, k))
  BY <1>0, WorkersWriteTurns
<1>4. /\ (WorkCreate(w) /\ HasRun(k)') \/ KeepsRun(k)
      /\ \A q \in Requests : q # k => KeepsRun(q)
  BY <1>0, <1>1, WorkersKeepRuns, SameRunKeeps DEF OwnStep
<1>5. /\ ExecutesRun(w) <=> worker[w].pc = "stream"
      /\ ExecutesRun(w)' <=> worker'[w].pc = "stream"
  BY <1>0, ServingMeans, WorkerStaysPlain DEF ExecutesRun
<1>6. WorkCreate(w) => ~ExecutesRun(w) /\ ExecutesRun(w)'
  BY <1>0, <1>5, WorkerMoves DEF WorkCreate, Moved
<1>7. Concludes(w, k) => ~ExecutesRun(w) /\ ~ExecutesRun(w)'
  BY <1>5 DEF Concludes
<1>8. ~WorkCreate(w) => Served' = Served
  BY <1>4, ServedKept
<1>9. CASE ExecutesRun(w)' <=> ExecutesRun(w)
  <2>1. Serving' = Serving
    BY <1>1, <1>9, ServingKept DEF OwnStep, ExecutesRun, Key
  <2>2. Served' = Served
    BY <1>6, <1>8, <1>9
  <2>3. CASE UNCHANGED turn
    BY <1>2, <2>1, <2>2, <2>3, StageRows, LedgerRests DEF ActiveTurn
  <2> QED
    BY <1>2, <1>3, <2>1, <2>2, <2>3, ConclusionFinishes
<1>10. CASE ExecutesRun(w) /\ ~ExecutesRun(w)'
  BY <1>1, <1>3, <1>6, <1>7, <1>8, <1>10, WorkerLeaves DEF OwnStep
<1>11. CASE ~ExecutesRun(w) /\ ExecutesRun(w)'
  BY <1>1, <1>3, <1>4, <1>5, <1>7, <1>11, WorkerServes
<1> QED
  BY <1>9, <1>10, <1>11

LEMMA LedgerStep ==
    ASSUME OrderlyUse, TurnInv, Durable, Started, \A r \in Requests : Lingers(r), [Next]_vars
    PROVE  Ledger!Next
<1>0. /\ StoreOK /\ Plain /\ BeatTypeOK /\ WorkerOK /\ turn \in [Requests -> TurnRows] /\ run \in [Requests -> RunRows]
  BY TurnInvTypes DEF StoreOK
<1>1. ASSUME UNCHANGED worker
      PROVE  Serving' = Serving
  BY <1>1, ServingKept DEF ExecutesRun, Key
<1>2. ASSUME NEW c \in Clients, ApiStep(c) \/ ApiFinishes(c), UNCHANGED worker
      PROVE  Ledger!Next
  BY <1>1, <1>2, RecoveryAdvances, HandlersAdvance
<1>3. ASSUME NEW w \in Workers, WorkerActs(w), UNCHANGED beat
      PROVE  Ledger!Next
  BY <1>0, <1>3, WorkerActsOnOne, WorkersAdvance
<1>4. ASSUME NEW w \in Workers, WorkUnlock(w)
      PROVE  Ledger!Next
  <2>1. UNCHANGED <<run, turn>> /\ worker[w].pc = "unlock" /\ worker' = [worker EXCEPT ![w] = IdleWorker]
    BY <1>4 DEF WorkUnlock, StoreVars
  <2>2. \A v \in Workers : \/ worker'[v] = worker[v]
                           \/ ~ExecutesRun(v) /\ ~ExecutesRun(v)'
    BY <1>0, <2>1 DEF WorkerOK, IdleWorker, ExecutesRun
  <2> QED
    BY <2>1, <2>2, ServingKept, StoreRests DEF ExecutesRun, Key
<1>5. ASSUME NEW w \in Workers, NEW job \in jobs, NEW redelivered, WorkTake(w, job, redelivered)
      PROVE  Ledger!Next
  <2>1. UNCHANGED <<run, turn>>
    BY <1>5 DEF WorkTake, StoreVars
  <2>2. \A v \in Workers : \/ worker'[v] = worker[v]
                           \/ ~ExecutesRun(v) /\ ~ExecutesRun(v)'
    BY <1>0, <1>5 DEF WorkTake, WorkerOK, ExecutesRun
  <2> QED
    BY <2>1, <2>2, ServingKept, StoreRests DEF ExecutesRun, Key
<1>6. ASSUME BeatStep, UNCHANGED worker
      PROVE  Ledger!Next
  <2>1. ASSUME NEW k \in Requests, ExpireLease(k)
        PROVE  Ledger!Next
    <3>1. UNCHANGED turn /\ Served' = Served
      BY <1>0, <2>1, ExpiryKeepsRuns, ServedKept DEF ExpireLease
    <3> QED
      BY <1>1, <1>6, <3>1, StageRows, LedgerRests DEF SamePlace, ActiveTurn
  <2> QED
    BY <1>1, <1>6, <2>1, BeatTouches, RecoveryAdvances, StoreRests
<1>7. ASSUME NEW k \in Requests, TurnAges(k) \/ EndAges(k) \/ LeaseAges(k), UNCHANGED worker
      PROVE  Ledger!Next
  <2>1. \A r \in Requests : /\ SamePlace(r) /\ turn'[r].status = turn[r].status
                            /\ run'[r].status = run[r].status
    BY <1>0, <1>7 DEF TurnAges, EndAges, LeaseAges, SamePlace, TurnRows, RunRows
  <2> QED
    BY <1>1, <1>7, <2>1, StageRows, LedgerRests DEF ActiveTurn, Served
<1>8. CASE Crash
  <2>1. UNCHANGED <<run, turn, control>> /\ Served' = Served
    BY <1>8 DEF Crash, StoreVars, Served
  <2>2. UNCHANGED worker \/ \E w \in Workers : CrashWorker(w)
    BY <1>8 DEF Crash, CrashDispatcher, CrashClient, CrashBeat
  <2>3. ASSUME NEW w \in Workers, CrashWorker(w)
        PROVE  Ledger!Next
    <3>1. /\ worker'[w].pc = "idle" /\ ~ExecutesRun(w)'
          /\ \A v \in Workers : v # w => worker'[v] = worker[v]
      BY <1>0, <2>3 DEF CrashWorker, WorkerOK, IdleWorker, ExecutesRun
    <3>2. CASE ExecutesRun(w)
      BY <2>1, <3>1, <3>2, WorkerLeaves
    <3>3. CASE ~ExecutesRun(w)
      BY <2>1, <3>1, <3>3, ServingKept, StoreRests DEF ExecutesRun, Key
    <3> QED
      BY <3>2, <3>3
  <2> QED
    BY <1>1, <2>1, <2>2, <2>3, StoreRests
<1>9. CASE UNCHANGED <<run, turn, worker>>
  BY <1>1, <1>9, StoreRests
<1> QED
  BY <1>2, <1>3, <1>4, <1>5, <1>6, <1>7, <1>8, <1>9, DispatchersAdvance, NextCases
-----------------------------------------------------------------------------
\* The invariant under which every step is one of the ledger's.
LedgerInv == DurableInv /\ Started /\ \A r \in Requests : Lingers(r)

LEMMA LedgerInvariant ==
    ASSUME OrderlyUse
    PROVE  Spec => []LedgerInv
<1>1. Init => LedgerInv
  <2> SUFFICES ASSUME Init PROVE LedgerInv
    OBVIOUS
  <2>1. DurableInv
    BY TurnInvInitially DEF Init, DurableInv, Durable, IsDone, HasReported, Completed, TurnInit, NoTurn,
                            WorkersInit, IdleWorker
  <2>2. Started
    BY DEF Init, Started, Answered, Executed, RunInit, NoRun, WorkersInit, IdleWorker, BeatInit, IdleBeat
  <2>3. \A r \in Requests : Lingers(r)
    BY DEF Init, Lingers, EndedTurn, TerminalQueueStatuses, TurnInit, NoTurn
  <2> QED
    BY <2>1, <2>2, <2>3 DEF LedgerInv
<1>2. LedgerInv /\ [Next]_vars => LedgerInv'
  <2> SUFFICES ASSUME LedgerInv, [Next]_vars PROVE LedgerInv'
    OBVIOUS
  <2>1. TurnInv /\ Durable /\ Started /\ \A r \in Requests : Lingers(r)
    BY DEF LedgerInv, DurableInv
  <2>2. TurnInv' /\ Durable' /\ Started'
    BY <2>1, TurnInvPreserved, DurableStep, StartedStep
  <2>3. \A r \in Requests : Lingers(r)'
    BY <2>1, LingersStep
  <2> QED
    BY <2>2, <2>3 DEF LedgerInv, DurableInv
<1> QED
  BY <1>1, <1>2, PTL DEF Spec

\* For any requests, workers, dispatchers, clients and bounds, and whatever crashes or
\* expires: turns begin one at a time, in order and never in a pause, a turn that is
\* executed is neither put back nor ended, what is completed was executed, and nothing
\* happens to the queue but what TurnLedger lists.
THEOREM LedgerKept ==
    ASSUME OrderlyUse
    PROVE  Spec => KeepsLedger
<1>1. Init => Ledger!Init
  <2> SUFFICES ASSUME Init PROVE Ledger!Init
    OBVIOUS
  <2>1. Stage = [r \in Requests |-> "absent"] /\ Priorities = [r \in Requests |-> 0] /\ Places = [r \in Requests |-> 0]
    BY DEF Init, TurnInit, NoTurn, Stage, Active, InStatus, ActiveQueueStatuses, Priorities, Places
  <2>2. Serving = {} /\ Served = {}
    BY DEF Init, WorkersInit, IdleWorker, RunInit, NoRun, Serving, Served, ExecutesRun
  <2> QED
    BY <2>1, <2>2 DEF Ledger!Init, Paused
<1>2. LedgerInv /\ [Next]_vars => [Ledger!Next]_(Ledger!ledgerVars)
  BY LedgerStep DEF LedgerInv, DurableInv
<1> QED
  BY <1>1, <1>2, LedgerInvariant, PTL DEF Spec, KeepsLedger, Ledger!Spec
=============================================================================
