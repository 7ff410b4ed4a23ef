-------------------------- MODULE DeepSpaceTurnProofs --------------------------
(***************************************************************************)
(* One turn at a time: what claim_next checks in one transaction stays     *)
(* true although the turn, its run and the worker are then changed by many *)
(* processes in commits of their own.                                      *)
(***************************************************************************)
EXTENDS DeepSpaceRowProofs

\* Nobody cancels anything.
Uncancelled == Ops \cap {"pause", "clear", "cancel", "cancel_queued"} = {}

\* The users and the broker for whom the queue keeps its promise.  What is left
\* out breaks it: run_now submits without a claim, a retry relabels a run under
\* its worker, a decision does not refresh the heartbeat of the run it continues,
\* and an answer re-opens a turn that a cancellation or the beat still has in hand.
OrderlyUse ==
    /\ PromptDelivery /\ PatientUsers
    /\ Ops \cap {"retry", "run_now", "decide", "approve"} = {}
    /\ "answer" \in Ops => Uncancelled

ActiveTurn(r) == turn[r].status \in ActiveQueueStatuses
ActiveRun(r) == run[r].status \in ActiveRunStatuses
Busy(r) == ActiveTurn(r) \/ ActiveRun(r)
Claimed(r) == turn[r].status \in {"running", "cancelling"}
Waiting(r) == turn[r].status \in {"absent", "queued"}
EndedTurn(r) == turn[r].status \in TerminalQueueStatuses

\* A worker that is on its way to executing a claimed turn, and one that
\* executes a run or will report that it waits for the user.
Brings(w) == /\ worker[w].job.kind = "turn"
             /\ worker[w].pc \in {"check", "early_runs", "early_turn", "start", "create"}
Holds(w) == \/ worker[w].pc = "stream"
            \/ /\ worker[w].pc \in {"final_check", "save", "emit", "final_run", "final_turn"}
               /\ worker[w].out \in PausedQueueStatuses
Submits(d, r) == disp[d].pc = "submit" /\ disp[d].key = r
Sent(r) == \E job \in jobs : job.kind = "turn" /\ job.key = r

Carried(r) == \/ \E d \in Dispatchers : Submits(d, r)
              \/ Sent(r)
              \/ \E w \in Workers : Brings(w) /\ Key(w) = r
-----------------------------------------------------------------------------
(* The inductive invariant. *)

\* Jobs continue the turn whose key they carry.
PlainJob(job) == /\ job.kind \in {"turn", "answer"}
                 /\ job.kind = "answer" => Uncancelled
                 /\ job.key \in Requests
                 /\ job.target = job.key

\* What the handlers in use leave out.
Plain ==
    /\ \A job \in jobs : PlainJob(job)
    /\ \A w \in Workers : worker[w].pc # "idle" => /\ PlainJob(worker[w].job)
                                                   /\ worker[w].pc \notin {"apply", "revive"}
    /\ \A r \in Requests : turn[r].parent = None
    /\ \A c \in Clients : api[c].pc \notin {"retry_wake", "run_now"}

\* Where nobody cancels, nothing is on the way to a cancellation.
NoCancels ==
    Uncancelled =>
        /\ \A k \in Keys : ~marker[k]
        /\ \A w \in Workers : worker[w].pc \notin {"early_runs", "early_turn"}
        /\ \A c \in Clients : api[c].pc \notin {"cancel_turn", "cancel_signal", "queued_signal", "clear_rows",
                                                "pause_marker", "pause_runs", "pause_turn"}
        /\ \A r \in Requests : run[r].status # "cancelling"

\* At most one request has an active turn or an active run.
OneBusy == \A r, q \in Requests : Busy(r) /\ Busy(q) => r = q

\* A claim is delivered before it can be taken for a stale one.
CarriedInTime == \A r \in Requests : Carried(r) => turn[r].started # "stale"

\* Nobody is on the way to a turn that is not claimed.
WaitsAlone(r) == Waiting(r) => ~Carried(r) /\ \A w \in Workers : Holds(w) => Key(w) # r

\* Who submits a claim is the first to do anything about it.
SubmitsFirst(d, r) ==
    Submits(d, r) => /\ ~ActiveRun(r) /\ ~Sent(r)
                     /\ \A w \in Workers : Holds(w) \/ Brings(w) => Key(w) # r
                     /\ \A e \in Dispatchers : Submits(e, r) => e = d

\* What a worker relies on after it has looked at the queue.
WorkerFits(w) ==
    /\ worker[w].pc \in {"early_runs", "early_turn", "create"} =>
         worker[w].job.kind = "turn" /\ Claimed(Key(w))
    /\ worker[w].pc \in {"early_runs", "early_turn"} => worker[w].out = "cancelled"
    /\ worker[w].pc = "start" => IF worker[w].job.kind = "turn" THEN Claimed(Key(w))
                                 ELSE turn[Key(w)].status \notin PausedQueueStatuses
    /\ Holds(w) => /\ Claimed(Key(w))
                   /\ worker[w].pc \in {"stream", "final_check", "save"} => ActiveRun(Key(w))
                   /\ ActiveRun(Key(w)) \/ turn[Key(w)].started # "stale"
    /\ worker[w].pc = "final_turn" /\ worker[w].out \notin PausedQueueStatuses => ~ActiveRun(Key(w))

\* A run whose heartbeat has aged is one that nobody is working on.
Silent(r) ==
    ActiveRun(r) /\ run[r].beat # "fresh" =>
        /\ \A w \in Workers : worker[w].pc # "idle" => Key(w) # r
        /\ \A job \in jobs : job.key # r
        /\ \A d \in Dispatchers : ~Submits(d, r)

\* What the beat has read is still true, or was ended by somebody else.
BeatIsRight(r) ==
    r \in beat.stale =>
        \/ ActiveRun(r) /\ run[r].beat # "fresh" /\ (Uncancelled => run[r].status = "running")
        \/ ~ActiveRun(r) /\ EndedTurn(r)

\* Without cancellations a run that is alive belongs to a turn that is.
RunsHaveTurns == Uncancelled => \A r \in Requests : ActiveRun(r) => ActiveTurn(r)

Core ==
    /\ OneBusy /\ CarriedInTime /\ RunsHaveTurns
    /\ \A r \in Requests : WaitsAlone(r) /\ Silent(r) /\ BeatIsRight(r)
    /\ \A d \in Dispatchers, r \in Requests : SubmitsFirst(d, r)
    /\ \A w \in Workers : WorkerFits(w)

TurnInv == LockInv /\ Plain /\ NoCancels /\ Core
-----------------------------------------------------------------------------
(* Two kinds of steps.  A calm step starts nothing; an own step is one of a *)
(* worker that touches the rows of its own request only.                   *)

CalmTurn(r) ==
    /\ turn'[r].started = "stale" => turn[r].started = "stale"
    /\ Claimed(r) => Claimed(r)'
    /\ ActiveTurn(r)' => ActiveTurn(r)
    /\ turn'[r].status \in PausedQueueStatuses => turn[r].status \in PausedQueueStatuses
    /\ Waiting(r)' => Waiting(r)
    /\ EndedTurn(r) => EndedTurn(r)'
    /\ Uncancelled /\ ActiveTurn(r) => ActiveTurn(r)'

CalmRun(r) ==
    /\ ActiveRun(r)' <=> ActiveRun(r)
    /\ run'[r].beat = run[r].beat
    /\ Uncancelled => run'[r].status = run[r].status

CalmStep ==
    /\ jobs' \subseteq jobs
    /\ \A w \in Workers : worker'[w] = worker[w] \/ worker'[w].pc = "idle"
    /\ \A d \in Dispatchers : disp'[d].pc = "submit" => disp'[d] = disp[d]
    /\ \A r \in beat'.stale : r \in beat.stale \/ LeaseExpired(r)
    /\ \A r \in Requests : CalmTurn(r) /\ CalmRun(r)

LEMMA CalmKeeps ==
    ASSUME Plain, NoCancels, Core, CalmStep
    PROVE  Core'
<1> USE DEF CalmStep
<1>w. \A w \in Workers : /\ Brings(w)' => Brings(w) /\ Key(w)' = Key(w)
                         /\ Holds(w)' => Holds(w) /\ Key(w)' = Key(w)
                         /\ worker'[w].pc # "idle" => worker'[w] = worker[w] /\ Key(w)' = Key(w)
  BY DEF Brings, Holds, Key
<1>d. \A d \in Dispatchers, r \in Requests : Submits(d, r)' => Submits(d, r)
  BY DEF Submits
<1>j. \A r : Sent(r)' => Sent(r)
  BY DEF Sent
<1>c. \A r \in Requests : Carried(r)' => Carried(r)
  BY <1>w, <1>d, <1>j DEF Carried
<1>1. OneBusy'
  BY DEF Core, OneBusy, Busy, CalmTurn, CalmRun
<1>2. CarriedInTime'
  BY <1>c DEF Core, CarriedInTime, CalmTurn
<1>3. RunsHaveTurns'
  BY DEF Core, RunsHaveTurns, CalmTurn, CalmRun
<1>4. ASSUME NEW r \in Requests
      PROVE  WaitsAlone(r)'
  BY <1>c, <1>w DEF Core, WaitsAlone, CalmTurn
<1>5. ASSUME NEW r \in Requests
      PROVE  Silent(r)'
  <2>1. Silent(r) /\ CalmRun(r)
    BY DEF Core
  <2> QED
    BY <2>1, <1>w, <1>d DEF Silent, CalmRun
<1>6. ASSUME NEW r \in Requests
      PROVE  BeatIsRight(r)'
  <2>1. BeatIsRight(r) /\ CalmRun(r) /\ CalmTurn(r)
    BY DEF Core
  <2>2. CASE r \in beat.stale
    BY <2>1, <2>2 DEF BeatIsRight, CalmRun, CalmTurn
  <2>3. CASE r \notin beat.stale /\ r \in beat'.stale
    <3>1. LeaseExpired(r)
      BY <2>3
    <3>2. ActiveRun(r) /\ run[r].beat # "fresh" /\ (Uncancelled => run[r].status = "running")
      BY <3>1 DEF LeaseExpired, ActiveRun, ActiveRunStatuses, WorkerRunStatuses, OlderThanThirty, NoCancels
    <3> QED
      BY <2>1, <3>2 DEF BeatIsRight, CalmRun
  <2> QED
    BY <2>2, <2>3 DEF BeatIsRight
<1>7. ASSUME NEW d \in Dispatchers, NEW r \in Requests
      PROVE  SubmitsFirst(d, r)'
  <2>1. SubmitsFirst(d, r) /\ CalmRun(r)
    BY DEF Core
  <2> QED
    BY <2>1, <1>w, <1>d, <1>j DEF SubmitsFirst, CalmRun
<1>8. ASSUME NEW w \in Workers
      PROVE  WorkerFits(w)'
  <2>1. CASE worker'[w].pc = "idle"
    BY <2>1 DEF WorkerFits, Holds
  <2>2. CASE worker'[w].pc # "idle"
    <3>0. Key(w) \in Requests
      BY <2>2, <1>w DEF Plain, PlainJob, Key
    <3>1. /\ worker'[w] = worker[w] /\ Key(w)' = Key(w) /\ WorkerFits(w)
          /\ CalmRun(Key(w)) /\ CalmTurn(Key(w))
      BY <2>2, <3>0, <1>w DEF Core
    <3> QED
      BY <3>1 DEF WorkerFits, Holds, CalmRun, CalmTurn
  <2> QED
    BY <2>1, <2>2
<1> QED
  BY <1>1, <1>2, <1>3, <1>4, <1>5, <1>6, <1>7, <1>8 DEF Core

\* What step of worker w does to the rows of its own request k.
OwnRows(w, k) ==
    /\ turn'[k].started = turn[k].started
    /\ Busy(k)' => Busy(k)
    /\ Waiting(k)' => Waiting(k)
    /\ ActiveRun(k)' \/ Holds(w)' => ActiveRun(k) \/ Holds(w) \/ Brings(w)
    /\ ActiveRun(k)' => run'[k].beat = "fresh" \/ (run'[k].beat = run[k].beat /\ ActiveRun(k))
    /\ Uncancelled /\ ActiveRun(k)' => ActiveTurn(k)'
    /\ ~ActiveRun(k) /\ EndedTurn(k) => ~ActiveRun(k)' /\ EndedTurn(k)'

OwnStep(w, k) ==
    /\ worker[w].pc # "idle" /\ Key(w) = k
    /\ worker'[w].job = worker[w].job
    /\ \A v \in Workers : v # w => worker'[v] = worker[v]
    /\ UNCHANGED <<jobs, disp, beat>>
    /\ \A q \in Requests : q # k => turn'[q] = turn[q] /\ run'[q] = run[q]
    /\ Brings(w)' => Brings(w)
    /\ WorkerFits(w)'
    /\ OwnRows(w, k)

LEMMA OwnKeeps ==
    ASSUME LockHeld, Plain, Core, NEW w \in Workers, NEW k \in Requests, OwnStep(w, k)
    PROVE  Core'
<1>a. /\ Key(w) = k
      /\ \A v \in Workers : v # w /\ worker[v].pc # "idle" => Key(v) # k
      /\ \A v \in Workers : Key(v)' = Key(v)
  BY LockHeldExcludes DEF OwnStep, Key, OneWorkerPerKey
<1>b. \A v \in Workers : v # w => (Brings(v)' <=> Brings(v)) /\ (Holds(v)' <=> Holds(v))
  BY DEF OwnStep, Brings, Holds
<1>c. \A v \in Workers : Brings(v) \/ Holds(v) => worker[v].pc # "idle"
  BY DEF Brings, Holds
<1>d. \A q \in Requests : q # k => /\ turn'[q] = turn[q] /\ run'[q] = run[q]
                                   /\ Waiting(q)' = Waiting(q) /\ ActiveRun(q)' = ActiveRun(q)
                                   /\ EndedTurn(q)' = EndedTurn(q) /\ ActiveTurn(q)' = ActiveTurn(q)
                                   /\ Claimed(q)' = Claimed(q) /\ Busy(q)' = Busy(q)
  BY DEF OwnStep, Waiting, ActiveRun, EndedTurn, ActiveTurn, Claimed, Busy
<1>e. \A r \in Requests : Carried(r)' => Carried(r)
  BY <1>a, <1>b DEF OwnStep, Carried, Submits, Sent
<1>f. OwnRows(w, k) /\ WorkerFits(w)' /\ (Brings(w)' => Brings(w)) /\ UNCHANGED <<jobs, disp, beat>>
  BY DEF OwnStep
<1>1. OneBusy'
  BY <1>a, <1>d, <1>f DEF Core, OneBusy, OwnRows
<1>2. CarriedInTime'
  BY <1>a, <1>d, <1>e, <1>f DEF Core, CarriedInTime, OwnRows
<1>3. RunsHaveTurns'
  BY <1>a, <1>d, <1>f DEF Core, RunsHaveTurns, OwnRows
<1>4. ASSUME NEW r \in Requests
      PROVE  WaitsAlone(r)'
  <2>1. WaitsAlone(r)
    BY DEF Core
  <2>2. CASE r # k
    BY <2>1, <2>2, <1>a, <1>b, <1>d, <1>e DEF WaitsAlone
  <2>3. CASE r = k
    <3> SUFFICES ASSUME Waiting(k)'
                 PROVE  ~Carried(k)' /\ \A v \in Workers : Holds(v)' => Key(v)' # k
      BY <2>3 DEF WaitsAlone
    <3>1. ~Carried(k)'
      BY <2>1, <2>3, <1>a, <1>e, <1>f DEF WaitsAlone, OwnRows
    <3>2. ~Holds(w)'
      BY <1>a, <1>f DEF WorkerFits, Waiting, Claimed
    <3> QED
      BY <3>1, <3>2, <1>a, <1>b, <1>c
  <2> QED
    BY <2>2, <2>3
<1>5. ASSUME NEW r \in Requests
      PROVE  Silent(r)'
  <2>1. Silent(r)
    BY DEF Core
  <2>2. CASE r # k
    BY <2>1, <2>2, <1>a, <1>d, <1>f DEF Silent, OwnStep, Submits
  <2>3. CASE r = k
    <3>1. ActiveRun(k) => run[k].beat = "fresh"
      BY <2>1, <2>3 DEF Silent, OwnStep
    <3> QED
      BY <2>3, <3>1, <1>f DEF Silent, OwnRows
  <2> QED
    BY <2>2, <2>3
<1>6. ASSUME NEW r \in Requests
      PROVE  BeatIsRight(r)'
  <2>1. BeatIsRight(r) /\ Silent(r)
    BY DEF Core
  <2>2. CASE r # k
    BY <2>1, <2>2, <1>d, <1>f DEF BeatIsRight
  <2>3. CASE r = k
    <3>1. r \in beat.stale => ~ActiveRun(k) /\ EndedTurn(k)
      BY <2>1, <2>3 DEF BeatIsRight, Silent, OwnStep
    <3> QED
      BY <2>3, <3>1, <1>f DEF BeatIsRight, OwnRows
  <2> QED
    BY <2>2, <2>3
<1>7. ASSUME NEW d \in Dispatchers, NEW r \in Requests
      PROVE  SubmitsFirst(d, r)'
  <2>1. SubmitsFirst(d, r)
    BY DEF Core
  <2>2. \A e \in Dispatchers : Submits(e, r)' <=> Submits(e, r)
    BY <1>f DEF Submits
  <2>3. Sent(r)' <=> Sent(r)
    BY <1>f DEF Sent
  <2>4. CASE r # k
    BY <2>1, <2>2, <2>3, <2>4, <1>a, <1>b, <1>d DEF SubmitsFirst
  <2>5. CASE r = k /\ Submits(d, r)
    <3>1. ~ActiveRun(k) /\ ~Holds(w) /\ ~Brings(w)
      BY <2>1, <2>5, <1>a DEF SubmitsFirst
    <3>2. ~ActiveRun(k)' /\ ~Holds(w)' /\ ~Brings(w)'
      BY <3>1, <1>f DEF OwnRows
    <3>3. \A v \in Workers : Holds(v)' \/ Brings(v)' => Key(v)' # r
      BY <2>1, <2>5, <3>2, <1>a, <1>b DEF SubmitsFirst
    <3> QED
      BY <2>1, <2>2, <2>3, <2>5, <3>2, <3>3 DEF SubmitsFirst
  <2> QED
    BY <2>2, <2>4, <2>5 DEF SubmitsFirst
<1>8. ASSUME NEW v \in Workers
      PROVE  WorkerFits(v)'
  <2>1. CASE v = w
    BY <2>1, <1>f
  <2>2. CASE v # w /\ worker[v].pc = "idle"
    BY <2>2 DEF OwnStep, WorkerFits, Holds
  <2>3. CASE v # w /\ worker[v].pc # "idle"
    <3>1. WorkerFits(v) /\ worker'[v] = worker[v] /\ Key(v)' = Key(v) /\ Key(v) # k
      BY <2>3, <1>a DEF Core, OwnStep
    <3>2. Key(v) \in Requests
      BY <2>3 DEF Plain, PlainJob, Key
    <3> QED
      BY <3>1, <3>2, <1>b, <1>d, <2>3 DEF WorkerFits
  <2> QED
    BY <2>1, <2>2, <2>3
<1> QED
  BY <1>1, <1>2, <1>3, <1>4, <1>5, <1>6, <1>7, <1>8 DEF Core
-----------------------------------------------------------------------------
(* The steps of a worker are own steps. *)

StoreOK == StoreTypeOK /\ WorkerOK

\* Worker w goes to pc with the outcome out.
Moved(w, pc, out) ==
    /\ worker'[w].pc = pc /\ worker'[w].out = out /\ worker'[w].job = worker[w].job
    /\ \A v \in Workers : v # w => worker'[v] = worker[v]
    /\ Key(w)' = Key(w)

LEMMA WorkerMoves ==
    ASSUME WorkerOK, NEW w \in Workers, NEW pc
    PROVE  /\ Goto(w, pc) => Moved(w, pc, worker[w].out)
           /\ \A out : GotoWith(w, pc, out) => Moved(w, pc, out)
BY DEF WorkerOK, Goto, GotoWith, Key, Moved

\* A step that leaves the rows alone.
LEMMA RowsAlone ==
    ASSUME Core, NEW w \in Workers, NEW k \in Requests, Key(w) = k, worker[w].pc # "idle",
           worker'[w].job = worker[w].job,
           \A v \in Workers : v # w => worker'[v] = worker[v],
           UNCHANGED <<run, turn, jobs, disp, beat>>,
           Brings(w)' => Brings(w), Holds(w)' => Holds(w) \/ Brings(w) \/ ActiveRun(k),
           WorkerFits(w)'
    PROVE  OwnStep(w, k)
<1>1. OwnRows(w, k)
  <2>1. /\ Busy(k)' <=> Busy(k)
        /\ Waiting(k)' <=> Waiting(k)
        /\ ActiveRun(k)' <=> ActiveRun(k)
        /\ ActiveTurn(k)' <=> ActiveTurn(k)
        /\ EndedTurn(k)' <=> EndedTurn(k)
    BY DEF Busy, Waiting, ActiveRun, ActiveTurn, EndedTurn
  <2>2. Uncancelled /\ ActiveRun(k) => ActiveTurn(k)
    BY DEF Core, RunsHaveTurns
  <2> QED
    BY <2>1, <2>2 DEF OwnRows
<1> QED
  BY <1>1 DEF OwnStep

\* A step that leaves the turns alone, and of the runs writes its own.
LEMMA RunWritten ==
    ASSUME Core, NEW w \in Workers, NEW k \in Requests, Key(w) = k, worker[w].pc # "idle",
           worker'[w].job = worker[w].job,
           \A v \in Workers : v # w => worker'[v] = worker[v],
           UNCHANGED <<turn, jobs, disp, beat>>,
           \A q \in Requests : q # k => run'[q] = run[q],
           ActiveRun(k)' => /\ ActiveRun(k) \/ (Claimed(k) /\ Brings(w))
                            /\ run'[k].beat = "fresh" \/ (run'[k].beat = run[k].beat /\ ActiveRun(k)),
           Brings(w)' => Brings(w), Holds(w)' => Holds(w) \/ Brings(w) \/ ActiveRun(k),
           WorkerFits(w)'
    PROVE  OwnStep(w, k)
<1>1. OwnRows(w, k)
  <2>1. /\ Waiting(k)' <=> Waiting(k)
        /\ ActiveTurn(k)' <=> ActiveTurn(k)
        /\ EndedTurn(k)' <=> EndedTurn(k)
        /\ turn'[k].started = turn[k].started
    BY DEF Waiting, ActiveTurn, EndedTurn
  <2>2. Uncancelled /\ ActiveRun(k) => ActiveTurn(k)
    BY DEF Core, RunsHaveTurns
  <2>3. Claimed(k) => ActiveTurn(k) /\ ~EndedTurn(k)
    BY DEF Claimed, ActiveTurn, EndedTurn, ActiveQueueStatuses, TerminalQueueStatuses
  <2> QED
    BY <2>1, <2>2, <2>3 DEF OwnRows, Busy
<1> QED
  BY <1>1 DEF OwnStep

\* A step that ends the turn, or makes it wait for the user.
LEMMA TurnEnded ==
    ASSUME Core, NEW w \in Workers, NEW k \in Requests, Key(w) = k, worker[w].pc # "idle",
           turn \in [Requests -> TurnRows],
           worker'[w].job = worker[w].job,
           \A v \in Workers : v # w => worker'[v] = worker[v],
           UNCHANGED <<run, jobs, disp, beat>>,
           NEW status, turn' = [turn EXCEPT ![k] = FinishedTurn(@, status)],
           status \in PausedQueueStatuses => Claimed(k),
           Uncancelled /\ ActiveRun(k) => status \in PausedQueueStatuses,
           ~Brings(w)', ~Holds(w)', WorkerFits(w)'
    PROVE  OwnStep(w, k)
<1>1. /\ turn'[k].status = FinishStatus(status) /\ turn'[k].started = turn[k].started
      /\ \A q \in Requests : q # k => turn'[q] = turn[q]
  BY DEF FinishedTurn, TurnRows
<1>2. OwnRows(w, k)
  <2>1. ActiveRun(k)' <=> ActiveRun(k)
    BY DEF ActiveRun
  <2>2. CASE status \in PausedQueueStatuses
    BY <1>1, <2>1, <2>2 DEF OwnRows, Busy, ActiveTurn, Waiting, Claimed, EndedTurn, FinishStatus,
                            ActiveQueueStatuses, PausedQueueStatuses, TerminalQueueStatuses
  <2>3. CASE status \notin PausedQueueStatuses
    BY <1>1, <2>1, <2>3 DEF OwnRows, Busy, ActiveTurn, Waiting, EndedTurn, FinishStatus,
                            ActiveQueueStatuses, PausedQueueStatuses, TerminalQueueStatuses
  <2> QED
    BY <2>2, <2>3
<1> QED
  BY <1>1, <1>2 DEF OwnStep

LEMMA CheckOwns ==
    ASSUME StoreOK, Plain, NoCancels, Core,
           NEW w \in Workers, NEW k \in Requests, Key(w) = k, UNCHANGED beat,
           WorkCheck(w) \/ WorkEarlyTurn(w)
    PROVE  OwnStep(w, k)
<1>0. /\ WorkerOK /\ worker[w].pc # "idle" /\ PlainJob(worker[w].job) /\ WaitsAlone(k)
      /\ turn \in [Requests -> TurnRows]
  BY DEF StoreOK, Plain, WorkCheck, WorkEarlyTurn, Core, StoreTypeOK, TurnTypeOK
<1>1. CASE WorkCheck(w) /\ Goto(w, "unlock")
  <2>1. UNCHANGED <<run, turn, jobs, disp, beat>>
    BY <1>1 DEF WorkCheck
  <2>2. Moved(w, "unlock", worker[w].out)
    BY <1>0, <1>1, WorkerMoves
  <2>3. WorkerFits(w)' /\ ~Holds(w)' /\ ~Brings(w)'
    BY <2>2 DEF WorkerFits, Holds, Brings, Moved
  <2> QED
    BY <1>0, <2>1, <2>2, <2>3, RowsAlone DEF Moved
<1>2. CASE /\ WorkCheck(w)
           /\ ~(HasTurn(k) /\ turn[k].status \notin {"running", "cancelling"})
           /\ \/ Goto(w, "start")
              \/ marker[k] /\ GotoWith(w, "early_runs", "cancelled")
  <2>1. UNCHANGED <<run, turn, jobs, disp, beat>> /\ worker[w].pc = "check"
    BY <1>2 DEF WorkCheck
  <2>2. worker[w].job.kind = "turn" => Claimed(k) /\ Brings(w)
    <3>1. worker[w].job.kind = "turn" => ~Waiting(k) /\ Brings(w)
      BY <1>0, <2>1 DEF WaitsAlone, Carried, Brings
    <3> QED
      BY <1>2, <3>1 DEF HasTurn, HasRow, Claimed, Waiting
  <2>3. turn[k].status \notin PausedQueueStatuses
    BY <1>2 DEF HasTurn, HasRow, PausedQueueStatuses
  <2>4. Claimed(k)' <=> Claimed(k)
    BY <2>1 DEF Claimed
  <2>5. CASE Goto(w, "start")
    <3>1. Moved(w, "start", worker[w].out)
      BY <1>0, <2>5, WorkerMoves
    <3>2. WorkerFits(w)' /\ ~Holds(w)' /\ (Brings(w)' => Brings(w))
      BY <2>1, <2>2, <2>3, <2>4, <3>1 DEF WorkerFits, Holds, Brings, Moved
    <3> QED
      BY <1>0, <2>1, <3>1, <3>2, RowsAlone DEF Moved
  <2>6. CASE marker[k] /\ GotoWith(w, "early_runs", "cancelled")
    <3>1. worker[w].job.kind = "turn"
      BY <1>0, <2>6 DEF NoCancels, PlainJob, Keys
    <3>2. Moved(w, "early_runs", "cancelled")
      BY <1>0, <2>6, WorkerMoves
    <3>3. WorkerFits(w)' /\ ~Holds(w)' /\ (Brings(w)' => Brings(w))
      BY <2>2, <2>4, <3>1, <3>2 DEF WorkerFits, Holds, Brings, Moved, PausedQueueStatuses
    <3> QED
      BY <1>0, <2>1, <3>2, <3>3, RowsAlone DEF Moved
  <2> QED
    BY <1>2, <2>5, <2>6
<1>3. CASE WorkEarlyTurn(w)
  <2>0. /\ worker[w].pc = "early_turn" /\ worker[w].out = "cancelled"
        /\ Claimed(k) /\ Brings(w)
    BY <1>3 DEF WorkEarlyTurn, Core, WorkerFits, Brings
  <2>1. /\ UNCHANGED <<run, jobs, disp, beat>> /\ Goto(w, "final_run")
        /\ turn' = [turn EXCEPT ![k] = FinishedTurn(@, "cancelled")]
    BY <1>0, <1>3, <2>0 DEF WorkEarlyTurn, FinishTurnOf, HasTurn, HasRow, Claimed
  <2>2. Moved(w, "final_run", "cancelled")
    BY <1>0, <2>0, <2>1, WorkerMoves
  <2>3. WorkerFits(w)' /\ ~Holds(w)' /\ ~Brings(w)'
    BY <2>2 DEF WorkerFits, Holds, Brings, Moved, PausedQueueStatuses
  <2>4. ~Uncancelled
    BY <2>0 DEF NoCancels
  <2> QED
    BY <1>0, <2>1, <2>2, <2>3, <2>4, TurnEnded DEF Moved, PausedQueueStatuses
<1> QED
  BY <1>1, <1>2, <1>3 DEF WorkCheck

\* What the methods write into the status and the heartbeat of a run.
LEMMA RunWrites ==
    ASSUME NEW row \in RunRows
    PROVE  /\ CreatedRun(row).status = "running" /\ CreatedRun(row).beat = "fresh"
           /\ \A status, pending : LET new == Checkpointed(row, status, pending)
                                   IN  /\ new.status = status
                                       /\ status = "running" => new.beat = "fresh"
                                       /\ status \notin WorkerRunStatuses => new.beat = row.beat
           /\ \A status : FinishedRun(row, status).status = status
           /\ \A msg : [row EXCEPT !.msg = msg].status = row.status /\ [row EXCEPT !.msg = msg].beat = row.beat
BY DEF RunRows, CreatedRun, NoRun, Checkpointed, FinishedRun, WorkerRunStatuses

LEMMA EarlyRunsOwns ==
    ASSUME StoreOK, Plain, NoCancels, Core,
           NEW w \in Workers, NEW k \in Requests, Key(w) = k, UNCHANGED beat,
           WorkEarlyRuns(w)
    PROVE  OwnStep(w, k)
<1>0. /\ worker[w].pc = "early_runs" /\ worker[w].out = "cancelled" /\ ~Uncancelled
      /\ Claimed(k) /\ Brings(w) /\ worker[w].job.kind = "turn"
      /\ UNCHANGED <<turn, jobs, disp, beat>>
      /\ \A q \in Requests : run'[q] = CancellationFinished(run[q])
  BY DEF WorkEarlyRuns, Core, WorkerFits, Brings, NoCancels
<1>1. Moved(w, "early_turn", "cancelled")
  BY <1>0, WorkerMoves DEF StoreOK, WorkEarlyRuns
<1>2. \A q \in Requests : run'[q] = run[q] \/ (ActiveRun(q) /\ run'[q].status = "cancelled")
  <2>0. run \in [Requests -> RunRows]
    BY DEF StoreOK, StoreTypeOK, RunTypeOK
  <2>1. \A row \in RunRows : \/ CancellationFinished(row) = row
                             \/ row.status = "cancelling" /\ CancellationFinished(row).status = "cancelled"
    BY DEF CancellationFinished, RunRows, FinishedRun
  <2>2. ASSUME NEW q \in Requests
        PROVE  run'[q] = run[q] \/ (run[q].status = "cancelling" /\ run'[q].status = "cancelled")
    <3>1. run[q] \in RunRows /\ run'[q] = CancellationFinished(run[q])
      BY <1>0, <2>0
    <3> QED
      BY <2>1, <3>1
  <2> QED
    BY <2>2 DEF ActiveRun, ActiveRunStatuses
<1>3. \A q \in Requests : q # k => ~ActiveRun(q)
  BY <1>0 DEF Core, OneBusy, Busy, Claimed, ActiveTurn, ActiveQueueStatuses
<1>4. \A q \in Requests : q # k => run'[q] = run[q]
  BY <1>2, <1>3
<1>5. ActiveRun(k)' => ActiveRun(k) /\ run'[k] = run[k]
  BY <1>2 DEF ActiveRun, ActiveRunStatuses
<1>6. WorkerFits(w)' /\ ~Holds(w)'
  BY <1>0, <1>1 DEF WorkerFits, Holds, Moved, Claimed, PausedQueueStatuses
<1> QED
  BY <1>0, <1>1, <1>4, <1>5, <1>6, RunWritten DEF Moved

LEMMA StartOwns ==
    ASSUME StoreOK, Plain, NoCancels, Core,
           NEW w \in Workers, NEW k \in Requests, Key(w) = k, UNCHANGED beat,
           WorkStart(w) \/ WorkCreate(w)
    PROVE  OwnStep(w, k)
<1>0. /\ WorkerOK /\ worker[w].pc \in {"start", "create"} /\ PlainJob(worker[w].job) /\ Target(w) = k
      /\ run \in [Requests -> RunRows] /\ turn[k].parent = None /\ WorkerFits(w) /\ CarriedInTime
      /\ UNCHANGED <<turn, jobs, disp, beat>>
  BY DEF StoreOK, StoreTypeOK, RunTypeOK, Plain, PlainJob, WorkStart, WorkCreate, Core, Key, Target
<1>1. Claimed(k)' <=> Claimed(k)
  BY <1>0 DEF Claimed
<1>2. Brings(w) => Claimed(k) /\ turn[k].started # "stale"
  BY <1>0 DEF WorkerFits, Brings, CarriedInTime, Carried
<1>3. CASE WorkStart(w) /\ worker[w].job.kind = "turn"
  <2>1. Brings(w) /\ worker[w].pc = "start"
    BY <1>3 DEF WorkStart, Brings
  <2>2. StartFirst(w)
    BY <1>0, <1>3, NoneAssumption DEF WorkStart, StartTurn, StartRetry, StartAnswer, StartApproval
  <2>3. CASE run' = [run EXCEPT ![k].msg = "streaming"] /\ Goto(w, "create")
    <3>1. Moved(w, "create", worker[w].out)
      BY <1>0, <2>3, WorkerMoves
    <3>2. run'[k] = [run[k] EXCEPT !.msg = "streaming"] /\ \A q \in Requests : q # k => run'[q] = run[q]
      BY <1>0, <2>3
    <3>3. run'[k].status = run[k].status /\ run'[k].beat = run[k].beat
      BY <1>0, <3>2, RunWrites
    <3>4. WorkerFits(w)' /\ ~Holds(w)'
      BY <1>0, <1>1, <1>2, <1>3, <2>1, <3>1 DEF WorkerFits, Holds, Moved
    <3> QED
      BY <1>0, <2>1, <3>1, <3>2, <3>3, <3>4, RunWritten DEF Moved, ActiveRun
  <2>4. ASSUME NEW out, GotoWith(w, "emit", out), UNCHANGED run
        PROVE  OwnStep(w, k)
    <3>1. Moved(w, "emit", out)
      BY <1>0, <2>4, WorkerMoves
    <3>2. WorkerFits(w)' /\ ~Brings(w)'
      BY <1>0, <1>1, <1>2, <2>1, <3>1 DEF WorkerFits, Holds, Moved, Brings
    <3> QED
      BY <1>0, <2>1, <2>4, <3>1, <3>2, RowsAlone DEF Moved
  <2> QED
    BY <2>2, <2>3, <2>4 DEF StartFirst
<1>4. CASE WorkStart(w) /\ worker[w].job.kind = "answer"
  <2>1. StartAnswer(w) /\ worker[w].pc = "start"
    BY <1>4 DEF WorkStart, StartTurn, StartApproval
  <2>2. CASE GotoWith(w, "emit", "error") /\ UNCHANGED run
    <3>1. Moved(w, "emit", "error")
      BY <1>0, <2>2, WorkerMoves
    <3>2. WorkerFits(w)' /\ ~Brings(w)' /\ ~Holds(w)'
      BY <3>1 DEF WorkerFits, Holds, Moved, Brings, PausedQueueStatuses
    <3> QED
      BY <1>0, <2>2, <3>1, <3>2, RowsAlone DEF Moved
  <2>3. CASE /\ run[k].status \in {"running", "awaiting_user"}
             /\ run' = [run EXCEPT ![k] = Checkpointed(@, "running", "claimed")]
             /\ Goto(w, "stream")
    <3>1. Moved(w, "stream", worker[w].out)
      BY <1>0, <2>3, WorkerMoves
    <3>2. run'[k].status = "running" /\ run'[k].beat = "fresh"
      BY <1>0, <2>3, RunWrites
    <3>3. ActiveRun(k) /\ ActiveRun(k)'
      BY <2>3, <3>2 DEF ActiveRun, ActiveRunStatuses
    <3>4. ActiveTurn(k) /\ turn[k].status \notin PausedQueueStatuses
      BY <1>0, <1>4, <2>1, <3>3 DEF Core, RunsHaveTurns, PlainJob, WorkerFits
    <3>5. Claimed(k)
      BY <3>4 DEF Claimed, ActiveTurn, ActiveQueueStatuses, PausedQueueStatuses
    <3>6. WorkerFits(w)' /\ ~Brings(w)'
      BY <1>1, <3>1, <3>3, <3>5 DEF WorkerFits, Moved, Brings
    <3> QED
      BY <1>0, <2>3, <3>1, <3>2, <3>3, <3>6, RunWritten DEF Moved
  <2> QED
    BY <1>0, <2>1, <2>2, <2>3 DEF StartAnswer, CanClaimQuestion
<1>5. CASE WorkCreate(w)
  <2>1. Claimed(k) /\ Brings(w)
    BY <1>0, <1>5 DEF WorkCreate, WorkerFits, Brings
  <2>2. Moved(w, "stream", worker[w].out)
    BY <1>0, <1>5, WorkerMoves DEF WorkCreate
  <2>3. run'[k].status = "running" /\ run'[k].beat = "fresh" /\ \A q \in Requests : q # k => run'[q] = run[q]
    BY <1>0, <1>5, RunWrites DEF WorkCreate
  <2>4. ActiveRun(k)'
    BY <2>3 DEF ActiveRun, ActiveRunStatuses
  <2>5. WorkerFits(w)' /\ ~Brings(w)'
    BY <1>1, <2>1, <2>2, <2>4 DEF WorkerFits, Moved, Brings
  <2> QED
    BY <1>0, <2>1, <2>2, <2>3, <2>5, RunWritten DEF Moved
<1> QED
  BY <1>0, <1>3, <1>4, <1>5 DEF PlainJob

\* A worker that executes its run keeps it or ends it.
LEMMA StreamOwns ==
    ASSUME StoreOK, Plain, NoCancels, Core,
           NEW w \in Workers, NEW k \in Requests, Key(w) = k, UNCHANGED beat,
           \/ WorkHeartbeat(w) \/ WorkRound(w) \/ WorkSeesCancel(w) \/ WorkDeadline(w) \/ WorkFails(w)
           \/ WorkAnswers(w)
    PROVE  OwnStep(w, k)
<1>0. /\ WorkerOK /\ worker[w].pc = "stream" /\ Target(w) = k /\ run[k] \in RunRows
      /\ run \in [Requests -> RunRows] /\ UNCHANGED <<turn, jobs, disp, beat>>
  BY DEF StoreOK, StoreTypeOK, RunTypeOK, Plain, PlainJob, Key, Target, WorkHeartbeat, WorkRound,
         WorkSeesCancel, WorkDeadline, WorkFails, WorkAnswers, StoreVars
<1>1. Holds(w) /\ Claimed(k) /\ ActiveRun(k)
  BY <1>0 DEF Core, WorkerFits, Holds
<1>2. Claimed(k)' <=> Claimed(k)
  BY <1>0 DEF Claimed
<1>3. ASSUME NEW row, run' = [run EXCEPT ![k] = row], row.beat = "fresh", UNCHANGED worker,
             row.status \in ActiveRunStatuses
      PROVE  OwnStep(w, k)
  <2>1. run'[k] = row /\ \A q \in Requests : q # k => run'[q] = run[q]
    BY <1>0, <1>3
  <2>2. ActiveRun(k)'
    BY <1>3, <2>1 DEF ActiveRun
  <2>3. WorkerFits(w)' /\ (Brings(w)' <=> Brings(w)) /\ Key(w)' = Key(w)
    BY <1>0, <1>1, <1>2, <1>3, <2>2 DEF WorkerFits, Brings, Key
  <2> QED
    BY <1>0, <1>1, <1>3, <2>1, <2>2, <2>3, RunWritten
<1>4. ASSUME NEW row, NEW pc \in {"final_check", "emit"}, NEW out \in {"cancelled", "blocked", "error"},
             run' = [run EXCEPT ![k] = row], row.status \notin ActiveRunStatuses, GotoWith(w, pc, out)
      PROVE  OwnStep(w, k)
  <2>1. Moved(w, pc, out)
    BY <1>0, <1>4, WorkerMoves
  <2>2. run'[k] = row /\ \A q \in Requests : q # k => run'[q] = run[q]
    BY <1>0, <1>4
  <2>3. ~ActiveRun(k)'
    BY <1>4, <2>2 DEF ActiveRun
  <2>4. WorkerFits(w)' /\ ~Brings(w)' /\ ~Holds(w)'
    BY <2>1 DEF WorkerFits, Brings, Holds, Moved, PausedQueueStatuses
  <2> QED
    BY <1>0, <2>1, <2>2, <2>3, <2>4, RunWritten DEF Moved
<1>5. CASE WorkHeartbeat(w) \/ WorkRound(w)
  <2>1. [run[k] EXCEPT !.beat = "fresh"].beat = "fresh" /\ [run[k] EXCEPT !.beat = "fresh"].status = run[k].status
    BY <1>0 DEF RunRows
  <2>2. /\ Checkpointed(run[k], "running", "none").beat = "fresh"
        /\ Checkpointed(run[k], "running", "none").status = "running"
    BY <1>0, RunWrites
  <2>3. CASE WorkHeartbeat(w)
    BY <1>0, <1>1, <1>3, <2>1, <2>3 DEF WorkHeartbeat, ActiveRun
  <2>4. CASE WorkRound(w)
    BY <1>0, <1>3, <2>2, <2>4 DEF WorkRound, ActiveRunStatuses
  <2> QED
    BY <1>5, <2>3, <2>4
<1>6. CASE WorkSeesCancel(w) \/ WorkDeadline(w) \/ WorkFails(w)
  <2>1. /\ [FinishedRun(run[k], "cancelled") EXCEPT !.lease = FALSE].status \notin ActiveRunStatuses
        /\ [FinishedRun(run[k], "failed") EXCEPT !.lease = FALSE, !.msg = "error"].status \notin ActiveRunStatuses
    BY <1>0 DEF FinishedRun, RunRows, ActiveRunStatuses
  <2>2. [FinishedRun(Checkpointed(run[k], "blocked", "none"), "blocked") EXCEPT !.lease = FALSE].status
          \notin ActiveRunStatuses
    BY <1>0 DEF FinishedRun, Checkpointed, RunRows, ActiveRunStatuses
  <2> QED
    BY <1>0, <1>4, <1>6, <2>1, <2>2 DEF WorkSeesCancel, WorkDeadline, WorkFails
<1>7. CASE WorkAnswers(w)
  <2>1. PICK out : GotoWith(w, "final_check", out) /\ UNCHANGED run
    BY <1>7 DEF WorkAnswers, StoreVars
  <2>2. Moved(w, "final_check", out)
    BY <1>0, <2>1, WorkerMoves
  <2>3. WorkerFits(w)' /\ ~Brings(w)'
    BY <1>0, <1>1, <1>2, <2>1, <2>2 DEF WorkerFits, Brings, Moved, ActiveRun
  <2> QED
    BY <1>0, <1>1, <2>1, <2>2, <2>3, RowsAlone DEF Moved
<1> QED
  BY <1>5, <1>6, <1>7

\* What follows the stream.
LEMMA EndOwns ==
    ASSUME StoreOK, Plain, NoCancels, Core,
           NEW w \in Workers, NEW k \in Requests, Key(w) = k, UNCHANGED beat,
           \/ WorkFinalCheck(w) \/ WorkSave(w) \/ WorkEmit(w) \/ WorkFinalRun(w) \/ WorkFinalTurn(w)
           \/ WorkAborts(w) \/ WorkEmitFails(w)
    PROVE  OwnStep(w, k)
<1>0. /\ WorkerOK /\ worker[w].pc # "idle" /\ Target(w) = k /\ run[k] \in RunRows
      /\ run \in [Requests -> RunRows] /\ turn \in [Requests -> TurnRows]
      /\ UNCHANGED <<jobs, disp, beat>> /\ WorkerFits(w)
  BY DEF StoreOK, StoreTypeOK, RunTypeOK, TurnTypeOK, Plain, PlainJob, Key, Target, Core, WorkFinalCheck, WorkSave,
         WorkEmit, WorkFinalRun, WorkFinalTurn, WorkAborts, WorkEmitFails, StoreVars
<1>1. ASSUME NEW pc, NEW out, Moved(w, pc, out), UNCHANGED <<run, turn>>, pc # "start",
             ~Brings(w)', Holds(w)' => Holds(w), pc \in {"save", "emit", "final_run"},
             pc = "save" => worker[w].pc \in {"final_check", "save"}
      PROVE  OwnStep(w, k)
  <2>1. WorkerFits(w)'
    BY <1>0, <1>1 DEF WorkerFits, Moved, Claimed, ActiveRun
  <2> QED
    BY <1>0, <1>1, <2>1, RowsAlone DEF Moved
<1>2. CASE WorkAborts(w) \/ WorkEmitFails(w)
  <2>1. UNCHANGED <<run, turn>>
    BY <1>2 DEF WorkAborts, WorkEmitFails, StoreVars
  <2>2. \E pc \in {"emit", "final_run"} : Moved(w, pc, "error")
    BY <1>0, <1>2, WorkerMoves DEF WorkAborts, WorkEmitFails
  <2>3. ~Brings(w)' /\ ~Holds(w)'
    BY <2>2 DEF Moved, Brings, Holds, PausedQueueStatuses
  <2> QED
    BY <1>1, <2>1, <2>2, <2>3
<1>3. CASE WorkEmit(w)
  <2>1. UNCHANGED <<run, turn>> /\ worker[w].pc = "emit"
    BY <1>3 DEF WorkEmit
  <2>2. Moved(w, "final_run", worker[w].out)
    BY <1>0, <1>3, WorkerMoves DEF WorkEmit
  <2>3. ~Brings(w)' /\ (Holds(w)' => Holds(w))
    BY <2>1, <2>2 DEF Moved, Brings, Holds
  <2> QED
    BY <1>1, <2>1, <2>2, <2>3
<1>4. CASE WorkFinalCheck(w)
  <2>0. UNCHANGED turn /\ worker[w].pc = "final_check"
    BY <1>4 DEF WorkFinalCheck
  <2>1. CASE GotoWith(w, "emit", "error") /\ UNCHANGED run
    <3>1. Moved(w, "emit", "error")
      BY <1>0, <2>1, WorkerMoves
    <3>2. ~Brings(w)' /\ ~Holds(w)'
      BY <3>1 DEF Moved, Brings, Holds, PausedQueueStatuses
    <3> QED
      BY <1>1, <2>0, <2>1, <3>1, <3>2
  <2>2. CASE run' = [run EXCEPT ![k].msg = worker[w].out] /\ Goto(w, "save")
    <3>1. Moved(w, "save", worker[w].out)
      BY <1>0, <2>2, WorkerMoves
    <3>2. ~Brings(w)' /\ (Holds(w)' => Holds(w))
      BY <2>0, <3>1 DEF Moved, Brings, Holds
    <3>3. run'[k] = [run[k] EXCEPT !.msg = worker[w].out] /\ \A q \in Requests : q # k => run'[q] = run[q]
      BY <1>0, <2>2
    <3>4. run'[k].status = run[k].status /\ run'[k].beat = run[k].beat
      BY <1>0, <3>3, RunWrites
    <3>5. WorkerFits(w)'
      BY <1>0, <2>0, <3>1, <3>2, <3>4 DEF WorkerFits, Moved, Claimed, ActiveRun
    <3> QED
      BY <1>0, <2>0, <3>1, <3>2, <3>3, <3>4, <3>5, RunWritten DEF Moved, ActiveRun
  <2> QED
    BY <1>0, <1>4, <2>1, <2>2 DEF WorkFinalCheck
<1>5. CASE WorkSave(w)
  <2>0. UNCHANGED turn /\ worker[w].pc = "save" /\ worker[w].out \in DoneStatuses
    BY <1>0, <1>5 DEF WorkSave, WorkerOK, WorkerCarries
  <2>1. Moved(w, "emit", worker[w].out)
    BY <1>0, <1>5, WorkerMoves DEF WorkSave
  <2>2. ~Brings(w)' /\ (Holds(w)' <=> Holds(w))
    BY <2>0, <2>1 DEF Moved, Brings, Holds
  <2>3. \A q \in Requests : q # k => run'[q] = run[q]
    BY <1>0, <1>5 DEF WorkSave
  <2>4. CASE worker[w].out \in PausedQueueStatuses
    <3>1. ActiveRun(k) /\ Holds(w)
      BY <1>0, <2>0, <2>4 DEF WorkerFits, Holds
    <3>2. run'[k] = Checkpointed(run[k], worker[w].out,
                                 IF worker[w].out = "awaiting_user" THEN "question" ELSE "approval")
      BY <1>0, <1>5, <2>4 DEF WorkSave, PausedQueueStatuses
    <3>3. run'[k].status = worker[w].out /\ run'[k].beat = run[k].beat
      BY <1>0, <2>4, <3>2, RunWrites DEF PausedQueueStatuses, WorkerRunStatuses
    <3>4. ActiveRun(k)'
      BY <2>4, <3>3 DEF ActiveRun, ActiveRunStatuses, PausedQueueStatuses
    <3>5. WorkerFits(w)'
      BY <1>0, <2>0, <2>1, <2>2, <3>1, <3>4 DEF WorkerFits, Moved, Claimed
    <3> QED
      BY <1>0, <2>0, <2>1, <2>2, <2>3, <3>1, <3>3, <3>5, RunWritten DEF Moved
  <2>5. CASE worker[w].out \notin PausedQueueStatuses
    <3>1. run'[k] = FinishedRun(run[k], worker[w].out)
      BY <1>0, <1>5, <2>5 DEF WorkSave, PausedQueueStatuses
    <3>2. ~ActiveRun(k)'
      BY <1>0, <2>0, <2>5, <3>1, RunWrites DEF ActiveRun, ActiveRunStatuses, DoneStatuses, PausedQueueStatuses
    <3>3. WorkerFits(w)' /\ ~Holds(w)'
      BY <2>1, <2>5 DEF WorkerFits, Holds, Moved
    <3> QED
      BY <1>0, <2>0, <2>1, <2>2, <2>3, <3>2, <3>3, RunWritten DEF Moved
  <2> QED
    BY <2>4, <2>5
<1>6. CASE WorkFinalRun(w)
  <2>0. UNCHANGED turn /\ worker[w].pc = "final_run"
    BY <1>6 DEF WorkFinalRun
  <2>1. Moved(w, "final_turn", worker[w].out)
    BY <1>0, <1>6, WorkerMoves DEF WorkFinalRun
  <2>2. ~Brings(w)' /\ (Holds(w)' <=> Holds(w))
    BY <2>0, <2>1 DEF Moved, Brings, Holds
  <2>3. CASE worker[w].out \in PausedQueueStatuses
    <3>1. UNCHANGED run
      BY <1>6, <2>3 DEF WorkFinalRun
    <3>2. WorkerFits(w)'
      BY <1>0, <2>0, <2>1, <2>2, <2>3, <3>1 DEF WorkerFits, Moved, Claimed, ActiveRun
    <3> QED
      BY <1>0, <2>0, <2>1, <2>2, <3>1, <3>2, RowsAlone DEF Moved
  <2>4. CASE worker[w].out \notin PausedQueueStatuses
    <3>1. ~ActiveRun(k)' /\ \A q \in Requests : q # k => run'[q] = run[q]
      <4>1. CASE run[k].status = "none"
        BY <1>0, <1>6, <4>1 DEF WorkFinalRun, ActiveRun, ActiveRunStatuses
      <4>2. CASE run[k].status # "none"
        <5>1. run' = [run EXCEPT ![k] = FinishedForRequest(@, RunStatusOf(worker[w].out))]
          BY <1>0, <1>6, <2>4, <4>2 DEF WorkFinalRun
        <5>2. worker[w].out \in FrameKinds
          BY <1>0, <2>0 DEF WorkerOK, WorkerCarries
        <5>3. RunStatusOf(worker[w].out) \notin ActiveRunStatuses
          BY <2>4, <5>2 DEF RunStatusOf, FrameKinds, DoneStatuses, ActiveRunStatuses, PausedQueueStatuses
        <5>4. \A status : status \notin ActiveRunStatuses
                            => FinishedForRequest(run[k], status).status \notin ActiveRunStatuses
          BY <1>0 DEF FinishedForRequest, FinishedRun, RunRows
        <5> QED
          BY <1>0, <5>1, <5>3, <5>4 DEF ActiveRun
      <4> QED
        BY <4>1, <4>2
    <3>2. WorkerFits(w)' /\ ~Holds(w)'
      BY <1>0, <2>1, <2>4, <3>1 DEF WorkerFits, Holds, Moved
    <3> QED
      BY <1>0, <2>0, <2>1, <2>2, <3>1, <3>2, RunWritten DEF Moved
  <2> QED
    BY <2>3, <2>4
<1>7. CASE WorkFinalTurn(w)
  <2>0. UNCHANGED run /\ worker[w].pc = "final_turn" /\ worker[w].out \in FrameKinds
    BY <1>0, <1>7 DEF WorkFinalTurn, WorkerOK, WorkerCarries
  <2>1. Moved(w, "unlock", worker[w].out)
    BY <1>0, <1>7, WorkerMoves DEF WorkFinalTurn
  <2>2. ~Brings(w)' /\ ~Holds(w)' /\ WorkerFits(w)'
    BY <2>1 DEF Moved, Brings, Holds, WorkerFits
  <2>3. CASE turn[k].status = "absent"
    <3>1. UNCHANGED turn
      BY <1>7, <2>3 DEF WorkFinalTurn, FinishTurnOf, HasTurn, HasRow
    <3> QED
      BY <1>0, <2>0, <2>1, <2>2, <3>1, RowsAlone DEF Moved
  <2>4. CASE turn[k].status # "absent"
    <3>1. turn' = [turn EXCEPT ![k] = FinishedTurn(@, TurnStatusOf(worker[w].out))]
      BY <1>7, <2>4 DEF WorkFinalTurn, FinishTurnOf, HasTurn, HasRow
    <3>2. TurnStatusOf(worker[w].out) \in PausedQueueStatuses <=> worker[w].out \in PausedQueueStatuses
      BY <2>0 DEF TurnStatusOf, PausedQueueStatuses, FrameKinds, DoneStatuses
    <3>3. worker[w].out \in PausedQueueStatuses => Claimed(k)
      BY <1>0, <2>0 DEF WorkerFits, Holds
    <3>4. ActiveRun(k) => worker[w].out \in PausedQueueStatuses
      BY <1>0, <2>0 DEF WorkerFits
    <3> QED
      BY <1>0, <2>0, <2>1, <2>2, <3>1, <3>2, <3>3, <3>4, TurnEnded DEF Moved
  <2> QED
    BY <2>3, <2>4
<1> QED
  BY <1>2, <1>3, <1>4, <1>5, <1>6, <1>7
-----------------------------------------------------------------------------
(* Recovery, claims and time. *)

\* Nobody takes up anything.
Bystanders ==
    /\ UNCHANGED <<jobs, worker>>
    /\ \A d \in Dispatchers : disp'[d].pc = "submit" => disp'[d] = disp[d]
    /\ beat'.stale \subseteq beat.stale

\* A request nobody works on, and nobody carries to a worker.
Left(r) == /\ ~Carried(r)
           /\ \A w \in Workers : worker[w].pc \in {"early_runs", "early_turn", "create"} \/ Holds(w)
                                 => Key(w) # r

\* What may be done to the rows of a request that is left, and to no others.
LeftRows(r) ==
    \/ turn'[r] = turn[r] /\ run'[r] = run[r]
    \/ turn'[r] = turn[r] /\ ~ActiveRun(r) /\ ~ActiveRun(r)'
    \/ /\ Left(r)
       /\ Busy(r)' => Busy(r)
       /\ turn'[r] = turn[r] \/ turn'[r].status \notin PausedQueueStatuses \/ ~Uncancelled
       /\ ActiveRun(r)' => /\ run'[r].beat = run[r].beat \/ run'[r].beat # "fresh"
                           /\ ActiveRun(r) /\ run[r].beat # "fresh" /\ ~Uncancelled
       /\ EndedTurn(r) /\ ~ActiveRun(r) => EndedTurn(r)' /\ ~ActiveRun(r)'
       /\ ActiveRun(r) /\ ~ActiveRun(r)' => EndedTurn(r)' \/ r \notin beat'.stale

LEMMA LeftKeeps ==
    ASSUME Plain, NoCancels, Core, Bystanders, \A r \in Requests : LeftRows(r)
    PROVE  Core'
<1> USE DEF Bystanders
<1>w. \A w \in Workers : /\ Brings(w)' <=> Brings(w)
                         /\ Holds(w)' <=> Holds(w)
                         /\ Key(w)' = Key(w) /\ worker'[w] = worker[w]
  BY DEF Brings, Holds, Key
<1>d. \A d \in Dispatchers, r \in Requests : Submits(d, r)' => Submits(d, r)
  BY DEF Submits
<1>j. \A r : Sent(r)' <=> Sent(r)
  BY DEF Sent
<1>c. \A r \in Requests : Carried(r)' => Carried(r)
  BY <1>w, <1>d, <1>j DEF Carried
<1>s. \A r \in Requests : turn'[r] = turn[r] /\ (run'[r] = run[r] \/ (~ActiveRun(r) /\ ~ActiveRun(r)')) =>
         /\ Busy(r)' <=> Busy(r)
         /\ Waiting(r)' <=> Waiting(r)
         /\ Claimed(r)' <=> Claimed(r)
         /\ EndedTurn(r)' <=> EndedTurn(r)
         /\ ActiveTurn(r)' <=> ActiveTurn(r)
         /\ ActiveRun(r)' <=> ActiveRun(r)
  BY DEF Busy, Waiting, Claimed, EndedTurn, ActiveTurn, ActiveRun
<1>1. OneBusy'
  BY <1>s DEF Core, OneBusy, LeftRows
<1>2. CarriedInTime'
  BY <1>c DEF Core, CarriedInTime, LeftRows, Left
<1>3. RunsHaveTurns'
  BY <1>s DEF Core, RunsHaveTurns, LeftRows
<1>4. ASSUME NEW r \in Requests
      PROVE  WaitsAlone(r)'
  <2>1. WaitsAlone(r) /\ LeftRows(r)
    BY DEF Core
  <2> QED
    BY <2>1, <1>c, <1>w, <1>s DEF WaitsAlone, LeftRows, Left
<1>5. ASSUME NEW r \in Requests
      PROVE  Silent(r)'
  <2>1. Silent(r) /\ LeftRows(r)
    BY DEF Core
  <2> QED
    BY <2>1, <1>w, <1>d, <1>s DEF Silent, LeftRows
<1>6. ASSUME NEW r \in Requests, r \in beat'.stale
      PROVE  BeatIsRight(r)'
  <2>1. BeatIsRight(r) /\ LeftRows(r)
    BY DEF Core
  <2> QED
    BY <1>6, <2>1, <1>s DEF BeatIsRight, LeftRows
<1>7. ASSUME NEW d \in Dispatchers, NEW r \in Requests
      PROVE  SubmitsFirst(d, r)'
  <2>1. SubmitsFirst(d, r) /\ LeftRows(r)
    BY DEF Core
  <2> QED
    BY <2>1, <1>w, <1>d, <1>j, <1>s DEF SubmitsFirst, LeftRows
<1>8. ASSUME NEW w \in Workers
      PROVE  WorkerFits(w)'
  <2>1. CASE worker[w].pc = "idle"
    BY <2>1, <1>w DEF WorkerFits, Holds
  <2>2. CASE worker[w].pc # "idle"
    <3>1. /\ WorkerFits(w) /\ LeftRows(Key(w)) /\ Key(w) \in Requests
          /\ worker[w].job.kind = "answer" => Uncancelled
      BY <2>2 DEF Core, Plain, PlainJob, Key
    <3>2. PICK k \in Requests : k = Key(w)
      BY <3>1
    <3>3. CASE turn'[k] = turn[k] /\ (run'[k] = run[k] \/ (~ActiveRun(k) /\ ~ActiveRun(k)'))
      BY <1>w, <1>s, <3>1, <3>2, <3>3 DEF WorkerFits
    <3>4. CASE /\ Left(k) /\ (ActiveRun(k)' => ActiveRun(k))
               /\ turn'[k] = turn[k] \/ turn'[k].status \notin PausedQueueStatuses \/ ~Uncancelled
      <4>1. /\ ~Brings(w) /\ ~Holds(w)
            /\ worker[w].pc \notin {"early_runs", "early_turn", "create"}
            /\ ActiveRun(k)' => ActiveRun(k)
        BY <3>2, <3>4 DEF Left, Carried
      <4>2. worker[w].pc = "start" => worker[w].job.kind # "turn"
        BY <4>1 DEF Brings
      <4> QED
        BY <1>w, <2>2, <3>1, <3>2, <3>4, <4>1, <4>2 DEF WorkerFits, Plain, PlainJob
    <3> QED
      BY <3>1, <3>2, <3>3, <3>4 DEF LeftRows
  <2> QED
    BY <2>1, <2>2
<1> QED
  BY <1>1, <1>2, <1>3, <1>4, <1>5, <1>6, <1>7, <1>8 DEF Core, BeatIsRight

\* recover_terminal_runs ends a run that nobody works on, or has it wait for the user.
LEMMA TerminalRunsKeep ==
    ASSUME StoreOK, Plain, NoCancels, Core, Bystanders, NEW closing, RecoverTerminalRuns(closing)
    PROVE  Core'
<1>0. run \in [Requests -> RunRows] /\ turn \in [Requests -> TurnRows]
  BY DEF StoreOK, StoreTypeOK, RunTypeOK, TurnTypeOK
<1>1. ASSUME NEW r \in Requests, ~Orphaned(r)
      PROVE  LeftRows(r)
  BY <1>1 DEF RecoverTerminalRuns, LeftRows
<1>2. ASSUME NEW r \in Requests, Orphaned(r)
      PROVE  LeftRows(r)
  <2>1. ActiveRun(r) /\ run[r].beat # "fresh" /\ EndedTurn(r)
    BY <1>2 DEF Orphaned, ActiveRun, ActiveRunStatuses, WorkerRunStatuses, OlderThanTen, EndedTurn
  <2>2. ~ActiveTurn(r) /\ ~Uncancelled
    BY <2>1 DEF EndedTurn, ActiveTurn, TerminalQueueStatuses, ActiveQueueStatuses, Core, RunsHaveTurns
  <2>3. Left(r)
    <3>1. /\ \A w \in Workers : worker[w].pc # "idle" => Key(w) # r
          /\ \A job \in jobs : job.key # r
          /\ \A d \in Dispatchers : ~Submits(d, r)
      BY <2>1 DEF Core, Silent
    <3> QED
      BY <3>1 DEF Left, Carried, Sent, Brings, Holds
  <2>4. /\ run'[r] = ReconciledRun(r, closing)
        /\ turn'[r] = FinishedTurn(turn[r], TurnOutcome(OrphanOutcome(r)))
    BY <1>2 DEF RecoverTerminalRuns
  <2>5. run'[r].status = OrphanOutcome(r) /\ run'[r].beat = "null"
    BY <1>0, <2>4 DEF ReconciledRun, FinishedRun, RunRows
  <2>6. OrphanOutcome(r) \in DoneStatuses
    <3>1. HasTerminalFrame(r) => LastFrame(r) \in FrameKinds
      BY DEF StoreOK, StoreTypeOK, RunTypeOK, Keys, HasTerminalFrame, LastFrame
    <3> QED
      BY <3>1 DEF OrphanOutcome, FrameKinds, DoneStatuses
  <2>7. OrphanOutcome(r) \notin PausedQueueStatuses => ~ActiveRun(r)' /\ EndedTurn(r)'
    BY <1>0, <2>4, <2>5, <2>6 DEF ActiveRun, EndedTurn, FinishedTurn, FinishStatus, TurnOutcome, TurnRows,
                           ActiveRunStatuses, PausedQueueStatuses, TerminalQueueStatuses, DoneStatuses
  <2>8. OrphanOutcome(r) \in PausedQueueStatuses => ActiveRun(r)'
    BY <2>5 DEF ActiveRun, ActiveRunStatuses, PausedQueueStatuses
  <2> QED
    BY <2>1, <2>2, <2>3, <2>5, <2>7, <2>8 DEF LeftRows, Busy
<1> QED
  BY <1>1, <1>2, LeftKeeps

\* recover_claims takes back a claim that nobody can be carrying any more.
LEMMA ClaimsKeep ==
    ASSUME StoreOK, Plain, NoCancels, Core, Bystanders, NEW closing, RecoverClaims(closing)
    PROVE  Core'
<1>0. run \in [Requests -> RunRows] /\ turn \in [Requests -> TurnRows]
  BY DEF StoreOK, StoreTypeOK, RunTypeOK, TurnTypeOK
<1>1. ASSUME NEW r \in Requests
      PROVE  run'[r].status = run[r].status /\ run'[r].beat = run[r].beat
  <2>1. run[r] \in RunRows
    BY <1>0
  <2>2. run'[r] = run[r] \/ \E msg : run'[r] = [run[r] EXCEPT !.msg = msg]
    BY DEF RecoverClaims
  <2>3. ASSUME NEW msg, run'[r] = [run[r] EXCEPT !.msg = msg]
        PROVE  run'[r].status = run[r].status /\ run'[r].beat = run[r].beat
    BY <2>1, <2>3 DEF RunRows
  <2> QED
    BY <2>2, <2>3
<1>2. ASSUME NEW r \in Requests, RunIsActive \/ r \notin StaleClaims
      PROVE  LeftRows(r)
  <2>1. turn'[r] = turn[r] /\ run'[r] = run[r]
    BY <1>2 DEF RecoverClaims
  <2> QED
    BY <2>1 DEF LeftRows
<1>3. ASSUME NEW r \in Requests, ~RunIsActive, r \in StaleClaims
      PROVE  LeftRows(r)
  <2>1. Claimed(r) /\ turn[r].started = "stale" /\ ~ActiveRun(r) /\ ~ActiveRun(r)'
    BY <1>1, <1>3 DEF StaleClaims, InStatus, Claimed, RunIsActive, ActiveRun
  <2>2. turn'[r] = RecoveredTurn(r)
    BY <1>3 DEF RecoverClaims
  <2>3. turn'[r].status \in {"queued"} \cup TerminalQueueStatuses
    BY <1>0, <2>2 DEF RecoveredTurn, FinishedTurn, FinishStatus, Requeued, TurnRows, TerminalQueueStatuses
  <2>4. Left(r)
    <3>1. ~Carried(r)
      BY <2>1 DEF Core, CarriedInTime
    <3>2. \A w \in Workers : /\ Holds(w) => Key(w) # r
                             /\ worker[w].pc \in {"early_runs", "early_turn", "create"} => Brings(w)
      BY <2>1 DEF Core, WorkerFits, Brings
    <3> QED
      BY <3>1, <3>2 DEF Left, Carried
  <2>5. /\ ~ActiveTurn(r)' /\ ~EndedTurn(r) /\ turn'[r].status \notin PausedQueueStatuses
    BY <2>1, <2>3 DEF ActiveTurn, EndedTurn, Claimed, ActiveQueueStatuses, TerminalQueueStatuses, PausedQueueStatuses
  <2> QED
    BY <2>1, <2>4, <2>5 DEF LeftRows, Busy
<1> QED
  BY <1>2, <1>3, LeftKeeps

\* claim_next claims when nothing is busy.
LEMMA ClaimKeeps ==
    ASSUME StoreOK, Plain, NoCancels, Core, NEW d \in Dispatchers, NEW r \in Requests,
           Claim(r), disp' = [disp EXCEPT ![d] = [pc |-> "submit", key |-> r]],
           disp \in [Dispatchers -> [pc : DispPcs, key : Requests \cup {None}]], disp[d].pc = "claim",
           UNCHANGED <<jobs, worker, beat>>
    PROVE  Core'
<1>0. turn \in [Requests -> TurnRows]
  BY DEF StoreOK, StoreTypeOK, TurnTypeOK
<1>1. /\ \A q \in Requests : ~Busy(q) /\ run'[q] = run[q] /\ ~ActiveRun(q) /\ ~ActiveRun(q)'
      /\ \A q \in Requests : q # r => turn'[q] = turn[q]
      /\ Waiting(r) /\ turn'[r].status = "running" /\ turn'[r].started = "fresh"
  BY <1>0 DEF Claim, Claimable, FirstQueued, InStatus, Busy, ActiveTurn, ActiveRun, RunIsActive, TurnRows, Waiting
<1>2. \A q \in Requests : ~Claimed(q)
  BY <1>1 DEF Busy, ActiveTurn, Claimed, ActiveQueueStatuses
<1>w. \A w \in Workers : /\ Brings(w)' <=> Brings(w)
                         /\ Holds(w)' <=> Holds(w)
                         /\ Key(w)' = Key(w) /\ worker'[w] = worker[w]
  BY DEF Brings, Holds, Key
<1>d. \A e \in Dispatchers, q \in Requests : Submits(e, q)' <=> Submits(e, q) \/ (e = d /\ q = r)
  BY DEF Submits
<1>j. \A q : Sent(q)' <=> Sent(q)
  BY DEF Sent
<1>c. \A q \in Requests : q # r => (Carried(q)' <=> Carried(q))
  BY <1>w, <1>d, <1>j DEF Carried
<1>h. \A w \in Workers : worker[w].pc # "idle" => ~Holds(w) /\ Key(w) \in Requests
  BY <1>2 DEF Core, WorkerFits, Plain, PlainJob, Key
<1>l. ~Carried(r)
  BY <1>1 DEF Core, WaitsAlone
<1>3. OneBusy'
  BY <1>1 DEF OneBusy, Busy, ActiveTurn, ActiveRun
<1>4. CarriedInTime'
  BY <1>1, <1>c DEF Core, CarriedInTime
<1>5. RunsHaveTurns'
  BY <1>1 DEF RunsHaveTurns
<1>6. ASSUME NEW q \in Requests
      PROVE  WaitsAlone(q)' /\ Silent(q)' /\ BeatIsRight(q)'
  <2>1. WaitsAlone(q) /\ BeatIsRight(q)
    BY DEF Core
  <2>2. CASE q # r
    BY <1>1, <1>c, <1>w, <2>1, <2>2 DEF WaitsAlone, Silent, BeatIsRight, Waiting, EndedTurn
  <2>3. CASE q = r
    BY <1>1, <2>1, <2>3 DEF WaitsAlone, Silent, BeatIsRight, Waiting, EndedTurn, TerminalQueueStatuses
  <2> QED
    BY <2>2, <2>3
<1>7. ASSUME NEW e \in Dispatchers, NEW q \in Requests
      PROVE  SubmitsFirst(e, q)'
  <2>1. SubmitsFirst(e, q)
    BY DEF Core
  <2>2. CASE q # r
    BY <1>1, <1>d, <1>j, <1>w, <2>1, <2>2 DEF SubmitsFirst
  <2>3. CASE q = r
    BY <1>1, <1>d, <1>j, <1>w, <1>h, <1>l, <2>3 DEF SubmitsFirst, Carried, Brings, Holds
  <2> QED
    BY <2>2, <2>3
<1>8. ASSUME NEW w \in Workers
      PROVE  WorkerFits(w)'
  <2>1. WorkerFits(w)
    BY DEF Core
  <2>2. CASE worker[w].pc = "idle"
    BY <2>2, <1>w DEF WorkerFits, Holds
  <2>3. CASE worker[w].pc # "idle"
    BY <1>1, <1>2, <1>w, <1>h, <2>1, <2>3 DEF WorkerFits, PausedQueueStatuses
  <2> QED
    BY <2>2, <2>3
<1> QED
  BY <1>3, <1>4, <1>5, <1>6, <1>7, <1>8 DEF Core

\* apply_async of the claimed run.
LEMMA SubmitKeeps ==
    ASSUME Plain, Core, NEW d \in Dispatchers, NEW r \in Requests, Submits(d, r),
           jobs' = jobs \cup {[kind |-> "turn", key |-> r, target |-> r]},
           disp' = [disp EXCEPT ![d] = IdleDispatcher],
           disp \in [Dispatchers -> [pc : DispPcs, key : Requests \cup {None}]],
           UNCHANGED <<run, turn, worker, beat>>
    PROVE  Core'
<1>w. \A w \in Workers : /\ Brings(w)' <=> Brings(w)
                         /\ Holds(w)' <=> Holds(w)
                         /\ Key(w)' = Key(w) /\ worker'[w] = worker[w]
                         /\ WorkerFits(w)' <=> WorkerFits(w)
  BY DEF Brings, Holds, Key, WorkerFits, Claimed, ActiveRun
<1>d. \A e \in Dispatchers, q \in Requests : Submits(e, q)' <=> Submits(e, q) /\ e # d
  BY DEF Submits, IdleDispatcher
<1>j. \A q : Sent(q)' <=> Sent(q) \/ q = r
  <2> DEFINE new == [kind |-> "turn", key |-> r, target |-> r]
  <2>1. \A job : job \in jobs' <=> job \in jobs \/ job = new
    OBVIOUS
  <2>2. new.kind = "turn" /\ new.key = r
    OBVIOUS
  <2> HIDE DEF new
  <2> QED
    BY <2>1, <2>2 DEF Sent
<1>r. \A q \in Requests : /\ Busy(q)' <=> Busy(q)
                          /\ Waiting(q)' <=> Waiting(q)
                          /\ EndedTurn(q)' <=> EndedTurn(q)
                          /\ ActiveTurn(q)' <=> ActiveTurn(q)
                          /\ ActiveRun(q)' <=> ActiveRun(q)
  BY DEF Busy, Waiting, EndedTurn, ActiveTurn, ActiveRun
<1>s. SubmitsFirst(d, r)
  BY DEF Core
<1>c. \A q \in Requests : Carried(q)' => Carried(q)
  BY <1>w, <1>d, <1>j DEF Carried
<1>1. OneBusy' /\ CarriedInTime' /\ RunsHaveTurns'
  BY <1>r, <1>c DEF Core, OneBusy, CarriedInTime, RunsHaveTurns
<1>2. ASSUME NEW q \in Requests
      PROVE  WaitsAlone(q)' /\ Silent(q)' /\ BeatIsRight(q)'
  <2>1. WaitsAlone(q) /\ Silent(q) /\ BeatIsRight(q)
    BY DEF Core
  <2>2. WaitsAlone(q)' /\ BeatIsRight(q)'
    BY <1>r, <1>c, <1>w, <2>1 DEF WaitsAlone, BeatIsRight
  <2>3. Silent(q)'
    BY <1>r, <1>w, <1>d, <1>s, <2>1 DEF Silent, SubmitsFirst
  <2> QED
    BY <2>2, <2>3
<1>3. ASSUME NEW e \in Dispatchers, NEW q \in Requests
      PROVE  SubmitsFirst(e, q)'
  <2>1. SubmitsFirst(e, q)
    BY DEF Core
  <2> QED
    BY <1>r, <1>w, <1>d, <1>j, <1>s, <2>1 DEF SubmitsFirst
<1> QED
  BY <1>w, <1>1, <1>2, <1>3 DEF Core

\* A failed submission gives the claim back; nobody else has it.
LEMMA ReleaseKeeps ==
    ASSUME StoreOK, Plain, Core, NEW d \in Dispatchers, NEW r \in Requests, Submits(d, r),
           ReleaseClaim(r), disp' = [disp EXCEPT ![d] = IdleDispatcher],
           disp \in [Dispatchers -> [pc : DispPcs, key : Requests \cup {None}]],
           UNCHANGED <<jobs, worker, beat>>
    PROVE  Core'
<1>0. turn \in [Requests -> TurnRows]
  BY DEF StoreOK, StoreTypeOK, TurnTypeOK
<1>s. SubmitsFirst(d, r) /\ ~ActiveRun(r) /\ turn[r].started # "stale"
  BY DEF Core, SubmitsFirst, CarriedInTime, Carried
<1>1. /\ \A q \in Requests : run'[q] = run[q] /\ (q # r => turn'[q] = turn[q])
      /\ turn'[r] = turn[r] \/ (/\ turn[r].status = "running"
                                /\ turn'[r].status = "queued" /\ turn'[r].started = "null")
  BY <1>0 DEF ReleaseClaim, Requeued, TurnRows
<1>w. \A w \in Workers : /\ Brings(w)' <=> Brings(w)
                         /\ Holds(w)' <=> Holds(w)
                         /\ Key(w)' = Key(w) /\ worker'[w] = worker[w]
  BY DEF Brings, Holds, Key
<1>d. \A e \in Dispatchers, q \in Requests : Submits(e, q)' <=> Submits(e, q) /\ e # d
  BY DEF Submits, IdleDispatcher
<1>j. \A q : Sent(q)' <=> Sent(q)
  BY DEF Sent
<1>c. /\ \A q \in Requests : Carried(q)' => Carried(q)
      /\ ~Carried(r)'
  BY <1>w, <1>d, <1>j, <1>s DEF Carried, SubmitsFirst
<1>r. \A q \in Requests : /\ Busy(q)' => Busy(q)
                          /\ Waiting(q)' => Waiting(q) \/ q = r
                          /\ EndedTurn(q)' <=> EndedTurn(q)
                          /\ ActiveRun(q)' <=> ActiveRun(q)
  BY <1>1 DEF Busy, Waiting, EndedTurn, ActiveTurn, ActiveRun, ActiveQueueStatuses, TerminalQueueStatuses
<1>2. OneBusy' /\ CarriedInTime'
  BY <1>1, <1>r, <1>c DEF Core, OneBusy, CarriedInTime
<1>3. RunsHaveTurns'
  BY <1>1, <1>s, <1>r DEF Core, RunsHaveTurns, ActiveTurn
<1>4. ASSUME NEW q \in Requests
      PROVE  WaitsAlone(q)' /\ Silent(q)' /\ BeatIsRight(q)'
  <2>1. WaitsAlone(q) /\ Silent(q) /\ BeatIsRight(q)
    BY DEF Core
  <2>2. WaitsAlone(q)'
    BY <1>r, <1>c, <1>w, <1>s, <2>1 DEF WaitsAlone, SubmitsFirst
  <2>3. Silent(q)' /\ BeatIsRight(q)'
    BY <1>1, <1>r, <1>w, <1>d, <2>1 DEF Silent, BeatIsRight
  <2> QED
    BY <2>2, <2>3
<1>5. ASSUME NEW e \in Dispatchers, NEW q \in Requests
      PROVE  SubmitsFirst(e, q)'
  <2>1. SubmitsFirst(e, q)
    BY DEF Core
  <2> QED
    BY <1>r, <1>w, <1>d, <1>j, <2>1 DEF SubmitsFirst
<1>6. ASSUME NEW w \in Workers
      PROVE  WorkerFits(w)'
  <2>1. WorkerFits(w) /\ (worker[w].pc # "idle" => Key(w) \in Requests)
    BY DEF Core, Plain, PlainJob, Key
  <2>2. CASE worker[w].pc = "idle"
    BY <2>2, <1>w DEF WorkerFits, Holds
  <2>3. CASE worker[w].pc # "idle" /\ Key(w) # r
    BY <1>1, <1>w, <1>r, <2>1, <2>3 DEF WorkerFits, Claimed
  <2>4. CASE worker[w].pc # "idle" /\ Key(w) = r
    <3>1. ~Holds(w) /\ ~Brings(w)
      BY <1>s, <2>4 DEF SubmitsFirst
    <3> QED
      BY <1>1, <1>w, <1>r, <2>1, <2>4, <3>1 DEF WorkerFits, Brings, PausedQueueStatuses
  <2> QED
    BY <2>2, <2>3, <2>4
<1> QED
  BY <1>2, <1>3, <1>4, <1>5, <1>6 DEF Core

\* A worker takes a job: the claim goes from the broker to the worker.
LEMMA TakeKeeps ==
    ASSUME StoreOK, Plain, Core, NEW w \in Workers, NEW job \in jobs, jobs' \subseteq jobs,
           worker' = [worker EXCEPT ![w] = [pc |-> "check", job |-> job, out |-> "none"]],
           UNCHANGED <<run, turn, disp, beat>>
    PROVE  Core'
<1>0. WorkerOK /\ PlainJob(job)
  BY DEF StoreOK, Plain
<1>1. /\ worker'[w].pc = "check" /\ Key(w)' = job.key /\ job.key \in Requests
      /\ Brings(w)' => Sent(job.key)
      /\ ~Holds(w)' /\ WorkerFits(w)'
  BY <1>0 DEF WorkerOK, PlainJob, Key, Brings, Sent, Holds, WorkerFits
<1>w. \A v \in Workers : v # w => /\ Brings(v)' <=> Brings(v)
                                  /\ Holds(v)' <=> Holds(v)
                                  /\ Key(v)' = Key(v) /\ worker'[v] = worker[v]
                                  /\ WorkerFits(v)' <=> WorkerFits(v)
  BY <1>0 DEF WorkerOK, Brings, Holds, Key, WorkerFits, Claimed, ActiveRun
<1>d. \A e \in Dispatchers, q \in Requests : Submits(e, q)' <=> Submits(e, q)
  BY DEF Submits
<1>j. \A q : Sent(q)' => Sent(q)
  BY DEF Sent
<1>r. \A q \in Requests : /\ Busy(q)' <=> Busy(q)
                          /\ Waiting(q)' <=> Waiting(q)
                          /\ EndedTurn(q)' <=> EndedTurn(q)
                          /\ ActiveTurn(q)' <=> ActiveTurn(q)
                          /\ ActiveRun(q)' <=> ActiveRun(q)
  BY DEF Busy, Waiting, EndedTurn, ActiveTurn, ActiveRun
<1>c. \A q \in Requests : Carried(q)' => Carried(q)
  BY <1>1, <1>w, <1>d, <1>j DEF Carried
<1>2. OneBusy' /\ CarriedInTime' /\ RunsHaveTurns'
  BY <1>r, <1>c DEF Core, OneBusy, CarriedInTime, RunsHaveTurns
<1>3. ASSUME NEW q \in Requests
      PROVE  WaitsAlone(q)' /\ Silent(q)' /\ BeatIsRight(q)'
  <2>1. WaitsAlone(q) /\ Silent(q) /\ BeatIsRight(q)
    BY DEF Core
  <2>2. WaitsAlone(q)' /\ BeatIsRight(q)'
    BY <1>1, <1>r, <1>c, <1>w, <2>1 DEF WaitsAlone, BeatIsRight
  <2>3. Silent(q)'
    BY <1>1, <1>r, <1>w, <1>d, <2>1 DEF Silent
  <2> QED
    BY <2>2, <2>3
<1>4. ASSUME NEW e \in Dispatchers, NEW q \in Requests
      PROVE  SubmitsFirst(e, q)'
  <2>1. SubmitsFirst(e, q)
    BY DEF Core
  <2> QED
    BY <1>1, <1>r, <1>w, <1>d, <1>j, <2>1 DEF SubmitsFirst
<1> QED
  BY <1>1, <1>w, <1>2, <1>3, <1>4 DEF Core

\* The beat ends a run that has been silent, or one that had ended anyway.
LEMMA ExpireKeeps ==
    ASSUME StoreOK, Plain, NoCancels, Core, NEW r \in Requests, ExpireLease(r),
           UNCHANGED <<jobs, worker, disp>>, BeatTypeOK
    PROVE  Core'
<1>0. /\ run \in [Requests -> RunRows] /\ r \in beat.stale /\ UNCHANGED turn
      /\ beat'.stale = beat.stale \ {r} /\ Bystanders
  BY DEF StoreOK, StoreTypeOK, RunTypeOK, ExpireLease, BeatTypeOK, Bystanders
<1>1. /\ run'[r].status \in {"cancelled", "failed"}
      /\ \A q \in Requests : q # r => run'[q] = run[q]
  <2>1. \A status : [FinishedRun(run[r], status) EXCEPT
                        !.lease = TRUE, !.msg = ClosedMessage(@, status)].status = status
    BY <1>0 DEF FinishedRun, RunRows
  <2> QED
    BY <1>0, <2>1 DEF ExpireLease, LeaseOutcome
<1>2. ~ActiveRun(r)'
  BY <1>1 DEF ActiveRun, ActiveRunStatuses
<1>3. BeatIsRight(r) /\ Silent(r)
  BY DEF Core
<1>4. LeftRows(r)
  <2>1. CASE ~ActiveRun(r)
    BY <1>0, <1>2, <2>1 DEF LeftRows
  <2>2. CASE ActiveRun(r)
    <3>1. Left(r)
      BY <1>0, <1>3, <2>2 DEF BeatIsRight, Silent, Left, Carried, Sent, Brings, Holds
    <3> QED
      BY <1>0, <1>2, <2>2, <3>1 DEF LeftRows, Busy, ActiveTurn
  <2> QED
    BY <2>1, <2>2
<1>5. \A q \in Requests : q # r => LeftRows(q)
  BY <1>0, <1>1 DEF LeftRows
<1> QED
  BY <1>0, <1>4, <1>5, LeftKeeps

\* A claim grows old when it is neither on its way nor being reported.
LEMMA TurnAgesKeeps ==
    ASSUME OrderlyUse, StoreOK, Plain, Core, NEW r \in Requests, TurnAges(r),
           UNCHANGED <<jobs, worker, disp, beat>>
    PROVE  Core'
<1>0. /\ turn \in [Requests -> TurnRows] /\ UNCHANGED run /\ ~InTransit(r)
      /\ turn' = [turn EXCEPT ![r].started = "stale"]
  BY DEF StoreOK, StoreTypeOK, TurnTypeOK, TurnAges
<1>1. \A q \in Requests : turn'[q].status = turn[q].status /\ (q # r => turn'[q] = turn[q])
  BY <1>0 DEF TurnRows
<1>w. \A w \in Workers : /\ Brings(w)' <=> Brings(w)
                         /\ Holds(w)' <=> Holds(w)
                         /\ Key(w)' = Key(w) /\ worker'[w] = worker[w]
  BY DEF Brings, Holds, Key
<1>d. \A e \in Dispatchers, q \in Requests : Submits(e, q)' <=> Submits(e, q)
  BY DEF Submits
<1>j. \A q : Sent(q)' <=> Sent(q)
  BY DEF Sent
<1>r. \A q \in Requests : /\ Busy(q)' <=> Busy(q)
                          /\ Waiting(q)' <=> Waiting(q)
                          /\ EndedTurn(q)' <=> EndedTurn(q)
                          /\ ActiveTurn(q)' <=> ActiveTurn(q)
                          /\ ActiveRun(q)' <=> ActiveRun(q)
                          /\ Claimed(q)' <=> Claimed(q)
  BY <1>0, <1>1 DEF Busy, Waiting, EndedTurn, ActiveTurn, ActiveRun, Claimed
<1>c. \A q \in Requests : Carried(q)' <=> Carried(q)
  BY <1>w, <1>d, <1>j DEF Carried
<1>l. ~Carried(r)
  BY <1>0 DEF OrderlyUse, InTransit, Starting, Carried, Submits, Sent, Brings
<1>2. OneBusy' /\ CarriedInTime' /\ RunsHaveTurns'
  BY <1>1, <1>r, <1>c, <1>l DEF Core, OneBusy, CarriedInTime, RunsHaveTurns
<1>3. ASSUME NEW q \in Requests
      PROVE  WaitsAlone(q)' /\ Silent(q)' /\ BeatIsRight(q)'
  <2>1. WaitsAlone(q) /\ Silent(q) /\ BeatIsRight(q)
    BY DEF Core
  <2> QED
    BY <1>0, <1>r, <1>c, <1>w, <1>d, <2>1 DEF WaitsAlone, Silent, BeatIsRight
<1>4. ASSUME NEW e \in Dispatchers, NEW q \in Requests
      PROVE  SubmitsFirst(e, q)'
  <2>1. SubmitsFirst(e, q)
    BY DEF Core
  <2> QED
    BY <1>r, <1>w, <1>d, <1>j, <2>1 DEF SubmitsFirst
<1>5. ASSUME NEW w \in Workers
      PROVE  WorkerFits(w)'
  <2>1. WorkerFits(w) /\ (worker[w].pc # "idle" => Key(w) \in Requests)
    BY DEF Core, Plain, PlainJob, Key
  <2>2. CASE worker[w].pc = "idle"
    BY <2>2, <1>w DEF WorkerFits, Holds
  <2>3. CASE worker[w].pc # "idle" /\ Key(w) # r
    BY <1>1, <1>w, <1>r, <2>1, <2>3 DEF WorkerFits
  <2>4. CASE worker[w].pc # "idle" /\ Key(w) = r
    <3>1. worker[w].pc \notin {"emit", "final_run", "final_turn"}
      BY <1>0, <2>4 DEF InTransit, Settling
    <3> QED
      BY <1>1, <1>w, <1>r, <2>1, <2>4, <3>1 DEF WorkerFits, Holds
  <2> QED
    BY <2>2, <2>3, <2>4
<1> QED
  BY <1>2, <1>3, <1>4, <1>5 DEF Core

\* A heartbeat grows old when no process has the run.
LEMMA LeaseAgesKeeps ==
    ASSUME OrderlyUse, StoreOK, Plain, Core, NEW r \in Requests, LeaseAges(r),
           UNCHANGED <<jobs, worker, disp, beat>>
    PROVE  Core'
<1>0. /\ run \in [Requests -> RunRows] /\ UNCHANGED turn /\ ~InTransit(r)
      /\ ~ \E w \in Workers : (Executing(w) \/ Settling(w)) /\ Target(w) = r
      /\ \A q \in Requests : run'[q].status = run[q].status /\ (q # r => run'[q] = run[q])
      /\ run'[r].beat # "fresh"
  BY DEF StoreOK, StoreTypeOK, RunTypeOK, LeaseAges, RunRows
<1>w. \A w \in Workers : /\ Brings(w)' <=> Brings(w)
                         /\ Holds(w)' <=> Holds(w)
                         /\ Key(w)' = Key(w) /\ worker'[w] = worker[w]
  BY DEF Brings, Holds, Key
<1>d. \A e \in Dispatchers, q \in Requests : Submits(e, q)' <=> Submits(e, q)
  BY DEF Submits
<1>j. \A q : Sent(q)' <=> Sent(q)
  BY DEF Sent
<1>r. \A q \in Requests : /\ Busy(q)' <=> Busy(q)
                          /\ Waiting(q)' <=> Waiting(q)
                          /\ EndedTurn(q)' <=> EndedTurn(q)
                          /\ ActiveTurn(q)' <=> ActiveTurn(q)
                          /\ ActiveRun(q)' <=> ActiveRun(q)
                          /\ Claimed(q)' <=> Claimed(q)
  BY <1>0 DEF Busy, Waiting, EndedTurn, ActiveTurn, ActiveRun, Claimed
<1>c. \A q \in Requests : Carried(q)' <=> Carried(q)
  BY <1>w, <1>d, <1>j DEF Carried
<1>l. /\ \A w \in Workers : worker[w].pc # "idle" => Key(w) # r
      /\ \A job \in jobs : job.key # r
      /\ \A d \in Dispatchers : ~Submits(d, r)
  <2>1. ASSUME NEW w \in Workers, worker[w].pc # "idle", Key(w) = r
        PROVE  FALSE
    <3>1. Target(w) = r /\ worker[w].pc \notin {"apply", "revive"} /\ worker[w].pc \in WorkerPcs
      BY <2>1 DEF Plain, PlainJob, Key, Target, StoreOK, WorkerOK
    <3> QED
      BY <1>0, <2>1, <3>1 DEF InTransit, Starting, Settling, Executing, WorkerPcs
  <2>2. /\ \A job \in jobs : job.key # r
        /\ \A d \in Dispatchers : ~Submits(d, r)
    BY <1>0 DEF OrderlyUse, InTransit, Submits
  <2> QED
    BY <2>1, <2>2
<1>2. OneBusy' /\ CarriedInTime' /\ RunsHaveTurns'
  BY <1>0, <1>r, <1>c DEF Core, OneBusy, CarriedInTime, RunsHaveTurns
<1>3. ASSUME NEW q \in Requests
      PROVE  WaitsAlone(q)' /\ Silent(q)' /\ BeatIsRight(q)'
  <2>1. WaitsAlone(q) /\ Silent(q) /\ BeatIsRight(q)
    BY DEF Core
  <2>2. WaitsAlone(q)' /\ BeatIsRight(q)'
    BY <1>0, <1>r, <1>c, <1>w, <2>1 DEF WaitsAlone, BeatIsRight
  <2>3. Silent(q)'
    BY <1>0, <1>r, <1>w, <1>d, <1>l, <2>1 DEF Silent
  <2> QED
    BY <2>2, <2>3
<1>4. ASSUME NEW e \in Dispatchers, NEW q \in Requests
      PROVE  SubmitsFirst(e, q)'
  <2>1. SubmitsFirst(e, q)
    BY DEF Core
  <2> QED
    BY <1>r, <1>w, <1>d, <1>j, <2>1 DEF SubmitsFirst
<1>5. ASSUME NEW w \in Workers
      PROVE  WorkerFits(w)'
  <2>1. WorkerFits(w) /\ (worker[w].pc # "idle" => Key(w) \in Requests)
    BY DEF Core, Plain, PlainJob, Key
  <2>2. CASE worker[w].pc = "idle"
    BY <2>2, <1>w DEF WorkerFits, Holds
  <2>3. CASE worker[w].pc # "idle"
    BY <1>0, <1>w, <1>r, <2>1, <2>3 DEF WorkerFits
  <2> QED
    BY <2>2, <2>3
<1> QED
  BY <1>2, <1>3, <1>4, <1>5 DEF Core

\* What an answer does: it finds the one paused turn, which is the one that asked.
LEMMA AnswerDoes ==
    ASSUME OrderlyUse, StoreOK, Core, NEW c \in Clients, NEW r \in Requests, Answer(c, r)
    PROVE  /\ Uncancelled /\ turn[r].status \in PausedQueueStatuses /\ run[r].status = "awaiting_user"
           /\ turn' = [turn EXCEPT ![r] = Resumed(@)]
           /\ run' = [run EXCEPT ![r] = QuestionClaimed(@)]
           /\ jobs' \in {jobs, jobs \cup {[kind |-> "answer", key |-> r, target |-> r]}}
<1>1. /\ Uncancelled /\ turn[r].status \in PausedQueueStatuses /\ run[r].status = "awaiting_user"
      /\ run' = [run EXCEPT ![r] = QuestionClaimed(@)]
      /\ Continue([kind |-> "answer", key |-> Anon, target |-> r])
  BY DEF Answer, Calls, Enters, Uncancelled, Answerable, OrderlyUse, CanClaimQuestion
<1>2. \A q \in InStatus(PausedQueueStatuses) : q = r
  BY <1>1 DEF Core, OneBusy, Busy, ActiveTurn, InStatus, ActiveQueueStatuses, PausedQueueStatuses
<1>3. FirstPaused = {r}
  <2>1. turn[r].sequence \in Nat
    BY DEF StoreOK, StoreTypeOK, TurnTypeOK, TurnRows
  <2> QED
    BY <1>1, <1>2, <2>1 DEF FirstPaused, InStatus
<1>4. [[kind |-> "answer", key |-> Anon, target |-> r] EXCEPT !.key = r]
        = [kind |-> "answer", key |-> r, target |-> r]
  OBVIOUS
<1> QED
  BY <1>1, <1>3, <1>4 DEF Continue, Submit

LEMMA AnswerKeeps ==
    ASSUME OrderlyUse, StoreOK, Plain, NoCancels, Core, NEW c \in Clients, NEW r \in Requests, Answer(c, r),
           UNCHANGED <<worker, disp, beat>>
    PROVE  Core'
<1> DEFINE new == [kind |-> "answer", key |-> r, target |-> r]
<1>0. /\ run \in [Requests -> RunRows] /\ turn \in [Requests -> TurnRows]
      /\ Uncancelled /\ turn[r].status \in PausedQueueStatuses /\ run[r].status = "awaiting_user"
      /\ turn' = [turn EXCEPT ![r] = Resumed(@)] /\ run' = [run EXCEPT ![r] = QuestionClaimed(@)]
      /\ jobs' \in {jobs, jobs \cup {new}}
  BY AnswerDoes DEF StoreOK, StoreTypeOK, RunTypeOK, TurnTypeOK
<1>1. /\ \A q \in Requests : /\ q # r => turn'[q] = turn[q] /\ run'[q] = run[q]
                             /\ turn'[q].started = turn[q].started
      /\ turn'[r].status = "running" /\ run'[r].status = "running" /\ run'[r].beat = "fresh"
  BY <1>0 DEF Resumed, QuestionClaimed, TurnRows, RunRows
<1>2. /\ ActiveRun(r) /\ ActiveTurn(r) /\ ~Claimed(r) /\ ~EndedTurn(r)
      /\ ActiveRun(r)' /\ ActiveTurn(r)' /\ Claimed(r)'
  BY <1>0, <1>1 DEF ActiveRun, ActiveTurn, Claimed, EndedTurn, ActiveRunStatuses, ActiveQueueStatuses,
                    PausedQueueStatuses, TerminalQueueStatuses
<1>w. \A w \in Workers : /\ Brings(w)' <=> Brings(w)
                         /\ Holds(w)' <=> Holds(w)
                         /\ Key(w)' = Key(w) /\ worker'[w] = worker[w]
  BY DEF Brings, Holds, Key
<1>d. \A e \in Dispatchers, q \in Requests : Submits(e, q)' <=> Submits(e, q)
  BY DEF Submits
<1>j. /\ \A q : Sent(q)' <=> Sent(q)
      /\ \A job \in jobs' : job \in jobs \/ job.key = r
  <2>1. new.kind = "answer" /\ new.key = r
    OBVIOUS
  <2> HIDE DEF new
  <2> QED
    BY <1>0, <2>1 DEF Sent
<1>r. \A q \in Requests : /\ Busy(q)' <=> Busy(q)
                          /\ Waiting(q)' => Waiting(q)
                          /\ EndedTurn(q)' <=> EndedTurn(q)
                          /\ ActiveTurn(q)' <=> ActiveTurn(q)
                          /\ ActiveRun(q)' <=> ActiveRun(q)
                          /\ Claimed(q) => Claimed(q)'
  <2>1. ~Waiting(r)' /\ ~EndedTurn(r)'
    BY <1>1 DEF Waiting, EndedTurn, TerminalQueueStatuses
  <2>2. \A q \in Requests : q # r => /\ Waiting(q)' <=> Waiting(q)
                                     /\ EndedTurn(q)' <=> EndedTurn(q)
                                     /\ ActiveTurn(q)' <=> ActiveTurn(q)
                                     /\ ActiveRun(q)' <=> ActiveRun(q)
                                     /\ Claimed(q)' <=> Claimed(q)
    BY <1>1 DEF Waiting, EndedTurn, ActiveTurn, ActiveRun, Claimed
  <2> QED
    BY <1>2, <2>1, <2>2 DEF Busy
<1>c. \A q \in Requests : Carried(q)' <=> Carried(q)
  BY <1>w, <1>d, <1>j DEF Carried
<1>3. OneBusy' /\ CarriedInTime' /\ RunsHaveTurns'
  BY <1>1, <1>r, <1>c DEF Core, OneBusy, CarriedInTime, RunsHaveTurns
<1>4. ASSUME NEW q \in Requests
      PROVE  WaitsAlone(q)' /\ Silent(q)' /\ BeatIsRight(q)'
  <2>1. WaitsAlone(q) /\ Silent(q) /\ BeatIsRight(q)
    BY DEF Core
  <2>2. WaitsAlone(q)'
    BY <1>r, <1>c, <1>w, <2>1 DEF WaitsAlone
  <2>3. Silent(q)'
    BY <1>1, <1>r, <1>w, <1>d, <1>j, <2>1 DEF Silent
  <2>4. BeatIsRight(q)'
    <3>1. q = r => q \notin beat.stale
      BY <1>0, <1>2, <2>1 DEF BeatIsRight
    <3> QED
      BY <1>1, <1>r, <2>1, <3>1 DEF BeatIsRight
  <2> QED
    BY <2>2, <2>3, <2>4
<1>5. ASSUME NEW e \in Dispatchers, NEW q \in Requests
      PROVE  SubmitsFirst(e, q)'
  <2>1. SubmitsFirst(e, q)
    BY DEF Core
  <2> QED
    BY <1>r, <1>w, <1>d, <1>j, <2>1 DEF SubmitsFirst
<1>6. ASSUME NEW w \in Workers
      PROVE  WorkerFits(w)'
  <2>1. WorkerFits(w) /\ (worker[w].pc # "idle" => Key(w) \in Requests)
    BY DEF Core, Plain, PlainJob, Key
  <2>2. CASE worker[w].pc = "idle"
    BY <2>2, <1>w DEF WorkerFits, Holds
  <2>3. CASE worker[w].pc # "idle" /\ Key(w) # r
    BY <1>1, <1>w, <1>r, <2>1, <2>3 DEF WorkerFits
  <2>4. CASE worker[w].pc # "idle" /\ Key(w) = r
    BY <1>1, <1>2, <1>w, <1>r, <2>1, <2>4 DEF WorkerFits, PausedQueueStatuses
  <2> QED
    BY <2>2, <2>3, <2>4
<1> QED
  BY <1>3, <1>4, <1>5, <1>6 DEF Core
-----------------------------------------------------------------------------
(* The steps that start nothing. *)

LEMMA SameTurnIsCalm ==
    ASSUME NEW r, turn'[r].status = turn[r].status, turn'[r].started = turn[r].started
    PROVE  CalmTurn(r)
BY DEF CalmTurn, Claimed, ActiveTurn, Waiting, EndedTurn

LEMMA SameRunIsCalm ==
    ASSUME NEW r, run'[r].status = run[r].status, run'[r].beat = run[r].beat
    PROVE  CalmRun(r)
BY DEF CalmRun, ActiveRun

\* Asking an active turn to stop, and clearing the queue.
LEMMA CancelledTurnIsCalm ==
    ASSUME ~Uncancelled, turn \in [Requests -> TurnRows], NEW r \in Requests,
           turn'[r] \in {CancelRequestedTurn(turn[r]), ClearedTurn(turn[r]), turn[r]}
    PROVE  CalmTurn(r)
<1>1. turn'[r].started = turn[r].started
  BY DEF CancelRequestedTurn, ClearedTurn, CancelledTurn, TurnRows
<1>2. \/ turn'[r].status = turn[r].status
      \/ turn[r].status \in ActiveQueueStatuses /\ turn'[r].status = "cancelling"
      \/ turn[r].status \notin {"running", "cancelling"} /\ turn'[r].status = "cancelled"
  BY DEF CancelRequestedTurn, ClearedTurn, CancelledTurn, TurnRows, QueueableStatuses, ActiveQueueStatuses,
         PausedQueueStatuses
<1> QED
  BY <1>1, <1>2 DEF CalmTurn, Claimed, ActiveTurn, Waiting, EndedTurn, ActiveQueueStatuses,
                    PausedQueueStatuses, TerminalQueueStatuses

LEMMA CancelledRunsAreCalm ==
    ASSUME ~Uncancelled, run \in [Requests -> RunRows], CancelRuns
    PROVE  \A r \in Requests : CalmRun(r)
<1> SUFFICES ASSUME NEW r \in Requests PROVE CalmRun(r)
  OBVIOUS
<1>1. run'[r] = CancelRequested(run[r]) /\ run[r] \in RunRows
  BY DEF CancelRuns
<1>2. run'[r].beat = run[r].beat /\ (ActiveRun(r)' <=> ActiveRun(r))
  BY <1>1 DEF CancelRequested, RunRows, ActiveRun, ActiveRunStatuses
<1> QED
  BY <1>2 DEF CalmRun

\* A new row waits, whatever its place.
LEMMA NewTurnWaits ==
    ASSUME NEW priority, NEW parent, NEW row \in NewTurn(priority, parent)
    PROVE  row.status = "queued" /\ row.started = "null" /\ row.parent = parent
<1>1. \E n : row = [NoTurn EXCEPT !.status = "queued", !.priority = priority,
                                  !.sequence = n, !.parent = parent]
  BY DEF NewTurn
<1>2. ASSUME NEW n, NEW new, new = [NoTurn EXCEPT !.status = "queued", !.priority = priority,
                                                  !.sequence = n, !.parent = parent]
      PROVE  new.status = "queued" /\ new.started = "null" /\ new.parent = parent
  BY <1>2 DEF NoTurn
<1> QED
  BY <1>1, <1>2

LEMMA AddingIsCalm ==
    ASSUME turn \in [Requests -> TurnRows], NEW r \in Requests,
           (\E steer \in BOOLEAN : Enqueue(r, steer)) \/ Promote(r)
    PROVE  UNCHANGED run /\ \A q \in Requests : CalmTurn(q)
<1>1. CASE \E steer \in BOOLEAN : Enqueue(r, steer)
  <2>0. PICK steer \in BOOLEAN : Enqueue(r, steer)
    BY <1>1
  <2>n. PICK row \in NewTurn(IF steer THEN 1 ELSE 0, None) : turn' = [turn EXCEPT ![r] = row]
    BY <2>0 DEF Enqueue
  <2>1. row.status = "queued" /\ row.started = "null"
    BY NewTurnWaits
  <2>2. turn[r].status = "absent" /\ UNCHANGED run
    BY <1>1 DEF Enqueue
  <2>3. CalmTurn(r)
    BY <2>n, <2>1, <2>2 DEF CalmTurn, Claimed, ActiveTurn, Waiting, EndedTurn, ActiveQueueStatuses,
                      PausedQueueStatuses, TerminalQueueStatuses
  <2>4. \A q \in Requests : q # r => CalmTurn(q)
    BY <2>n, SameTurnIsCalm
  <2> QED
    BY <2>2, <2>3, <2>4
<1>2. CASE Promote(r)
  <2>1. PICK priority : turn' = [turn EXCEPT ![r].priority = priority] /\ UNCHANGED run
    BY <1>2 DEF Promote
  <2>2. \A q \in Requests : turn'[q].status = turn[q].status /\ turn'[q].started = turn[q].started
    BY <2>1 DEF TurnRows
  <2> QED
    BY <2>1, <2>2, SameTurnIsCalm
<1> QED
  BY <1>1, <1>2

\* The processes stay where they are.
Still == UNCHANGED <<jobs, worker, disp, beat>>

LEMMA StillIsCalm ==
    ASSUME Still, \A r \in Requests : CalmTurn(r) /\ CalmRun(r)
    PROVE  CalmStep
BY DEF Still, CalmStep

LEMMA HandlersAreCalm ==
    ASSUME OrderlyUse, StoreOK, Plain, NoCancels, NEW c \in Clients,
           ApiStep(c) \/ ApiFinishes(c), UNCHANGED <<worker, disp, beat>>
    PROVE  \/ CalmStep
           \/ \E r \in Requests : Answer(c, r)
           \/ UNCHANGED jobs /\ \E closing : RecoverTerminalRuns(closing) \/ RecoverClaims(closing)
<1>0. /\ run \in [Requests -> RunRows] /\ turn \in [Requests -> TurnRows]
      /\ \A op \in {"retry", "run_now", "decide", "approve"} : op \notin Ops
      /\ Uncancelled => \A op \in {"pause", "clear", "cancel", "cancel_queued"} : op \notin Ops
  BY DEF StoreOK, StoreTypeOK, RunTypeOK, TurnTypeOK, OrderlyUse, Uncancelled
<1>s. ASSUME UNCHANGED <<run, turn>>
      PROVE  \A r \in Requests : CalmTurn(r) /\ CalmRun(r)
  BY <1>s, SameTurnIsCalm, SameRunIsCalm
<1>a. ASSUME UNCHANGED run
      PROVE  \A r \in Requests : CalmRun(r)
  BY <1>a, SameRunIsCalm
<1>b. ASSUME UNCHANGED turn
      PROVE  \A r \in Requests : CalmTurn(r)
  BY <1>b, SameTurnIsCalm
<1>c. ASSUME ~Uncancelled, NEW r, CancelTurn(r)
      PROVE  \A q \in Requests : CalmTurn(q)
  <2>1. \A q \in Requests : turn'[q] \in {CancelRequestedTurn(turn[q]), turn[q]}
    BY <1>0, <1>c DEF CancelTurn
  <2> QED
    BY <1>0, <1>c, <2>1, CancelledTurnIsCalm
<1>d. ASSUME ~Uncancelled, turn' = [r \in Requests |-> ClearedTurn(turn[r])]
      PROVE  \A q \in Requests : CalmTurn(q)
  BY <1>0, <1>d, CancelledTurnIsCalm
<1>1. CASE ApiStep(c)
  <2>1. ASSUME NEW r \in Requests, EnqueueTurn(r) \/ EnqueueSteered(c, r) \/ SteerTurn(c, r)
        PROVE  CalmStep
    <3>1. UNCHANGED jobs /\ ((\E steer \in BOOLEAN : Enqueue(r, steer)) \/ Promote(r))
      BY <2>1 DEF EnqueueTurn, EnqueueSteered, SteerTurn
    <3> QED
      BY <1>0, <1>a, <3>1, AddingIsCalm, StillIsCalm DEF Still
  <2>2. ASSUME NEW r \in Requests, \/ RunNow(c, r) \/ Decide(c, r) \/ Approve(c, r)
                                   \/ \E failed \in Requests : RetryTurn(c, failed, r)
        PROVE  FALSE
    BY <1>0, <2>2 DEF RunNow, Decide, Approve, RetryTurn, Calls, Enters
  <2>3. ASSUME NEW r \in Requests, CancelRequest(c, r)
        PROVE  CalmStep
    <3>1. ~Uncancelled /\ CancelRuns /\ UNCHANGED <<turn, jobs>>
      BY <1>0, <2>3 DEF CancelRequest, Enters
    <3> QED
      BY <1>0, <1>b, <3>1, CancelledRunsAreCalm, StillIsCalm DEF Still
  <2>4. ASSUME NEW r \in Requests, CancelQueued(c, r)
        PROVE  CalmStep
    <3>1. ~Uncancelled /\ CancelTurn(r) /\ UNCHANGED <<run, jobs>>
      BY <1>0, <2>4 DEF CancelQueued, Enters
    <3> QED
      BY <1>a, <1>c, <3>1, StillIsCalm DEF Still
  <2>5. CASE PauseQueue(c) \/ ResumeQueue(c)
    <3>1. UNCHANGED <<run, turn, jobs>>
      BY <2>5 DEF PauseQueue, Pause, ResumeQueue, Resume
    <3> QED
      BY <1>s, <3>1, StillIsCalm DEF Still
  <2>6. CASE ClearQueue(c)
    <3>1. ~Uncancelled /\ UNCHANGED <<run, jobs>>
      BY <1>0, <2>6 DEF ClearQueue, Calls, Enters, StoreVars
    <3>2. turn' = [r \in Requests |-> ClearedTurn(turn[r])] \/ UNCHANGED turn
      BY <2>6 DEF ClearQueue, StoreVars
    <3> QED
      BY <1>a, <1>b, <1>d, <3>1, <3>2, StillIsCalm DEF Still
  <2>7. CASE ListQueue(c)
    BY <2>7 DEF ListQueue
  <2> QED
    BY <1>1, <2>1, <2>2, <2>3, <2>4, <2>5, <2>6, <2>7 DEF ApiStep
<1>2. CASE ApiFinishes(c)
  <2>1. CASE SteerWake(c) \/ PauseMarks(c) \/ ListResume(c) \/ CancelSignal(c) \/ QueuedSignal(c)
    <3>1. UNCHANGED <<run, turn, jobs>>
      BY <2>1 DEF SteerWake, Resume, PauseMarks, ListResume, ResumeAfterFailure, CancelSignal, QueuedSignal,
                  Signal, StoreVars
    <3> QED
      BY <1>s, <3>1, StillIsCalm DEF Still
  <2>2. CASE RetryWake(c) \/ \E r \in Requests : RunNowSubmits(c, r)
    BY <2>2 DEF RetryWake, RunNowSubmits, Returns, Plain
  <2>3. CASE PauseRuns(c)
    <3>1. ~Uncancelled /\ CancelRuns /\ UNCHANGED <<turn, jobs>>
      BY <2>3 DEF PauseRuns, Moves, NoCancels
    <3> QED
      BY <1>0, <1>b, <3>1, CancelledRunsAreCalm, StillIsCalm DEF Still
  <2>4. CASE PauseTurn(c) \/ CancelRequestTurn(c)
    <3>1. ~Uncancelled /\ CancelTurn(api[c].key) /\ UNCHANGED <<run, jobs>>
      BY <2>4 DEF PauseTurn, CancelRequestTurn, Returns, Moves, NoCancels
    <3> QED
      BY <1>a, <1>c, <3>1, StillIsCalm DEF Still
  <2>5. CASE ClearRows(c)
    <3>1. ~Uncancelled /\ CancelRuns /\ turn' = [r \in Requests |-> ClearedTurn(turn[r])] /\ UNCHANGED jobs
      BY <2>5 DEF ClearRows, Returns, NoCancels
    <3> QED
      BY <1>0, <1>d, <3>1, CancelledRunsAreCalm, StillIsCalm DEF Still
  <2>6. CASE ListClaims(c)
    BY <2>6 DEF ListClaims
  <2> QED
    BY <1>2, <2>1, <2>2, <2>3, <2>4, <2>5, <2>6 DEF ApiFinishes
<1> QED
  BY <1>1, <1>2
-----------------------------------------------------------------------------
(* Every step keeps the core. *)

LEMMA TurnInvTypes ==
    ASSUME TurnInv
    PROVE  /\ StoreOK /\ Plain /\ NoCancels /\ Core /\ LockHeld /\ BeatTypeOK
           /\ run \in [Requests -> RunRows] /\ turn \in [Requests -> TurnRows]
           /\ disp \in [Dispatchers -> [pc : DispPcs, key : Requests \cup {None}]]
           /\ \A d \in Dispatchers : disp[d].pc = "submit" => disp[d].key \in Requests
BY DEF TurnInv, LockInv, TypeInv, TypeOK, CarriesOK, DispatcherCarries, WorkersTypeOK, StoreOK, StoreTypeOK,
       WorkerOK, RunTypeOK, TurnTypeOK

\* What a worker does between taking a job and giving up its lock.
WorkerActs(w) == (WorkStep(w) /\ ~WorkUnlock(w)) \/ WorkAborts(w) \/ WorkEmitFails(w)

LEMMA WorkerOwns ==
    ASSUME StoreOK, Plain, NoCancels, Core, NEW w \in Workers, NEW k \in Requests, Key(w) = k,
           UNCHANGED beat, WorkerActs(w)
    PROVE  OwnStep(w, k)
<1>1. ~WorkRevive(w) /\ ~WorkApply(w)
  BY DEF Plain, WorkRevive, WorkApply
<1>2. CASE WorkCheck(w) \/ WorkEarlyTurn(w)
  BY <1>2, CheckOwns
<1>3. CASE WorkEarlyRuns(w)
  BY <1>3, EarlyRunsOwns
<1>4. CASE WorkStart(w) \/ WorkCreate(w)
  BY <1>4, StartOwns
<1>5. CASE \/ WorkHeartbeat(w) \/ WorkRound(w) \/ WorkSeesCancel(w) \/ WorkDeadline(w) \/ WorkFails(w)
           \/ WorkAnswers(w)
  BY <1>5, StreamOwns
<1>6. CASE \/ WorkFinalCheck(w) \/ WorkSave(w) \/ WorkEmit(w) \/ WorkFinalRun(w) \/ WorkFinalTurn(w)
           \/ WorkAborts(w) \/ WorkEmitFails(w)
  BY <1>6, EndOwns
<1> QED
  BY <1>1, <1>2, <1>3, <1>4, <1>5, <1>6 DEF WorkerActs, WorkStep

LEMMA WorkerActsOnOne ==
    ASSUME Plain, NEW w \in Workers, WorkerActs(w)
    PROVE  worker[w].pc # "idle" /\ Key(w) \in Requests
<1>1. worker[w].pc # "idle"
  BY DEF WorkerActs, WorkStep, WorkAborts, WorkEmitFails, WorkCheck, WorkEarlyRuns, WorkEarlyTurn, WorkStart,
         WorkCreate, WorkRevive, WorkApply, WorkHeartbeat, WorkRound, WorkSeesCancel, WorkDeadline, WorkFails,
         WorkAnswers, WorkFinalCheck, WorkSave, WorkEmit, WorkFinalRun, WorkFinalTurn
<1> QED
  BY <1>1 DEF Plain, PlainJob, Key

\* Without a change of the rows, processes that stop or go on to nothing new.
LEMMA IdlingIsCalm ==
    ASSUME UNCHANGED <<run, turn>>, jobs' \subseteq jobs,
           \A w \in Workers : worker'[w] = worker[w] \/ worker'[w].pc = "idle",
           \A d \in Dispatchers : disp'[d].pc = "submit" => disp'[d] = disp[d],
           beat'.stale \subseteq beat.stale
    PROVE  CalmStep
BY SameTurnIsCalm, SameRunIsCalm DEF CalmStep

LEMMA DispatcherKeeps ==
    ASSUME TurnInv, NEW d \in Dispatchers, DispStep(d), UNCHANGED beat
    PROVE  Core'
<1>0. /\ StoreOK /\ Plain /\ NoCancels /\ Core
      /\ disp \in [Dispatchers -> [pc : DispPcs, key : Requests \cup {None}]]
      /\ disp[d].pc = "submit" => disp[d].key \in Requests
  BY TurnInvTypes
<1>1. ASSUME NEW pc, pc # "submit", DispGoto(d, pc) \/ disp' = [disp EXCEPT ![d] = IdleDispatcher]
      PROVE  \A e \in Dispatchers : disp'[e].pc = "submit" => disp'[e] = disp[e]
  BY <1>0, <1>1 DEF DispGoto, IdleDispatcher
<1>2. CASE DispTake(d) \/ DispResume(d) \/ DispFindsNothing(d)
  <2>1. /\ UNCHANGED <<run, turn, jobs, worker>>
        /\ \E pc : pc # "submit" /\ (DispGoto(d, pc) \/ disp' = [disp EXCEPT ![d] = IdleDispatcher])
    BY <1>2 DEF DispTake, DispResume, DispFindsNothing, ResumeAfterFailure, StoreVars
  <2> QED
    BY <1>0, <1>1, <2>1, IdlingIsCalm, CalmKeeps
<1>3. CASE DispTerminalRuns(d)
  <2>1. Bystanders /\ \E closing : RecoverTerminalRuns(closing)
    BY <1>1, <1>3 DEF DispTerminalRuns, Bystanders
  <2> QED
    BY <1>0, <2>1, TerminalRunsKeep
<1>4. CASE DispClaims(d)
  <2>1. Bystanders /\ \E closing : RecoverClaims(closing)
    BY <1>1, <1>4 DEF DispClaims, Bystanders
  <2> QED
    BY <1>0, <2>1, ClaimsKeep
<1>5. CASE DispClaim(d)
  <2>1. PICK r \in Requests : Claim(r) /\ disp' = [disp EXCEPT ![d] = [pc |-> "submit", key |-> r]]
    BY <1>5 DEF DispClaim
  <2> QED
    BY <1>0, <1>5, <2>1, ClaimKeeps DEF DispClaim
<1>6. CASE DispSubmit(d)
  <2>1. disp[d].key \in Requests /\ Submits(d, disp[d].key)
    BY <1>0, <1>6 DEF DispSubmit, Submits
  <2> QED
    BY <1>0, <1>6, <2>1, SubmitKeeps DEF DispSubmit, StoreVars
<1>7. CASE DispRelease(d)
  <2>1. disp[d].key \in Requests /\ Submits(d, disp[d].key)
    BY <1>0, <1>7 DEF DispRelease, Submits
  <2> QED
    BY <1>0, <1>7, <2>1, ReleaseKeeps DEF DispRelease
<1> QED
  BY <1>2, <1>3, <1>4, <1>5, <1>6, <1>7 DEF DispStep

LEMMA BeatKeeps ==
    ASSUME TurnInv, BeatStep, UNCHANGED <<disp, worker>>
    PROVE  Core'
<1>0. StoreOK /\ Plain /\ NoCancels /\ Core /\ BeatTypeOK
  BY TurnInvTypes
<1>1. ASSUME NEW from, NEW to, BeatGoto(from, to)
      PROVE  beat'.stale = {}
  BY <1>1 DEF BeatGoto, IdleBeat
<1>2. CASE BeatStarts
  <2>1. UNCHANGED <<run, turn, jobs>> /\ beat'.stale = {r \in Requests : LeaseExpired(r)}
    BY <1>2 DEF BeatStarts, IdleBeat, StoreVars
  <2>2. CalmStep
    BY <2>1, SameTurnIsCalm, SameRunIsCalm DEF CalmStep
  <2> QED
    BY <1>0, <2>2, CalmKeeps
<1>3. CASE NoLeaseExpired \/ CloseExpired \/ BeatFailurePause \/ BeatWake
  <2>1. UNCHANGED <<run, turn, jobs>>
    BY <1>3 DEF NoLeaseExpired, CloseExpired, BeatFailurePause, BeatWake, ResumeAfterFailure, StoreVars
  <2>2. beat'.stale \subseteq beat.stale
    <3>1. CASE CloseExpired
      BY <1>0, <3>1 DEF CloseExpired, BeatTypeOK
    <3> QED
      BY <1>1, <1>3, <3>1 DEF NoLeaseExpired, BeatFailurePause, BeatWake
  <2> QED
    BY <1>0, <2>1, <2>2, IdlingIsCalm, CalmKeeps
<1>4. CASE BeatTerminalRuns
  <2>1. Bystanders /\ \E closing : RecoverTerminalRuns(closing)
    BY <1>1, <1>4 DEF BeatTerminalRuns, Bystanders
  <2> QED
    BY <1>0, <2>1, TerminalRunsKeep
<1>5. CASE BeatClaims
  <2>1. Bystanders /\ \E closing : RecoverClaims(closing)
    BY <1>1, <1>5 DEF BeatClaims, Bystanders
  <2> QED
    BY <1>0, <2>1, ClaimsKeep
<1>6. ASSUME NEW r \in Requests, ExpireLease(r)
      PROVE  Core'
  BY <1>0, <1>6, ExpireKeeps DEF ExpireLease
<1> QED
  BY <1>2, <1>3, <1>4, <1>5, <1>6 DEF BeatStep

LEMMA CoreStep ==
    ASSUME OrderlyUse, TurnInv, [Next]_vars
    PROVE  Core'
<1>0. /\ StoreOK /\ Plain /\ NoCancels /\ Core /\ LockHeld /\ BeatTypeOK
      /\ run \in [Requests -> RunRows] /\ turn \in [Requests -> TurnRows]
      /\ disp \in [Dispatchers -> [pc : DispPcs, key : Requests \cup {None}]]
  BY TurnInvTypes
<1>1. ASSUME NEW c \in Clients, Call(c) \/ Return(c)
      PROVE  Core'
  <2>1. (ApiStep(c) \/ ApiFinishes(c)) /\ UNCHANGED <<worker, disp, beat>>
    BY <1>1 DEF Call, Return
  <2>2. CASE CalmStep
    BY <1>0, <2>2, CalmKeeps
  <2>3. ASSUME NEW r \in Requests, Answer(c, r)
        PROVE  Core'
    BY <1>0, <2>1, <2>3, AnswerKeeps
  <2>4. CASE UNCHANGED jobs /\ \E closing : RecoverTerminalRuns(closing) \/ RecoverClaims(closing)
    <3>1. Bystanders
      BY <2>1, <2>4 DEF Bystanders
    <3> QED
      BY <1>0, <2>4, <3>1, TerminalRunsKeep, ClaimsKeep
  <2> QED
    BY <1>0, <2>1, <2>2, <2>3, <2>4, HandlersAreCalm
<1>2. ASSUME NEW d \in Dispatchers, Dispatch(d)
      PROVE  Core'
  BY <1>2, DispatcherKeeps DEF Dispatch
<1>3. ASSUME NEW w \in Workers, WorkerActs(w), UNCHANGED beat
      PROVE  Core'
  BY <1>0, <1>3, WorkerActsOnOne, WorkerOwns, OwnKeeps
<1>4. ASSUME NEW w \in Workers, WorkUnlock(w), UNCHANGED beat
      PROVE  Core'
  <2>1. UNCHANGED <<run, turn, jobs, disp>> /\ worker' = [worker EXCEPT ![w] = IdleWorker]
    BY <1>4 DEF WorkUnlock, StoreVars
  <2>2. \A v \in Workers : worker'[v] = worker[v] \/ worker'[v].pc = "idle"
    BY <1>0, <2>1 DEF StoreOK, WorkerOK, IdleWorker
  <2> QED
    BY <1>0, <1>4, <2>1, <2>2, IdlingIsCalm, CalmKeeps
<1>5. ASSUME NEW w \in Workers, NEW job \in jobs, NEW redelivered, WorkTake(w, job, redelivered), UNCHANGED beat
      PROVE  Core'
  <2>1. UNCHANGED <<run, turn, disp>> /\ jobs' \subseteq jobs
    BY <1>5 DEF WorkTake, StoreVars
  <2>2. CASE LockIsFree(job.key)
    BY <1>0, <1>5, <2>1, <2>2, TakeKeeps DEF WorkTake
  <2>3. CASE ~LockIsFree(job.key)
    BY <1>0, <1>5, <2>1, <2>3, IdlingIsCalm, CalmKeeps DEF WorkTake
  <2> QED
    BY <2>2, <2>3
<1>6. CASE Maintain
  BY <1>6, BeatKeeps DEF Maintain
<1>7. ASSUME NEW r \in Requests, TurnAges(r) \/ EndAges(r) \/ LeaseAges(r), Untimed
      PROVE  Core'
  <2>1. UNCHANGED <<jobs, worker, disp, beat>>
    BY <1>7 DEF Untimed, BrokerVars
  <2>2. CASE EndAges(r)
    <3>1. UNCHANGED run /\ turn' = [turn EXCEPT ![r].completed = "stale"]
      BY <2>2 DEF EndAges
    <3>2. \A q \in Requests : turn'[q].status = turn[q].status /\ turn'[q].started = turn[q].started
      BY <1>0, <3>1 DEF TurnRows
    <3> QED
      BY <1>0, <2>1, <3>1, <3>2, SameTurnIsCalm, SameRunIsCalm, StillIsCalm, CalmKeeps DEF Still
  <2> QED
    BY <1>0, <1>7, <2>1, <2>2, TurnAgesKeeps, LeaseAgesKeeps
<1>8. CASE Crash
  <2>1. UNCHANGED <<run, turn, jobs>>
    BY <1>8 DEF Crash, StoreVars
  <2>2. \A v \in Workers : worker'[v] = worker[v] \/ worker'[v].pc = "idle"
    BY <1>0, <1>8 DEF Crash, CrashWorker, CrashDispatcher, CrashClient, CrashBeat, StoreOK, WorkerOK, IdleWorker
  <2>3. \A d \in Dispatchers : disp'[d].pc = "submit" => disp'[d] = disp[d]
    BY <1>0, <1>8 DEF Crash, CrashWorker, CrashDispatcher, CrashClient, CrashBeat, IdleDispatcher
  <2>4. beat'.stale \subseteq beat.stale
    BY <1>8 DEF Crash, CrashWorker, CrashDispatcher, CrashClient, CrashBeat, IdleBeat
  <2> QED
    BY <1>0, <2>1, <2>2, <2>3, <2>4, IdlingIsCalm, CalmKeeps
<1>9. ASSUME NEW k \in Keys, LockExpires(k)
      PROVE  Core'
  BY <1>0, <1>9, IdlingIsCalm, CalmKeeps DEF LockExpires, StoreVars
<1>10. CASE UNCHANGED vars
  BY <1>0, <1>10, IdlingIsCalm, CalmKeeps DEF vars, StoreVars, BrokerVars
<1> QED
  <2>1. ASSUME NEW w \in Workers, Work(w) \/ Abort(w)
        PROVE  Core'
    BY <1>3, <1>4, <2>1 DEF Work, Abort, WorkerActs
  <2>2. ASSUME NEW w \in Workers, NEW job \in jobs, Deliver(w, job) \/ Redeliver(w, job)
        PROVE  Core'
    BY <1>5, <2>2 DEF Deliver, Redeliver
  <2>3. CASE TimePasses /\ Untimed
    BY <1>7, <2>3 DEF TimePasses
  <2> QED
    BY <1>1, <1>2, <2>1, <2>2, <1>6, <2>3, <1>8, <1>9, <1>10 DEF Next
-----------------------------------------------------------------------------
(* A turn keeps its place in the queue and the turn it retries, unless the *)
(* user adds it or steers it.                                              *)

SamePlace(r) == /\ turn'[r].parent = turn[r].parent
                /\ turn'[r].sequence = turn[r].sequence
                /\ turn'[r].priority = turn[r].priority
                /\ turn'[r].status = "absent" <=> turn[r].status = "absent"

Adds(r) == \/ Enqueue(r, FALSE)
           \/ "steer" \in Ops /\ (Enqueue(r, TRUE) \/ Promote(r))

LEMMA RowsKeepPlace ==
    ASSUME NEW r, turn[r] \in TurnRows,
           \/ turn'[r] \in {turn[r], CancelRequestedTurn(turn[r]), ClearedTurn(turn[r])}
           \/ HasRow(r) /\ \/ turn'[r] \in {Requeued(turn[r]), Resumed(turn[r])}
                           \/ \E status : turn'[r] = FinishedTurn(turn[r], status)
    PROVE  SamePlace(r)
<1>1. ASSUME NEW row \in TurnRows
      PROVE  \A new \in {CancelRequestedTurn(row), ClearedTurn(row), Requeued(row), Resumed(row)} :
                 new.parent = row.parent /\ new.sequence = row.sequence /\ new.priority = row.priority
  <2>1. LET new == CancelRequestedTurn(row)
        IN  new.parent = row.parent /\ new.sequence = row.sequence /\ new.priority = row.priority
    BY DEF TurnRows, CancelRequestedTurn, CancelledTurn
  <2>2. LET new == ClearedTurn(row)
        IN  new.parent = row.parent /\ new.sequence = row.sequence /\ new.priority = row.priority
    BY DEF TurnRows, ClearedTurn, CancelledTurn
  <2>3. LET new == Requeued(row)
        IN  new.parent = row.parent /\ new.sequence = row.sequence /\ new.priority = row.priority
    BY DEF TurnRows, Requeued
  <2>4. LET new == Resumed(row)
        IN  new.parent = row.parent /\ new.sequence = row.sequence /\ new.priority = row.priority
    BY DEF TurnRows, Resumed
  <2> QED
    BY <2>1, <2>2, <2>3, <2>4
<1>3. ASSUME NEW row \in TurnRows
      PROVE  /\ \A new \in {CancelRequestedTurn(row), ClearedTurn(row)} : new.status = "absent" <=> row.status = "absent"
             /\ \A new \in {Requeued(row), Resumed(row)} : new.status # "absent"
             /\ \A status : FinishedTurn(row, status).status # "absent"
  <2>0. /\ [row EXCEPT !.status = "cancelling"].status = "cancelling"
        /\ CancelledTurn(row).status = "cancelled"
    BY DEF TurnRows, CancelledTurn
  <2>1. CancelRequestedTurn(row).status = "absent" <=> row.status = "absent"
    <3>1. CASE row.status \in {"queued"} \cup PausedQueueStatuses
      BY <2>0, <3>1 DEF CancelRequestedTurn, PausedQueueStatuses
    <3>2. CASE row.status \notin {"queued"} \cup PausedQueueStatuses
      <4>1. \/ CancelRequestedTurn(row) = row
            \/ /\ row.status \in QueueableStatuses
               /\ CancelRequestedTurn(row) = [row EXCEPT !.status = "cancelling"]
        BY <3>2 DEF CancelRequestedTurn
      <4> QED
        BY <2>0, <4>1 DEF QueueableStatuses, ActiveQueueStatuses, PausedQueueStatuses
    <3> QED
      BY <3>1, <3>2
  <2>2. ClearedTurn(row).status = "absent" <=> row.status = "absent"
    BY <2>0 DEF ClearedTurn, ActiveQueueStatuses
  <2>3. Requeued(row).status # "absent" /\ Resumed(row).status # "absent"
    BY DEF TurnRows, Requeued, Resumed
  <2>4. ASSUME NEW status PROVE FinishedTurn(row, status).status # "absent"
    BY DEF TurnRows, FinishedTurn, FinishStatus, PausedQueueStatuses, TerminalQueueStatuses
  <2> QED
    BY <2>1, <2>2, <2>3, <2>4
<1>2. ASSUME NEW row \in TurnRows, NEW status
      PROVE  LET new == FinishedTurn(row, status)
             IN  new.parent = row.parent /\ new.sequence = row.sequence /\ new.priority = row.priority
  BY DEF TurnRows, FinishedTurn
<1> QED
  BY <1>1, <1>2, <1>3 DEF SamePlace, HasRow

LEMMA RecoveryKeepsPlaces ==
    ASSUME StoreOK, NEW closing, RecoverTerminalRuns(closing) \/ RecoverClaims(closing)
    PROVE  \A r \in Requests : SamePlace(r)
<1> SUFFICES ASSUME NEW r \in Requests PROVE SamePlace(r)
  OBVIOUS
<1>0. turn[r] \in TurnRows
  BY DEF StoreOK, StoreTypeOK, TurnTypeOK
<1>1. CASE RecoverTerminalRuns(closing)
  <2>1. turn'[r] = turn[r] \/ (Orphaned(r) /\ turn'[r] = FinishedTurn(turn[r], TurnOutcome(OrphanOutcome(r))))
    BY <1>1 DEF RecoverTerminalRuns
  <2> QED
    BY <1>0, <2>1, RowsKeepPlace DEF Orphaned, TerminalQueueStatuses, HasRow
<1>2. CASE RecoverClaims(closing)
  <2>1. turn'[r] = turn[r] \/ (r \in StaleClaims /\ turn'[r] = RecoveredTurn(r))
    BY <1>2 DEF RecoverClaims
  <2> QED
    BY <1>0, <2>1, RowsKeepPlace DEF RecoveredTurn, StaleClaims, InStatus, HasRow
<1> QED
  BY <1>1, <1>2

\* What the handlers in use do to the turns.
LEMMA HandlersKeepPlaces ==
    ASSUME OrderlyUse, TurnInv, NEW c \in Clients, ApiStep(c) \/ ApiFinishes(c)
    PROVE  (\A r \in Requests : SamePlace(r)) \/ \E r \in Requests : Adds(r)
<1>0. /\ StoreOK /\ Plain /\ Core /\ turn \in [Requests -> TurnRows]
      /\ \A op \in {"retry", "run_now", "decide", "approve"} : op \notin Ops
  BY TurnInvTypes DEF OrderlyUse
<1>1. ASSUME NEW r \in Requests, EnqueueTurn(r) \/ EnqueueSteered(c, r) \/ SteerTurn(c, r)
      PROVE  Adds(r)
  BY <1>1 DEF EnqueueTurn, EnqueueSteered, SteerTurn, Adds, Calls, Enters
<1>2. ASSUME NEW r \in Requests, \/ RunNow(c, r) \/ Decide(c, r) \/ Approve(c, r)
                                 \/ \E failed \in Requests : RetryTurn(c, failed, r)
      PROVE  FALSE
  BY <1>0, <1>2 DEF RunNow, Decide, Approve, RetryTurn, Calls, Enters
<1>3. CASE RetryWake(c) \/ \E r \in Requests : RunNowSubmits(c, r)
  BY <1>0, <1>3 DEF RetryWake, RunNowSubmits, Returns, Plain
<1>4. ASSUME NEW r, CancelTurn(r)
      PROVE  \A q \in Requests : SamePlace(q)
  <2>1. \A q \in Requests : turn'[q] \in {CancelRequestedTurn(turn[q]), turn[q]}
    BY <1>0, <1>4 DEF CancelTurn
  <2> QED
    BY <1>0, <2>1, RowsKeepPlace
<1>5. ASSUME turn' = [r \in Requests |-> ClearedTurn(turn[r])]
      PROVE  \A q \in Requests : SamePlace(q)
  BY <1>0, <1>5, RowsKeepPlace
<1>6. ASSUME UNCHANGED turn
      PROVE  \A q \in Requests : SamePlace(q)
  BY <1>6 DEF SamePlace
<1>7. ASSUME NEW r \in Requests, Answer(c, r)
      PROVE  \A q \in Requests : SamePlace(q)
  <2>1. \A q \in Requests : turn'[q] = turn[q] \/ (HasRow(q) /\ turn'[q] = Resumed(turn[q]))
    BY <1>0, <1>7, AnswerDoes DEF HasRow, PausedQueueStatuses
  <2> QED
    BY <1>0, <2>1, RowsKeepPlace
<1>8. CASE ListQueue(c) \/ ListClaims(c)
  BY <1>0, <1>8, RecoveryKeepsPlaces DEF ListQueue, ListClaims
<1>9. ASSUME NEW r \in Requests, CancelRequest(c, r) \/ CancelQueued(c, r)
      PROVE  \A q \in Requests : SamePlace(q)
  BY <1>4, <1>6, <1>9 DEF CancelRequest, CancelQueued
<1>10. CASE PauseQueue(c) \/ ResumeQueue(c) \/ ClearQueue(c)
  BY <1>5, <1>6, <1>10 DEF PauseQueue, Pause, ResumeQueue, Resume, ClearQueue, StoreVars
<1>11. CASE \/ SteerWake(c) \/ PauseMarks(c) \/ PauseRuns(c) \/ PauseTurn(c) \/ ClearRows(c)
            \/ ListResume(c) \/ CancelRequestTurn(c) \/ CancelSignal(c) \/ QueuedSignal(c)
  <2>1. \/ UNCHANGED turn \/ CancelTurn(api[c].key) \/ turn' = [r \in Requests |-> ClearedTurn(turn[r])]
    BY <1>11 DEF SteerWake, Resume, PauseMarks, PauseRuns, PauseTurn, ClearRows, ListResume, ResumeAfterFailure,
                 CancelRequestTurn, CancelSignal, QueuedSignal, Signal, StoreVars
  <2> QED
    BY <1>4, <1>5, <1>6, <2>1
<1>12. CASE ApiStep(c)
  BY <1>1, <1>2, <1>7, <1>8, <1>9, <1>10, <1>12 DEF ApiStep
<1>13. CASE ApiFinishes(c)
  BY <1>3, <1>8, <1>11, <1>13 DEF ApiFinishes
<1> QED
  BY <1>12, <1>13

LEMMA WorkersKeepPlaces ==
    ASSUME turn \in [Requests -> TurnRows], NEW w \in Workers, WorkStep(w) \/ WorkAborts(w) \/ WorkEmitFails(w)
    PROVE  \A r \in Requests : SamePlace(r)
<1>1. CASE UNCHANGED turn
  BY <1>1 DEF SamePlace
<1>2. CASE WorkEarlyTurn(w) \/ WorkFinalTurn(w)
  <2>1. \A r \in Requests : turn'[r] = turn[r] \/ (HasRow(r) /\ \E status : turn'[r] = FinishedTurn(turn[r], status))
    BY <1>2 DEF WorkEarlyTurn, WorkFinalTurn, FinishTurnOf, HasTurn
  <2> QED
    BY <2>1, RowsKeepPlace
<1>3. CASE \/ WorkCheck(w) \/ WorkEarlyRuns(w) \/ WorkStart(w) \/ WorkCreate(w) \/ WorkRevive(w) \/ WorkApply(w)
           \/ WorkHeartbeat(w) \/ WorkRound(w) \/ WorkSeesCancel(w) \/ WorkDeadline(w) \/ WorkFails(w)
           \/ WorkAnswers(w) \/ WorkAborts(w)
  BY <1>1, <1>3 DEF WorkCheck, WorkEarlyRuns, WorkStart, WorkCreate, WorkRevive, WorkApply, WorkHeartbeat,
                    WorkRound, WorkSeesCancel, WorkDeadline, WorkFails, WorkAnswers, WorkAborts, StoreVars
<1>4. CASE \/ WorkFinalCheck(w) \/ WorkSave(w) \/ WorkEmit(w) \/ WorkFinalRun(w) \/ WorkUnlock(w)
           \/ WorkEmitFails(w)
  BY <1>1, <1>4 DEF WorkFinalCheck, WorkSave, WorkEmit, WorkFinalRun, WorkUnlock, WorkEmitFails, StoreVars
<1> QED
  BY <1>2, <1>3, <1>4 DEF WorkStep

LEMMA PlacesKept ==
    ASSUME OrderlyUse, TurnInv, [Next]_vars
    PROVE  (\A r \in Requests : SamePlace(r)) \/ \E r \in Requests : Adds(r)
<1>0. StoreOK /\ turn \in [Requests -> TurnRows]
  BY TurnInvTypes
<1>1. ASSUME UNCHANGED turn
      PROVE  \A r \in Requests : SamePlace(r)
  BY <1>1 DEF SamePlace
<1>2. ASSUME NEW c \in Clients, Call(c) \/ Return(c)
      PROVE  (\A r \in Requests : SamePlace(r)) \/ \E r \in Requests : Adds(r)
  BY <1>2, HandlersKeepPlaces DEF Call, Return
<1>3. ASSUME NEW d \in Dispatchers, Dispatch(d)
      PROVE  \A r \in Requests : SamePlace(r)
  <2>1. CASE DispTerminalRuns(d) \/ DispClaims(d)
    BY <1>0, <2>1, RecoveryKeepsPlaces DEF DispTerminalRuns, DispClaims
  <2>2. CASE DispTake(d) \/ DispResume(d) \/ DispFindsNothing(d) \/ DispSubmit(d)
    BY <1>1, <2>2 DEF DispTake, DispResume, DispFindsNothing, DispSubmit, ResumeAfterFailure, StoreVars
  <2>3. CASE DispClaim(d)
    BY <1>0, <2>3 DEF DispClaim, Claim, Claimable, FirstQueued, SamePlace, TurnRows
  <2>4. CASE DispRelease(d)
    <3>1. \A r \in Requests : turn'[r] = turn[r] \/ (HasRow(r) /\ turn'[r] = Requeued(turn[r]))
      BY <1>0, <2>4 DEF DispRelease, ReleaseClaim, HasRow
    <3> QED
      BY <1>0, <3>1, RowsKeepPlace
  <2> QED
    BY <1>3, <2>1, <2>2, <2>3, <2>4 DEF Dispatch, DispStep
<1>4. ASSUME NEW w \in Workers, WorkStep(w) \/ WorkAborts(w) \/ WorkEmitFails(w)
      PROVE  \A r \in Requests : SamePlace(r)
  BY <1>0, <1>4, WorkersKeepPlaces
<1>5. ASSUME NEW w \in Workers, NEW job \in jobs, Deliver(w, job) \/ Redeliver(w, job)
      PROVE  \A r \in Requests : SamePlace(r)
  BY <1>1, <1>5 DEF Deliver, Redeliver, WorkTake, StoreVars
<1>6. CASE Maintain
  <2>1. CASE BeatTerminalRuns \/ BeatClaims
    BY <1>0, <2>1, RecoveryKeepsPlaces DEF BeatTerminalRuns, BeatClaims
  <2>2. ASSUME NEW r \in Requests, ExpireLease(r)
        PROVE  UNCHANGED turn
    BY <2>2 DEF ExpireLease
  <2>3. CASE BeatStarts \/ NoLeaseExpired \/ CloseExpired \/ BeatFailurePause \/ BeatWake
    BY <1>1, <2>3 DEF BeatStarts, NoLeaseExpired, CloseExpired, BeatFailurePause, BeatWake, ResumeAfterFailure,
                      StoreVars
  <2> QED
    BY <1>1, <1>6, <2>1, <2>2, <2>3 DEF Maintain, BeatStep
<1>7. CASE TimePasses
  <2>1. PICK r \in Requests : TurnAges(r) \/ EndAges(r) \/ LeaseAges(r)
    BY <1>7 DEF TimePasses
  <2> QED
    BY <1>0, <2>1 DEF TurnAges, EndAges, LeaseAges, SamePlace, TurnRows
<1>8. CASE Crash \/ (\E k \in Keys : LockExpires(k)) \/ UNCHANGED vars
  BY <1>1, <1>8 DEF Crash, LockExpires, vars, StoreVars
<1> QED
  BY <1>2, <1>3, <1>4, <1>5, <1>6, <1>7, <1>8 DEF Next, Work, Abort
-----------------------------------------------------------------------------
(* What the handlers leave out stays out. *)

LEMMA WorkerStaysPlain ==
    ASSUME StoreOK, Plain, NoCancels, NEW w \in Workers, WorkerActs(w)
    PROVE  /\ worker'[w].pc \notin {"apply", "revive"}
           /\ Uncancelled => worker'[w].pc \notin {"early_runs", "early_turn"}
           /\ UNCHANGED <<jobs, marker>>
<1>0. /\ WorkerOK /\ (worker[w].pc # "idle" => PlainJob(worker[w].job))
      /\ \A r \in Requests : turn[r].parent = None
      /\ Uncancelled => (\A k \in Keys : ~marker[k]) /\ worker[w].pc \notin {"early_runs", "early_turn"}
  BY DEF StoreOK, Plain, NoCancels
<1>1. \A pc : Goto(w, pc) \/ (\E out : GotoWith(w, pc, out)) => worker'[w].pc = pc
  BY <1>0 DEF WorkerOK, Goto, GotoWith
<1>2. CASE WorkCheck(w)
  <2>1. worker[w].pc = "check" /\ Key(w) \in Keys
    BY <1>0, <1>2 DEF WorkCheck, PlainJob, Key, Keys
  <2>2. CASE marker[Key(w)]
    <3>1. worker'[w].pc \in {"unlock", "early_runs", "start"}
      BY <1>1, <1>2 DEF WorkCheck
    <3> QED
      BY <1>0, <1>2, <2>1, <2>2, <3>1 DEF WorkCheck
  <2>3. CASE ~marker[Key(w)]
    <3>1. worker'[w].pc \in {"unlock", "start"}
      BY <1>1, <1>2, <2>3 DEF WorkCheck
    <3> QED
      BY <1>2, <3>1 DEF WorkCheck
  <2> QED
    BY <2>2, <2>3
<1>3. CASE WorkStart(w)
  <2>1. worker[w].job.kind \in {"turn", "answer"} /\ Key(w) \in Requests
    BY <1>0, <1>3 DEF WorkStart, PlainJob, Key
  <2>2. CASE StartTurn(w)
    BY <1>0, <1>1, <1>3, <2>1, <2>2 DEF WorkStart, StartTurn, StartFirst, StartRetry
  <2>3. CASE StartAnswer(w)
    BY <1>1, <1>3, <2>3 DEF WorkStart, StartAnswer
  <2> QED
    BY <1>3, <2>1, <2>2, <2>3 DEF WorkStart, StartApproval
<1>4. CASE WorkEarlyRuns(w) \/ WorkEarlyTurn(w)
  BY <1>0, <1>1, <1>4 DEF WorkEarlyRuns, WorkEarlyTurn
<1>5. CASE WorkHeartbeat(w) \/ WorkRound(w)
  BY <1>5 DEF WorkHeartbeat, WorkRound
<1>6. CASE WorkCreate(w) \/ WorkSeesCancel(w) \/ WorkDeadline(w) \/ WorkFails(w) \/ WorkAnswers(w)
  BY <1>1, <1>6 DEF WorkCreate, WorkSeesCancel, WorkDeadline, WorkFails, WorkAnswers, StoreVars
<1>7. CASE WorkFinalCheck(w) \/ WorkSave(w) \/ WorkEmit(w) \/ WorkFinalRun(w) \/ WorkFinalTurn(w)
  BY <1>1, <1>7 DEF WorkFinalCheck, WorkSave, WorkEmit, WorkFinalRun, WorkFinalTurn
<1>8. CASE WorkAborts(w) \/ WorkEmitFails(w)
  BY <1>1, <1>8 DEF WorkAborts, WorkEmitFails, StoreVars
<1>9. CASE WorkRevive(w) \/ WorkApply(w)
  BY <1>9 DEF Plain, WorkRevive, WorkApply
<1> QED
  BY <1>2, <1>3, <1>4, <1>5, <1>6, <1>7, <1>8, <1>9 DEF WorkerActs, WorkStep

\* No worker makes a run `cancelling`.
LEMMA WorkersDoNotCancel ==
    ASSUME StoreOK, Plain, NEW w \in Workers, WorkerActs(w)
    PROVE  \A r \in Requests : run'[r].status = "cancelling" => run[r].status = "cancelling"
<1>0. /\ WorkerOK /\ run \in [Requests -> RunRows] /\ worker[w].pc # "idle"
      /\ Key(w) \in Requests /\ Target(w) = Key(w) /\ \A r \in Requests : turn[r].parent = None
      /\ WorkerCarries(w)
  BY WorkerActsOnOne DEF StoreOK, StoreTypeOK, RunTypeOK, Plain, PlainJob, Key, Target, WorkerOK
<1> DEFINE k == Key(w)
<1>1. ASSUME NEW row, run' = [run EXCEPT ![k] = row], row.status = "cancelling" => run[k].status = "cancelling"
      PROVE  \A r \in Requests : run'[r].status = "cancelling" => run[r].status = "cancelling"
  BY <1>0, <1>1
<1>2. ASSUME UNCHANGED run
      PROVE  \A r \in Requests : run'[r].status = "cancelling" => run[r].status = "cancelling"
  BY <1>2
<1>3. ASSUME NEW row \in RunRows, NEW status, status # "cancelling"
      PROVE  /\ FinishedForRequest(row, status).status = "cancelling" => row.status = "cancelling"
             /\ CancellationFinished(row).status = "cancelling" => row.status = "cancelling"
  BY <1>3 DEF RunRows, FinishedRun, FinishedForRequest, CancellationFinished
<1> HIDE DEF k
<1>4. CASE WorkCheck(w) \/ WorkEarlyTurn(w) \/ WorkAnswers(w) \/ WorkEmit(w) \/ WorkFinalTurn(w)
           \/ WorkAborts(w) \/ WorkEmitFails(w)
  BY <1>2, <1>4 DEF WorkCheck, WorkEarlyTurn, WorkAnswers, WorkEmit, WorkFinalTurn, WorkAborts, WorkEmitFails,
                    StoreVars
<1>5. CASE WorkEarlyRuns(w)
  <2>1. run' = [r \in Requests |-> CancellationFinished(run[r])]
    BY <1>5 DEF WorkEarlyRuns
  <2>2. \A r \in Requests : run[r] \in RunRows /\ run'[r] = CancellationFinished(run[r])
    BY <1>0, <2>1
  <2>3. "failed" # "cancelling"
    OBVIOUS
  <2> QED
    BY <1>3, <2>2, <2>3
<1>6. run[k] \in RunRows /\ k \in Requests /\ k = Key(w) /\ k = Target(w)
  BY <1>0 DEF k
<1>7. CASE WorkStart(w) \/ WorkCreate(w)
  <2>1. CASE WorkCreate(w)
    <3>1. run' = [run EXCEPT ![k] = CreatedRun(run[k])] /\ CreatedRun(run[k]).status = "running"
      BY <1>6, <2>1, RunWrites DEF WorkCreate
    <3> QED
      BY <1>1, <3>1
  <2>2. CASE WorkStart(w) /\ StartTurn(w)
    <3>1. UNCHANGED run \/ run' = [run EXCEPT ![k] = [run[k] EXCEPT !.msg = "streaming"]]
      BY <1>0, <1>6, <2>2 DEF StartTurn, StartRetry, StartFirst
    <3>2. [run[k] EXCEPT !.msg = "streaming"].status = run[k].status
      BY <1>6, RunWrites
    <3> QED
      BY <1>1, <1>2, <3>1, <3>2
  <2>3. CASE WorkStart(w) /\ StartAnswer(w)
    <3>1. UNCHANGED run \/ run' = [run EXCEPT ![k] = Checkpointed(run[k], "running", "claimed")]
      BY <1>6, <2>3 DEF StartAnswer
    <3>2. Checkpointed(run[k], "running", "claimed").status = "running"
      BY <1>6, RunWrites
    <3> QED
      BY <1>1, <1>2, <3>1, <3>2
  <2>4. CASE WorkStart(w) /\ StartApproval(w)
    BY <1>0, <2>4 DEF StartApproval, Plain, PlainJob
  <2> QED
    BY <1>7, <2>1, <2>2, <2>3, <2>4 DEF WorkStart
<1>8. CASE WorkHeartbeat(w) \/ WorkFinalCheck(w)
  <2>1. \/ UNCHANGED run
        \/ run' = [run EXCEPT ![k].beat = "fresh"]
        \/ run' = [run EXCEPT ![k].msg = worker[w].out]
    BY <1>6, <1>8 DEF WorkHeartbeat, WorkFinalCheck
  <2>2. \A r \in Requests : run'[r].status = run[r].status
    BY <1>0, <2>1 DEF RunRows
  <2> QED
    BY <2>2
<1>9. CASE WorkRound(w) \/ WorkSeesCancel(w) \/ WorkDeadline(w) \/ WorkFails(w)
  <2>1. /\ [FinishedRun(run[k], "cancelled") EXCEPT !.lease = FALSE].status = "cancelled"
        /\ [FinishedRun(run[k], "failed") EXCEPT !.lease = FALSE, !.msg = "error"].status = "failed"
    BY <1>6 DEF FinishedRun, RunRows
  <2>2. [FinishedRun(Checkpointed(run[k], "blocked", "none"), "blocked") EXCEPT !.lease = FALSE].status = "blocked"
    BY <1>6 DEF FinishedRun, Checkpointed, RunRows
  <2>3. Checkpointed(run[k], "running", "none").status = "running"
    BY <1>6, RunWrites
  <2> QED
    BY <1>1, <1>6, <1>9, <2>1, <2>2, <2>3 DEF WorkRound, WorkSeesCancel, WorkDeadline, WorkFails
<1>10. CASE WorkSave(w)
  <2> DEFINE saved == CASE worker[w].out = "awaiting_user"     -> Checkpointed(run[k], "awaiting_user", "question")
                        [] worker[w].out = "awaiting_approval" -> Checkpointed(run[k], "awaiting_approval", "approval")
                        [] OTHER                               -> FinishedRun(run[k], worker[w].out)
  <2>1. worker[w].out # "cancelling" /\ run' = [run EXCEPT ![k] = saved]
    BY <1>0, <1>6, <1>10 DEF WorkSave, WorkerCarries, DoneStatuses
  <2>2. saved.status = worker[w].out
    BY <1>6, RunWrites
  <2> HIDE DEF saved
  <2> QED
    BY <1>1, <2>1, <2>2
<1>11. CASE WorkFinalRun(w)
  <2>1. RunStatusOf(worker[w].out) # "cancelling"
    BY <1>0, <1>11 DEF WorkFinalRun, WorkerCarries, FrameKinds, DoneStatuses, RunStatusOf
  <2>2. UNCHANGED run \/ run' = [run EXCEPT ![k] = FinishedForRequest(run[k], RunStatusOf(worker[w].out))]
    BY <1>6, <1>11 DEF WorkFinalRun
  <2>3. FinishedForRequest(run[k], RunStatusOf(worker[w].out)).status = "cancelling" => run[k].status = "cancelling"
    BY <1>3, <1>6, <2>1
  <2> QED
    BY <1>1, <1>2, <2>2, <2>3
<1>12. CASE WorkRevive(w) \/ WorkApply(w)
  BY <1>12 DEF Plain, WorkRevive, WorkApply
<1> QED
  BY <1>4, <1>5, <1>7, <1>8, <1>9, <1>10, <1>11, <1>12 DEF WorkerActs, WorkStep

LEMMA RecoveryDoesNotCancel ==
    ASSUME StoreOK, NEW closing, RecoverTerminalRuns(closing) \/ RecoverClaims(closing)
    PROVE  \A r \in Requests : run'[r].status = "cancelling" => run[r].status = "cancelling"
<1> SUFFICES ASSUME NEW r \in Requests, run'[r].status = "cancelling" PROVE run[r].status = "cancelling"
  OBVIOUS
<1>0. run[r] \in RunRows /\ frames \in [Keys -> Seq(FrameKinds)] /\ r \in Keys
  BY DEF StoreOK, StoreTypeOK, RunTypeOK, Keys
<1>1. CASE RecoverTerminalRuns(closing)
  <2>1. run'[r] = run[r] \/ run'[r] = ReconciledRun(r, closing)
    BY <1>1 DEF RecoverTerminalRuns
  <2>2. ReconciledRun(r, closing).status = OrphanOutcome(r)
    BY <1>0 DEF ReconciledRun, FinishedRun, RunRows
  <2>3. OrphanOutcome(r) # "cancelling"
    <3>1. HasTerminalFrame(r) => LastFrame(r) \in FrameKinds
      BY <1>0 DEF HasTerminalFrame, LastFrame
    <3> QED
      BY <3>1 DEF OrphanOutcome, FrameKinds, DoneStatuses
  <2> QED
    BY <2>1, <2>2, <2>3
<1>2. CASE RecoverClaims(closing)
  <2>1. run'[r] = run[r] \/ run'[r] = [run[r] EXCEPT !.msg = ClosedMessage(run[r].msg, run[r].status)]
    BY <1>2 DEF RecoverClaims
  <2>2. [run[r] EXCEPT !.msg = ClosedMessage(run[r].msg, run[r].status)].status = run[r].status
    BY <1>0, RunWrites
  <2> QED
    BY <2>1, <2>2
<1> QED
  BY <1>1, <1>2

\* Client c is at pc now, the others are where they were.
ClientAt(c, pc) == \A e \in Clients : api'[e].pc = IF e = c THEN pc ELSE api[e].pc

LEMMA ClientMoves ==
    ASSUME ApiTypeOK, NEW c \in Clients
    PROVE  /\ \A op, pc, key : Enters(c, op, pc, key) => op \in Ops /\ ClientAt(c, pc)
           /\ \A op : Calls(c, op) => op \in Ops /\ ClientAt(c, "idle")
           /\ \A from, pc : Moves(c, from, pc) => api[c].pc = from /\ ClientAt(c, pc)
           /\ \A from : Returns(c, from) => api[c].pc = from /\ ClientAt(c, "idle")
           /\ UNCHANGED api => ClientAt(c, api[c].pc)
<1>1. \A pc, key : api' = [api EXCEPT ![c] = [pc |-> pc, key |-> key]] => ClientAt(c, pc)
  BY DEF ApiTypeOK, ClientAt
<1>2. \A pc : api' = [api EXCEPT ![c].pc = pc] => ClientAt(c, pc)
  BY DEF ApiTypeOK, ClientAt
<1>3. UNCHANGED api => ClientAt(c, api[c].pc)
  BY DEF ClientAt
<1> QED
  BY <1>1, <1>2, <1>3 DEF Enters, Calls, Moves, Returns, IdleClient

\* The pcs of a client that cancels, and of one whose handler OrderlyUse excludes.
CancellingPcs == {"cancel_turn", "cancel_signal", "queued_signal", "clear_rows", "pause_marker", "pause_runs",
                  "pause_turn"}
FitPc(pc) == pc \notin {"retry_wake", "run_now"} /\ (Uncancelled => pc \notin CancellingPcs)

LEMMA HandlersStayPlain ==
    ASSUME OrderlyUse, TurnInv, ApiTypeOK, NEW c \in Clients, ApiStep(c) \/ ApiFinishes(c)
    PROVE  \A e \in Clients : FitPc(api'[e].pc)
<1>0. /\ Plain /\ NoCancels
      /\ \A op \in {"retry", "run_now", "decide", "approve"} : op \notin Ops
      /\ Uncancelled => \A op \in {"pause", "clear", "cancel", "cancel_queued"} : op \notin Ops
  BY TurnInvTypes DEF OrderlyUse, Uncancelled
<1>1. \A e \in Clients : FitPc(api[e].pc)
  BY <1>0 DEF Plain, NoCancels, FitPc, CancellingPcs
<1>2. SUFFICES \E pc : FitPc(pc) /\ ClientAt(c, pc)
  BY <1>1 DEF ClientAt
<1>3. \A pc \in {"idle", "steer_wake", "list_claims", "list_reclaims", "list_resume", "list_wakes"} : FitPc(pc)
  BY DEF FitPc, CancellingPcs
<1>4. \A pc \in CancellingPcs : ~Uncancelled => FitPc(pc)
  BY DEF FitPc, CancellingPcs
<1>5. CASE ApiStep(c)
  <2>1. ASSUME NEW r \in Requests, EnqueueTurn(r) \/ EnqueueSteered(c, r) \/ SteerTurn(c, r) \/ Answer(c, r)
        PROVE  \E pc \in {"idle", "steer_wake", api[c].pc} : ClientAt(c, pc)
    BY <2>1, ClientMoves DEF EnqueueTurn, EnqueueSteered, SteerTurn, Answer, ApiVars
  <2>2. ASSUME NEW r \in Requests, \/ RunNow(c, r) \/ Decide(c, r) \/ Approve(c, r)
                                   \/ \E failed \in Requests : RetryTurn(c, failed, r)
        PROVE  FALSE
    BY <1>0, <2>2 DEF RunNow, Decide, Approve, RetryTurn, Calls, Enters
  <2>3. ASSUME NEW r \in Requests, CancelRequest(c, r) \/ CancelQueued(c, r)
        PROVE  ~Uncancelled /\ \E pc \in CancellingPcs : ClientAt(c, pc)
    BY <1>0, <2>3, ClientMoves DEF CancelRequest, CancelQueued, CancellingPcs
  <2>4. CASE PauseQueue(c)
    <3>1. ~Uncancelled /\ \E pc \in CancellingPcs : ClientAt(c, pc)
      BY <1>0, <2>4, ClientMoves DEF PauseQueue, CancellingPcs
    <3> QED
      BY <1>4, <3>1
  <2>5. CASE ResumeQueue(c)
    BY <1>3, <2>5, ClientMoves DEF ResumeQueue
  <2>6. CASE ClearQueue(c)
    <3>1. ~Uncancelled /\ \E pc \in CancellingPcs \cup {"idle"} : ClientAt(c, pc)
      BY <1>0, <2>6, ClientMoves DEF ClearQueue, CancellingPcs
    <3> QED
      BY <1>3, <1>4, <3>1
  <2>7. CASE ListQueue(c)
    <3>1. \E pc \in {"list_claims", "list_reclaims"} : ClientAt(c, pc)
      BY <2>7, ClientMoves DEF ListQueue
    <3> QED
      BY <1>3, <3>1
  <2> QED
    BY <1>1, <1>3, <1>4, <1>5, <2>1, <2>2, <2>3, <2>4, <2>5, <2>6, <2>7 DEF ApiStep
<1>6. CASE ApiFinishes(c)
  <2>1. CASE \/ SteerWake(c) \/ ListResume(c) \/ CancelSignal(c) \/ QueuedSignal(c) \/ PauseTurn(c)
             \/ ClearRows(c)
    <3>1. \E from : Returns(c, from)
      BY <2>1 DEF SteerWake, ListResume, CancelSignal, QueuedSignal, Signal, PauseTurn, ClearRows
    <3> QED
      BY <1>3, <3>1, ClientMoves
  <2>2. CASE RetryWake(c) \/ \E r \in Requests : RunNowSubmits(c, r)
    BY <1>0, <2>2 DEF RetryWake, RunNowSubmits, Returns, Plain
  <2>3. CASE PauseMarks(c)
    <3>1. api[c].pc = "pause_marker" /\ ~Uncancelled
      BY <1>0, <2>3 DEF PauseMarks, Returns, NoCancels
    <3>2. \E pc \in {"idle", "pause_runs"} : ClientAt(c, pc)
      <4>1. ASSUME NEW r, api' = [api EXCEPT ![c] = [pc |-> "pause_runs", key |-> r]]
            PROVE  ClientAt(c, "pause_runs")
        BY <4>1 DEF ApiTypeOK, ClientAt
      <4> QED
        BY <2>3, <4>1, ClientMoves DEF PauseMarks
    <3> QED
      BY <1>3, <1>4, <3>1, <3>2 DEF CancellingPcs
  <2>4. CASE PauseRuns(c) \/ CancelRequestTurn(c)
    <3>1. ~Uncancelled /\ \E pc \in {"pause_turn", "cancel_signal"} : ClientAt(c, pc)
      BY <1>0, <2>4, ClientMoves DEF PauseRuns, CancelRequestTurn, NoCancels
    <3> QED
      BY <1>4, <3>1 DEF CancellingPcs
  <2>5. CASE ListClaims(c)
    <3>1. \E pc \in {"list_resume", "list_wakes"} : ClientAt(c, pc)
      BY <2>5, ClientMoves DEF ListClaims
    <3> QED
      BY <1>3, <3>1
  <2> QED
    BY <1>6, <2>1, <2>2, <2>3, <2>4, <2>5 DEF ApiFinishes
<1> QED
  BY <1>5, <1>6

\* Without cancellations no handler sets a marker.
LEMMA HandlersDoNotMark ==
    ASSUME OrderlyUse, TurnInv, Uncancelled, NEW c \in Clients, ApiStep(c) \/ ApiFinishes(c)
    PROVE  UNCHANGED marker
<1>0. /\ Plain /\ NoCancels
      /\ \A op \in {"retry", "run_now", "decide", "approve", "pause", "clear", "cancel", "cancel_queued"} :
             op \notin Ops
  BY TurnInvTypes DEF OrderlyUse, Uncancelled
<1>1. CASE ApiStep(c)
  <2>1. ~PauseQueue(c) /\ ~ClearQueue(c) /\ \A r \in Requests : ~CancelRequest(c, r) /\ ~CancelQueued(c, r)
    BY <1>0 DEF PauseQueue, ClearQueue, CancelRequest, CancelQueued, Calls, Enters
  <2> QED
    BY <1>1, <2>1 DEF ApiStep, EnqueueTurn, EnqueueSteered, SteerTurn, RunNow, Answer, Decide, Approve,
                      RetryTurn, ResumeQueue, ListQueue
<1>2. CASE ApiFinishes(c)
  <2>1. ~PauseMarks(c) /\ ~CancelSignal(c) /\ ~QueuedSignal(c)
    BY <1>0 DEF PauseMarks, CancelSignal, QueuedSignal, Signal, Returns, NoCancels
  <2> QED
    BY <1>2, <2>1 DEF ApiFinishes, SteerWake, RetryWake, PauseRuns, PauseTurn, ClearRows, RunNowSubmits,
                      ListClaims, ListResume, CancelRequestTurn
<1> QED
  BY <1>1, <1>2

\* The steps, told apart by the process that takes them.
LEMMA NextCases ==
    ASSUME [Next]_vars
    PROVE  \/ \E c \in Clients : (ApiStep(c) \/ ApiFinishes(c)) /\ UNCHANGED <<disp, worker, beat>>
           \/ \E d \in Dispatchers : DispStep(d) /\ UNCHANGED <<worker, api, beat>>
           \/ \E w \in Workers : WorkerActs(w) /\ UNCHANGED <<disp, api, beat>>
           \/ \E w \in Workers : WorkUnlock(w) /\ UNCHANGED <<disp, api, beat>>
           \/ \E w \in Workers, job \in jobs, redelivered \in BOOLEAN :
                  WorkTake(w, job, redelivered) /\ UNCHANGED <<disp, api, beat>>
           \/ BeatStep /\ UNCHANGED <<disp, worker, api>>
           \/ \E r \in Requests : /\ TurnAges(r) \/ EndAges(r) \/ LeaseAges(r)
                                  /\ UNCHANGED <<jobs, marker, disp, worker, api, beat>>
           \/ Crash
           \/ UNCHANGED <<run, frames, turn, jobs, marker, disp, worker, api, beat>>
<1>1. ASSUME NEW c \in Clients, Call(c) \/ Return(c)
      PROVE  (ApiStep(c) \/ ApiFinishes(c)) /\ UNCHANGED <<disp, worker, beat>>
  BY <1>1 DEF Call, Return
<1>2. ASSUME NEW d \in Dispatchers, Dispatch(d)
      PROVE  DispStep(d) /\ UNCHANGED <<worker, api, beat>>
  BY <1>2 DEF Dispatch, ApiVars, DispStep, DispTake, DispTerminalRuns, DispClaims, DispResume, DispClaim,
              DispFindsNothing, DispSubmit, DispRelease
<1>3. ASSUME NEW w \in Workers, Work(w) \/ Abort(w)
      PROVE  (WorkerActs(w) \/ WorkUnlock(w)) /\ UNCHANGED <<disp, api, beat>>
  <2>1. CASE Work(w)
    <3>1. UNCHANGED disp
      <4>1. WorkStep(w)
        BY <2>1 DEF Work
      <4>2. CASE \/ WorkCheck(w) \/ WorkEarlyRuns(w) \/ WorkEarlyTurn(w) \/ WorkStart(w) \/ WorkCreate(w)
                 \/ WorkRevive(w) \/ WorkApply(w) \/ WorkHeartbeat(w) \/ WorkRound(w)
        BY <4>2 DEF WorkCheck, WorkEarlyRuns, WorkEarlyTurn, WorkStart, WorkCreate, WorkRevive, WorkApply,
                    WorkHeartbeat, WorkRound
      <4>3. CASE \/ WorkSeesCancel(w) \/ WorkDeadline(w) \/ WorkFails(w) \/ WorkAnswers(w) \/ WorkFinalCheck(w)
                 \/ WorkSave(w) \/ WorkEmit(w) \/ WorkFinalRun(w) \/ WorkFinalTurn(w) \/ WorkUnlock(w)
        BY <4>3 DEF WorkSeesCancel, WorkDeadline, WorkFails, WorkAnswers, WorkFinalCheck, WorkSave, WorkEmit,
                    WorkFinalRun, WorkFinalTurn, WorkUnlock
      <4> QED
        BY <4>1, <4>2, <4>3 DEF WorkStep
    <3> QED
      BY <2>1, <3>1 DEF Work, WorkerActs, ApiVars
  <2>2. CASE Abort(w)
    BY <2>2 DEF Abort, WorkerActs, ApiVars, WorkAborts, WorkEmitFails
  <2> QED
    BY <1>3, <2>1, <2>2
<1>4. ASSUME NEW w \in Workers, NEW job \in jobs, Deliver(w, job) \/ Redeliver(w, job)
      PROVE  \E redelivered \in BOOLEAN : WorkTake(w, job, redelivered) /\ UNCHANGED <<disp, api, beat>>
  BY <1>4 DEF Deliver, Redeliver, WorkTake, ApiVars
<1>5. Maintain => BeatStep /\ UNCHANGED <<disp, worker, api>>
  BY DEF Maintain, ApiVars
<1>6. TimePasses /\ Untimed => \E r \in Requests : /\ TurnAges(r) \/ EndAges(r) \/ LeaseAges(r)
                                                   /\ UNCHANGED <<jobs, marker, disp, worker, api, beat>>
  BY DEF TimePasses, Untimed, BrokerVars, ApiVars
<1>7. (\E k \in Keys : LockExpires(k)) \/ UNCHANGED vars
      => UNCHANGED <<run, frames, turn, jobs, marker, disp, worker, api, beat>>
  BY DEF LockExpires, vars, StoreVars, BrokerVars, ApiVars
<1> QED
  BY <1>1, <1>2, <1>3, <1>4, <1>5, <1>6, <1>7 DEF Next

LEMMA BeatTouches ==
    ASSUME BeatStep
    PROVE  /\ UNCHANGED <<jobs, marker>>
           /\ \/ \E closing : RecoverTerminalRuns(closing) \/ RecoverClaims(closing)
              \/ UNCHANGED <<run, turn>>
              \/ \E r \in Requests : ExpireLease(r)
BY DEF BeatStep, BeatStarts, NoLeaseExpired, CloseExpired, BeatTerminalRuns, BeatClaims, BeatFailurePause,
       BeatWake, ExpireLease, ResumeAfterFailure, StoreVars

LEMMA ExpiryDoesNotCancel ==
    ASSUME StoreOK, NEW r \in Requests, ExpireLease(r)
    PROVE  \A q \in Requests : run'[q].status = "cancelling" => run[q].status = "cancelling"
<1>1. run \in [Requests -> RunRows]
  BY DEF StoreOK, StoreTypeOK, RunTypeOK
<1>2. \A status : [FinishedRun(run[r], status) EXCEPT
                      !.lease = TRUE, !.msg = ClosedMessage(@, status)].status = status
  BY <1>1 DEF FinishedRun, RunRows
<1>3. LeaseOutcome(r) # "cancelling"
  BY DEF LeaseOutcome
<1>4. run'[r].status = LeaseOutcome(r) /\ \A q \in Requests : q # r => run'[q] = run[q]
  BY <1>1, <1>2 DEF ExpireLease
<1> QED
  BY <1>3, <1>4

\* The jobs in the broker and in the hands of the workers.
JobsPlain == /\ \A job \in jobs : PlainJob(job)
             /\ \A w \in Workers : worker[w].pc # "idle" => PlainJob(worker[w].job)

LEMMA JobsStayPlain ==
    ASSUME OrderlyUse, TurnInv, [Next]_vars
    PROVE  JobsPlain'
<1>0. /\ StoreOK /\ WorkerOK /\ Plain /\ NoCancels /\ Core /\ JobsPlain
      /\ disp \in [Dispatchers -> [pc : DispPcs, key : Requests \cup {None}]]
      /\ \A d \in Dispatchers : disp[d].pc = "submit" => disp[d].key \in Requests
  BY TurnInvTypes DEF Plain, JobsPlain, StoreOK
<1>1. ASSUME \A job \in jobs' : job \in jobs \/ PlainJob(job),
             \A w \in Workers : worker'[w].job = worker[w].job /\ (worker'[w].pc # "idle" => worker[w].pc # "idle")
      PROVE  JobsPlain'
  BY <1>0, <1>1 DEF JobsPlain, PlainJob
<1>2. ASSUME UNCHANGED worker, jobs' \subseteq jobs
      PROVE  JobsPlain'
  BY <1>1, <1>2
<1>3. ASSUME NEW c \in Clients, ApiStep(c) \/ ApiFinishes(c), UNCHANGED <<disp, worker, beat>>
      PROVE  JobsPlain'
  <2>1. CASE CalmStep \/ UNCHANGED jobs
    BY <1>2, <1>3, <2>1 DEF CalmStep
  <2>2. ASSUME NEW r \in Requests, Answer(c, r)
        PROVE  JobsPlain'
    <3>1. jobs' \in {jobs, jobs \cup {[kind |-> "answer", key |-> r, target |-> r]}} /\ Uncancelled
      BY <1>0, <2>2, AnswerDoes
    <3>2. PlainJob([kind |-> "answer", key |-> r, target |-> r])
      BY <3>1 DEF PlainJob
    <3> QED
      BY <1>1, <1>3, <3>1, <3>2
  <2> QED
    BY <1>0, <1>3, <2>1, <2>2, HandlersAreCalm
<1>4. ASSUME NEW d \in Dispatchers, DispStep(d), UNCHANGED worker
      PROVE  JobsPlain'
  <2>1. CASE DispSubmit(d)
    <3>1. disp[d].key \in Requests
      BY <1>0, <2>1 DEF DispSubmit
    <3>2. PlainJob([kind |-> "turn", key |-> disp[d].key, target |-> disp[d].key])
      BY <3>1 DEF PlainJob
    <3> QED
      BY <1>1, <1>4, <2>1, <3>2 DEF DispSubmit
  <2>2. CASE ~DispSubmit(d)
    <3>1. UNCHANGED jobs
      BY <1>4, <2>2 DEF DispStep, DispTake, DispTerminalRuns, DispClaims, DispResume, DispClaim,
                        DispFindsNothing, DispRelease
    <3> QED
      BY <1>2, <1>4, <3>1
  <2> QED
    BY <2>1, <2>2
<1>5. ASSUME NEW w \in Workers, WorkerActs(w), UNCHANGED <<disp, api, beat>>
      PROVE  JobsPlain'
  <2>1. OwnStep(w, Key(w))
    BY <1>0, <1>5, WorkerActsOnOne, WorkerOwns
  <2> QED
    BY <1>1, <2>1 DEF OwnStep
<1>6. ASSUME NEW w \in Workers, WorkUnlock(w)
      PROVE  JobsPlain'
  <2>1. UNCHANGED jobs /\ worker' = [worker EXCEPT ![w] = IdleWorker]
    BY <1>6 DEF WorkUnlock
  <2>2. \A v \in Workers : worker'[v] = worker[v] \/ worker'[v].pc = "idle"
    BY <1>0, <2>1 DEF WorkerOK, IdleWorker
  <2> QED
    BY <1>0, <2>1, <2>2 DEF JobsPlain
<1>7. ASSUME NEW w \in Workers, NEW job \in jobs, NEW redelivered \in BOOLEAN, WorkTake(w, job, redelivered)
      PROVE  JobsPlain'
  <2>1. jobs' \subseteq jobs /\ (UNCHANGED worker
                                 \/ worker' = [worker EXCEPT ![w] = [pc |-> "check", job |-> job, out |-> "none"]])
    BY <1>7 DEF WorkTake
  <2>2. \A v \in Workers : worker'[v] = worker[v] \/ worker'[v].job = job
    BY <1>0, <2>1 DEF WorkerOK
  <2> QED
    BY <1>0, <2>1, <2>2 DEF JobsPlain
<1>8. CASE Crash
  <2>1. UNCHANGED jobs
    BY <1>8 DEF Crash
  <2>2. \A v \in Workers : worker'[v] = worker[v] \/ worker'[v].pc = "idle"
    BY <1>0, <1>8 DEF Crash, CrashWorker, CrashDispatcher, CrashClient, CrashBeat, WorkerOK, IdleWorker
  <2> QED
    BY <1>0, <2>1, <2>2 DEF JobsPlain
<1>9. BeatStep /\ UNCHANGED worker => JobsPlain'
  BY <1>2, BeatTouches
<1> QED
  BY <1>2, <1>3, <1>4, <1>5, <1>6, <1>7, <1>8, <1>9, NextCases

LEMMA PlainStep ==
    ASSUME OrderlyUse, TurnInv, [Next]_vars
    PROVE  Plain'
<1>0. /\ StoreOK /\ WorkerOK /\ Plain /\ NoCancels /\ turn \in [Requests -> TurnRows] /\ ApiTypeOK
      /\ \A w \in Workers : worker[w].pc \notin {"apply", "revive"}
  BY TurnInvTypes DEF Plain, StoreOK, TurnInv, LockInv, TypeInv, TypeOK
<1>1. JobsPlain'
  BY JobsStayPlain
<1>2. \A w \in Workers : worker'[w].pc \notin {"apply", "revive"}
  <2>1. ASSUME NEW w \in Workers, WorkerActs(w), UNCHANGED <<disp, api, beat>>
        PROVE  \A v \in Workers : worker'[v].pc \notin {"apply", "revive"}
    <3>1. OwnStep(w, Key(w)) /\ worker'[w].pc \notin {"apply", "revive"}
      BY <1>0, <2>1, WorkerActsOnOne, WorkerOwns, WorkerStaysPlain, TurnInvTypes
    <3> QED
      BY <1>0, <3>1 DEF OwnStep
  <2>2. ASSUME NEW w \in Workers, WorkUnlock(w)
        PROVE  \A v \in Workers : worker'[v] = worker[v] \/ worker'[v].pc = "idle"
    BY <1>0, <2>2 DEF WorkUnlock, WorkerOK, IdleWorker
  <2>3. ASSUME NEW w \in Workers, NEW job \in jobs, NEW redelivered \in BOOLEAN, WorkTake(w, job, redelivered)
        PROVE  \A v \in Workers : worker'[v] = worker[v] \/ worker'[v].pc = "check"
    BY <1>0, <2>3 DEF WorkTake, WorkerOK
  <2>4. CASE Crash
    <3>1. \A v \in Workers : worker'[v] = worker[v] \/ worker'[v].pc = "idle"
      BY <1>0, <2>4 DEF Crash, CrashWorker, CrashDispatcher, CrashClient, CrashBeat, WorkerOK, IdleWorker
    <3> QED
      BY <1>0, <3>1
  <2> QED
    BY <1>0, <2>1, <2>2, <2>3, <2>4, NextCases
<1>3. \A r \in Requests : turn'[r].parent = None
  <2>1. ASSUME NEW q \in Requests, Adds(q), NEW r \in Requests
        PROVE  turn'[r].parent = None
    <3>1. CASE Promote(q)
      BY <1>0, <3>1 DEF Promote, TurnRows, Plain
    <3>2. ASSUME NEW steer \in BOOLEAN, Enqueue(q, steer)
          PROVE  turn'[r].parent = None
      <4>1. PICK row \in NewTurn(IF steer THEN 1 ELSE 0, None) : turn' = [turn EXCEPT ![q] = row]
        BY <3>2 DEF Enqueue
      <4>2. row.parent = None
        BY NewTurnWaits
      <4> QED
        BY <1>0, <4>1, <4>2 DEF Plain
    <3> QED
      BY <2>1, <3>1, <3>2 DEF Adds
  <2> QED
    BY <1>0, <2>1, PlacesKept DEF SamePlace, Plain
<1>4. \A c \in Clients : api'[c].pc \notin {"retry_wake", "run_now"}
  <2>1. ASSUME NEW c \in Clients, ApiStep(c) \/ ApiFinishes(c)
        PROVE  \A e \in Clients : api'[e].pc \notin {"retry_wake", "run_now"}
    BY <1>0, <2>1, HandlersStayPlain DEF FitPc
  <2>2. CASE Crash
    <3>1. \A e \in Clients : api'[e] = api[e] \/ api'[e].pc = "idle"
      BY <1>0, <2>2 DEF Crash, CrashWorker, CrashDispatcher, CrashClient, CrashBeat, ApiTypeOK, IdleClient
    <3> QED
      BY <1>0, <3>1 DEF Plain
  <2> QED
    BY <1>0, <2>1, <2>2, NextCases DEF Plain
<1> QED
  BY <1>1, <1>2, <1>3, <1>4 DEF Plain, JobsPlain

LEMMA NoCancelsStep ==
    ASSUME OrderlyUse, TurnInv, [Next]_vars
    PROVE  NoCancels'
<1> SUFFICES ASSUME Uncancelled
             PROVE  /\ \A k \in Keys : ~marker'[k]
                    /\ \A w \in Workers : worker'[w].pc \notin {"early_runs", "early_turn"}
                    /\ \A c \in Clients : api'[c].pc \notin CancellingPcs
                    /\ \A r \in Requests : run'[r].status # "cancelling"
  BY DEF NoCancels, Uncancelled, CancellingPcs
<1>0. /\ StoreOK /\ WorkerOK /\ Plain /\ NoCancels /\ Core /\ ApiTypeOK /\ run \in [Requests -> RunRows]
      /\ \A k \in Keys : ~marker[k]
      /\ \A w \in Workers : worker[w].pc \notin {"early_runs", "early_turn"}
      /\ \A c \in Clients : api[c].pc \notin CancellingPcs
      /\ \A r \in Requests : run[r].status # "cancelling"
  BY TurnInvTypes DEF NoCancels, StoreOK, TurnInv, LockInv, TypeInv, TypeOK, CancellingPcs
<1>1. UNCHANGED marker
  <2>1. ASSUME NEW d \in Dispatchers, DispStep(d)
        PROVE  UNCHANGED marker
    BY <2>1 DEF DispStep, DispTake, DispTerminalRuns, DispClaims, DispResume, DispClaim, DispFindsNothing,
                DispSubmit, DispRelease
  <2>2. ASSUME NEW w \in Workers, WorkerActs(w) \/ WorkUnlock(w)
        PROVE  UNCHANGED marker
    BY <1>0, <2>2, WorkerStaysPlain DEF WorkUnlock
  <2>3. ASSUME NEW w \in Workers, NEW job \in jobs, NEW redelivered \in BOOLEAN, WorkTake(w, job, redelivered)
        PROVE  UNCHANGED marker
    BY <2>3 DEF WorkTake
  <2>4. Crash => UNCHANGED marker
    BY DEF Crash
  <2> QED
    BY <2>1, <2>2, <2>3, <2>4, HandlersDoNotMark, BeatTouches, NextCases
<1>2. \A w \in Workers : worker'[w].pc \notin {"early_runs", "early_turn"}
  <2>1. ASSUME NEW w \in Workers, WorkerActs(w), UNCHANGED <<disp, api, beat>>
        PROVE  \A v \in Workers : worker'[v].pc \notin {"early_runs", "early_turn"}
    <3>1. OwnStep(w, Key(w)) /\ worker'[w].pc \notin {"early_runs", "early_turn"}
      BY <1>0, <2>1, WorkerActsOnOne, WorkerOwns, WorkerStaysPlain
    <3> QED
      BY <1>0, <3>1 DEF OwnStep
  <2>2. ASSUME NEW w \in Workers, WorkUnlock(w)
        PROVE  \A v \in Workers : worker'[v] = worker[v] \/ worker'[v].pc = "idle"
    BY <1>0, <2>2 DEF WorkUnlock, WorkerOK, IdleWorker
  <2>3. ASSUME NEW w \in Workers, NEW job \in jobs, NEW redelivered \in BOOLEAN, WorkTake(w, job, redelivered)
        PROVE  \A v \in Workers : worker'[v] = worker[v] \/ worker'[v].pc = "check"
    BY <1>0, <2>3 DEF WorkTake, WorkerOK
  <2>4. CASE Crash
    <3>1. \A v \in Workers : worker'[v] = worker[v] \/ worker'[v].pc = "idle"
      BY <1>0, <2>4 DEF Crash, CrashWorker, CrashDispatcher, CrashClient, CrashBeat, WorkerOK, IdleWorker
    <3> QED
      BY <1>0, <3>1
  <2> QED
    BY <1>0, <2>1, <2>2, <2>3, <2>4, NextCases
<1>3. \A c \in Clients : api'[c].pc \notin CancellingPcs
  <2>1. ASSUME NEW c \in Clients, ApiStep(c) \/ ApiFinishes(c)
        PROVE  \A e \in Clients : api'[e].pc \notin CancellingPcs
    BY <1>0, <2>1, HandlersStayPlain DEF FitPc
  <2>2. CASE Crash
    <3>1. \A e \in Clients : api'[e] = api[e] \/ api'[e].pc = "idle"
      BY <1>0, <2>2 DEF Crash, CrashWorker, CrashDispatcher, CrashClient, CrashBeat, ApiTypeOK, IdleClient
    <3> QED
      BY <1>0, <3>1 DEF CancellingPcs
  <2> QED
    BY <1>0, <2>1, <2>2, NextCases
<1>4. \A r \in Requests : run'[r].status = "cancelling" => run[r].status = "cancelling"
  <2>1. ASSUME NEW c \in Clients, ApiStep(c) \/ ApiFinishes(c), UNCHANGED <<disp, worker, beat>>
        PROVE  \A r \in Requests : run'[r].status = "cancelling" => run[r].status = "cancelling"
    <3>1. CASE CalmStep
      BY <3>1 DEF CalmStep, CalmRun
    <3>2. ASSUME NEW r \in Requests, Answer(c, r)
          PROVE  \A q \in Requests : run'[q].status = "cancelling" => run[q].status = "cancelling"
      <4>1. run' = [run EXCEPT ![r] = QuestionClaimed(run[r])]
        BY <1>0, <3>2, AnswerDoes
      <4>2. QuestionClaimed(run[r]).status = "running"
        BY <1>0 DEF QuestionClaimed, RunRows
      <4> QED
        BY <1>0, <4>1, <4>2
    <3> QED
      BY <1>0, <2>1, <3>1, <3>2, HandlersAreCalm, RecoveryDoesNotCancel
  <2>2. ASSUME NEW d \in Dispatchers, DispStep(d)
        PROVE  \A r \in Requests : run'[r].status = "cancelling" => run[r].status = "cancelling"
    <3>1. CASE DispTerminalRuns(d) \/ DispClaims(d)
      BY <1>0, <3>1, RecoveryDoesNotCancel DEF DispTerminalRuns, DispClaims
    <3>2. CASE ~(DispTerminalRuns(d) \/ DispClaims(d))
      BY <2>2, <3>2 DEF DispStep, DispTake, DispResume, DispClaim, DispFindsNothing, DispSubmit, DispRelease,
                        ResumeAfterFailure, Claim, ReleaseClaim, StoreVars
    <3> QED
      BY <3>1, <3>2
  <2>3. ASSUME NEW w \in Workers, WorkUnlock(w)
        PROVE  UNCHANGED run
    BY <2>3 DEF WorkUnlock, StoreVars
  <2>4. ASSUME NEW w \in Workers, NEW job \in jobs, NEW redelivered \in BOOLEAN, WorkTake(w, job, redelivered)
        PROVE  UNCHANGED run
    BY <2>4 DEF WorkTake, StoreVars
  <2>5. ASSUME NEW r \in Requests, TurnAges(r) \/ EndAges(r) \/ LeaseAges(r)
        PROVE  \A q \in Requests : run'[q].status = run[q].status
    BY <1>0, <2>5 DEF TurnAges, EndAges, LeaseAges, RunRows
  <2>6. Crash => UNCHANGED run
    BY DEF Crash, StoreVars
  <2>7. BeatStep => \A r \in Requests : run'[r].status = "cancelling" => run[r].status = "cancelling"
    BY <1>0, BeatTouches, RecoveryDoesNotCancel, ExpiryDoesNotCancel
  <2> QED
    BY <1>0, <2>1, <2>2, <2>3, <2>4, <2>5, <2>6, <2>7, WorkersDoNotCancel, NextCases
<1> QED
  BY <1>0, <1>1, <1>2, <1>3, <1>4
-----------------------------------------------------------------------------
(* The invariant, and what it says. *)

LEMMA TurnInvPreserved ==
    ASSUME OrderlyUse
    PROVE  TurnInv /\ [Next]_vars => TurnInv'
BY LockPreserved, CoreStep, PlainStep, NoCancelsStep DEF TurnInv

LEMMA TurnInvInitially == Init => TurnInv
<1> SUFFICES ASSUME Init PROVE TurnInv
  OBVIOUS
<1>1. /\ \A r \in Requests : turn[r] = NoTurn /\ run[r] = NoRun
      /\ \A w \in Workers : worker[w] = IdleWorker
      /\ \A d \in Dispatchers : disp[d] = IdleDispatcher
      /\ \A c \in Clients : api[c] = IdleClient
      /\ jobs = {} /\ beat = IdleBeat /\ \A k \in Keys : marker[k] = FALSE
  BY DEF Init, RunInit, TurnInit, WorkersInit, ApiInit, BrokerInit, BeatInit
<1>2. LockInv
  BY InitialTypes DEF LockInv, LockHeld, Init, WorkersInit, IdleWorker
<1>3. \A r \in Requests : /\ ~ActiveTurn(r) /\ ~ActiveRun(r) /\ ~Busy(r) /\ turn[r].parent = None
                          /\ turn[r].started = "null" /\ run[r].status = "none"
  BY <1>1 DEF NoTurn, NoRun, ActiveTurn, ActiveRun, Busy, ActiveQueueStatuses, ActiveRunStatuses
<1>4. \A w \in Workers : worker[w].pc = "idle" /\ ~Brings(w) /\ ~Holds(w)
  BY <1>1 DEF IdleWorker, Brings, Holds
<1>5. \A d \in Dispatchers, r \in Requests : ~Submits(d, r)
  BY <1>1 DEF IdleDispatcher, Submits
<1>6. \A r : ~Sent(r)
  BY <1>1 DEF Sent
<1>7. \A r \in Requests : ~Carried(r)
  BY <1>4, <1>5, <1>6 DEF Carried
<1>8. Plain /\ NoCancels
  BY <1>1, <1>3, <1>4 DEF Plain, NoCancels, IdleClient
<1>9. \A r \in Requests : WaitsAlone(r) /\ Silent(r) /\ BeatIsRight(r)
  BY <1>1, <1>3, <1>4, <1>7 DEF WaitsAlone, Silent, BeatIsRight, IdleBeat
<1>10. OneBusy /\ CarriedInTime /\ RunsHaveTurns
  BY <1>3, <1>7 DEF OneBusy, CarriedInTime, RunsHaveTurns
<1>11. \A d \in Dispatchers, r \in Requests : SubmitsFirst(d, r)
  BY <1>5 DEF SubmitsFirst
<1>12. \A w \in Workers : WorkerFits(w)
  BY <1>4 DEF WorkerFits, Holds
<1> QED
  BY <1>2, <1>8, <1>9, <1>10, <1>11, <1>12 DEF TurnInv, Core

LEMMA TurnInvariant ==
    ASSUME OrderlyUse
    PROVE  Spec => []TurnInv
BY TurnInvInitially, TurnInvPreserved, PTL DEF Spec

\* "A user has one active turn per conversation": what claim_next checks for one
\* instant holds at every instant, for all claims, answers and recoveries.
THEOREM OneActiveTurn ==
    ASSUME OrderlyUse
    PROVE  Spec => []AtMostOneActiveTurn
<1>1. TurnInv => AtMostOneActiveTurn
  BY DEF TurnInv, Core, OneBusy, Busy, ActiveTurn, AtMostOneActiveTurn, Active, InStatus
<1> QED
  BY <1>1, TurnInvariant, PTL

\* Never two workers in the provider and tool loop of one conversation.
THEOREM OneExecutes ==
    ASSUME OrderlyUse
    PROVE  Spec => []OneExecutor
<1>1. TurnInv => OneExecutor
  <2> SUFFICES ASSUME TurnInv, NEW w \in Workers, NEW v \in Workers, ExecutesRun(w), ExecutesRun(v)
               PROVE  w = v
    BY DEF OneExecutor
  <2>1. Plain /\ Core /\ OneWorkerPerKey
    BY LockHeldExcludes DEF TurnInv, LockInv
  <2>2. worker[w].pc = "stream" /\ worker[v].pc = "stream"
    BY <2>1 DEF ExecutesRun, Plain
  <2>3. /\ Key(w) \in Requests /\ Key(v) \in Requests
        /\ Busy(Key(w)) /\ Busy(Key(v))
    BY <2>1, <2>2 DEF Core, Plain, PlainJob, Key, WorkerFits, Holds, Busy
  <2>4. Key(w) = Key(v)
    BY <2>1, <2>3 DEF Core, OneBusy
  <2> QED
    BY <2>1, <2>2, <2>4 DEF OneWorkerPerKey
<1> QED
  BY <1>1, TurnInvariant, PTL

\* A turn whose run a worker executes is active in the queue.
THEOREM ExecutedIsActive ==
    ASSUME OrderlyUse
    PROVE  Spec => []ExecutedTurnIsActive
<1>1. TurnInv => ExecutedTurnIsActive
  <2> SUFFICES ASSUME TurnInv, NEW w \in Workers, ExecutesRun(w), Key(w) \in Requests
               PROVE  Key(w) \in Active
    BY DEF ExecutedTurnIsActive
  <2>1. worker[w].pc = "stream"
    BY DEF TurnInv, ExecutesRun, Plain
  <2>2. Claimed(Key(w))
    BY <2>1 DEF TurnInv, Core, WorkerFits, Holds
  <2> QED
    BY <2>2 DEF Claimed, Active, InStatus, ActiveQueueStatuses
<1> QED
  BY <1>1, TurnInvariant, PTL

\* An answer continues under the stream key and queue slot of the turn that asked.
THEOREM AnswersKeepTheirTurn ==
    ASSUME OrderlyUse
    PROVE  Spec => []ResumesKeepTheirTurn
<1>1. TurnInv => ResumesKeepTheirTurn
  BY DEF TurnInv, Plain, PlainJob, ResumesKeepTheirTurn
<1> QED
  BY <1>1, TurnInvariant, PTL

\* Where nobody cancels, no active run is left under an ended turn, where it
\* would keep claim_next from every later turn.
THEOREM EndedRunsHaveEnded ==
    ASSUME OrderlyUse, Uncancelled
    PROVE  Spec => []EndedRunsEnd
<1>1. TurnInv => EndedRunsEnd
  <2> SUFFICES ASSUME TurnInv, NEW r \in Ended, ActiveRun(r)
               PROVE  FALSE
    BY DEF EndedRunsEnd, ActiveRun
  <2>1. r \in Requests /\ EndedTurn(r)
    BY DEF Ended, InStatus, EndedTurn
  <2>2. ActiveTurn(r)
    BY <2>1 DEF TurnInv, Core, RunsHaveTurns
  <2> QED
    BY <2>1, <2>2 DEF ActiveTurn, EndedTurn, ActiveQueueStatuses, TerminalQueueStatuses
<1> QED
  BY <1>1, TurnInvariant, PTL
=============================================================================
