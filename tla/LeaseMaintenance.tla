-------------------------- MODULE LeaseMaintenance --------------------------
(***************************************************************************)
(* The part of maintenance_heartbeat that tends one DeepSpace conversation *)
(* every five minutes: end runs whose worker lease expired, recover stale  *)
(* claims, and wake a queue that has work and nothing active.              *)
(***************************************************************************)
EXTENDS Broker

VARIABLE beat       \* the maintenance process: pc, the run it just ended, and the
                    \* expired runs it still holds, as they were when it read them

BeatPcs == {"idle", "runs", "close", "terminal_runs", "claims", "failure_pause", "wake"}

IdleBeat == [pc |-> "idle", key |-> None, stale |-> {}, flagged |-> {}]

BeatTypeOK == beat \in [pc : BeatPcs, key : Requests \cup {None},
                        stale : SUBSET Requests, flagged : SUBSET Requests]

BeatInit == beat = IdleBeat

BeatGoto(from, to) == beat.pc = from /\ beat' = [IdleBeat EXCEPT !.pc = to]

LeaseExpired(r) == /\ run[r].status \in WorkerRunStatuses
                   /\ run[r].beat \in OlderThanThirty

\* The expired runs of all conversations are read at once.  Their row locks end
\* with the first commit of the loop, and the session keeps what it has read.
BeatStarts ==
    /\ beat.pc = "idle"
    /\ LET stale == {r \in Requests : LeaseExpired(r)}
       IN  beat' = [IdleBeat EXCEPT !.pc = "runs", !.stale = stale,
                                    !.flagged = {r \in stale : run[r].cancel}]
    /\ UNCHANGED <<StoreVars, jobs, wakes, lock, marker>>

LeaseOutcome(r) == IF r \in beat.flagged THEN "cancelled" ELSE "failed"

\* One expired lease, with the message it was found through, in one commit.
ExpireLease(r) ==
    /\ beat.pc = "runs"
    /\ r \in beat.stale
    /\ run' = [run EXCEPT ![r] = [FinishedRun(run[r], LeaseOutcome(r)) EXCEPT
                  !.lease = TRUE, !.msg = ClosedMessage(@, LeaseOutcome(r))]]
    /\ beat' = [beat EXCEPT !.pc = "close", !.key = r, !.stale = @ \ {r}]
    /\ UNCHANGED <<frames, turn, control, jobs, wakes, lock, marker>>

\* Its stream is closed unless it already ended; appending may fail.
CloseExpired ==
    /\ beat.pc = "close"
    /\ frames' \in {frames} \cup
         (IF HasTerminalFrame(beat.key) THEN {}
          ELSE {[frames EXCEPT ![beat.key] = <<CloseFrame(LeaseOutcome(beat.key))>>]})
    /\ beat' = [beat EXCEPT !.pc = "runs", !.key = None]
    /\ UNCHANGED <<run, turn, control, jobs, wakes, lock, marker>>

\* Only a stale claim that is still `running` makes the beat recover the queue.
NoLeaseExpired ==
    /\ beat.stale = {}
    /\ BeatGoto("runs", IF \E r \in StaleClaims : turn[r].status = "running"
                        THEN "terminal_runs" ELSE "failure_pause")
    /\ UNCHANGED <<StoreVars, jobs, wakes, lock, marker>>

BeatTerminalRuns ==
    /\ \E closing \in Closings : RecoverTerminalRuns(closing)
    /\ BeatGoto("terminal_runs", "claims")
    /\ UNCHANGED <<jobs, wakes, lock, marker>>

BeatClaims ==
    /\ \E closing \in Closings : RecoverClaims(closing)
    /\ IF Paused THEN UNCHANGED wakes ELSE SubmitWake
    /\ BeatGoto("claims", "failure_pause")
    /\ UNCHANGED <<jobs, lock, marker>>

\* Queued work lifts a legacy failure pause, then wakes the queue if it can run.
BeatFailurePause ==
    /\ IF InStatus({"queued"}) # {}
       THEN BeatGoto("failure_pause", "wake") /\ ResumeAfterFailure
       ELSE BeatGoto("failure_pause", "idle") /\ UNCHANGED StoreVars
    /\ UNCHANGED <<jobs, wakes, lock, marker>>

BeatWake ==
    /\ IF Paused \/ InStatus(ActiveQueueStatuses) # {} THEN UNCHANGED wakes ELSE SubmitWake
    /\ BeatGoto("wake", "idle")
    /\ UNCHANGED <<StoreVars, jobs, lock, marker>>

BeatStep ==
    \/ BeatStarts \/ NoLeaseExpired \/ CloseExpired
    \/ BeatTerminalRuns \/ BeatClaims \/ BeatFailurePause \/ BeatWake
    \/ \E r \in Requests : ExpireLease(r)
=============================================================================
