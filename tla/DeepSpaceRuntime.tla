-------------------------- MODULE DeepSpaceRuntime --------------------------
(***************************************************************************)
(* One DeepSpace conversation, whole: HTTP clients, dispatchers, workers   *)
(* and the maintenance beat over the same rows, with time, failures and    *)
(* redelivered messages.                                                   *)
(***************************************************************************)
EXTENDS TurnWorkers, QueueApi, LeaseMaintenance

CONSTANTS
    Failures,           \* what goes wrong: "crash" of a process, "exception" in a task
    MaxFailures,        \* bound on how often
    MaxRedeliveries,    \* bound on the messages Celery delivers again
    PromptDelivery      \* TRUE: a submitted job is delivered within ten minutes

ASSUME FailuresAssumption == Failures \subseteq {"crash", "exception"}
ASSUME FaultsAssumption == MaxFailures \in Nat /\ MaxRedeliveries \in Nat
ASSUME DeliveryAssumption == PromptDelivery \in BOOLEAN

VARIABLES failures, redeliveries

FaultVars == <<failures, redeliveries>>
BrokerVars == <<jobs, wakes, lock, marker>>
vars == <<StoreVars, BrokerVars, disp, worker, ApiVars, beat, FaultVars>>

TypeOK ==
    /\ RunTypeOK /\ TurnTypeOK /\ BrokerTypeOK
    /\ WorkersTypeOK /\ ApiTypeOK /\ BeatTypeOK
    /\ failures \in 0..MaxFailures
    /\ redeliveries \in 0..MaxRedeliveries

Init == /\ RunInit /\ TurnInit /\ BrokerInit
        /\ WorkersInit /\ ApiInit /\ BeatInit
        /\ failures = 0 /\ redeliveries = 0
-----------------------------------------------------------------------------
(* Time.  A stamp grows older whenever the code's thresholds may have      *)
(* passed.  A worker that executes a run refreshes its heartbeat, and the  *)
(* short steps of a worker, to its run and from it, take less than ten     *)
(* minutes; that a job is delivered within ten minutes as well is assumed  *)
(* with PromptDelivery.                                                    *)

\* A dispatcher, the broker or a worker carries claim r in a short step.
InTransit(r) ==
    \/ \E w \in Workers : (Starting(w) \/ Settling(w)) /\ Key(w) = r
    \/ PromptDelivery /\ \/ \E job \in jobs : job.key = r
                         \/ \E d \in Dispatchers : disp[d].pc = "submit" /\ disp[d].key = r

TurnAges(r) ==
    /\ turn[r].status \in ActiveQueueStatuses
    /\ turn[r].started = "fresh"
    /\ ~InTransit(r)
    /\ turn' = [turn EXCEPT ![r].started = "stale"]
    /\ UNCHANGED <<run, frames, control>>

EndAges(r) ==
    /\ turn[r].completed = "fresh"
    /\ run[r].status \in WorkerRunStatuses     \* where Orphaned reads it
    /\ ~InTransit(r)
    /\ turn' = [turn EXCEPT ![r].completed = "stale"]
    /\ UNCHANGED <<run, frames, control>>

LeaseAges(r) ==
    /\ run[r].beat \in {"fresh", "aged"}
    /\ ~InTransit(r)
    /\ ~ \E w \in Workers : (Executing(w) \/ Settling(w)) /\ Target(w) = r
    /\ run' = [run EXCEPT ![r].beat = IF @ = "fresh" THEN "aged" ELSE "expired"]
    /\ UNCHANGED <<frames, turn, control>>

TimePasses == \E r \in Requests : TurnAges(r) \/ EndAges(r) \/ LeaseAges(r)

Untimed == UNCHANGED <<BrokerVars, disp, worker, ApiVars, beat, FaultVars>>
-----------------------------------------------------------------------------
(* Crashes.  Messages are acknowledged on delivery, so the job is gone with *)
(* its worker, whose lock stays until the key expires.                     *)

CrashWorker(w) ==
    /\ worker[w].pc # "idle"
    /\ worker' = [worker EXCEPT ![w] = IdleWorker]
    /\ lock' = IF lock[Key(w)] = w THEN [lock EXCEPT ![Key(w)] = Dead] ELSE lock
    /\ UNCHANGED <<disp, beat, api>>

CrashDispatcher(d) ==
    /\ disp[d].pc # "idle"
    /\ disp' = [disp EXCEPT ![d] = IdleDispatcher]
    /\ UNCHANGED <<worker, lock, beat, api>>

CrashBeat ==
    /\ beat.pc # "idle"
    /\ beat' = IdleBeat
    /\ UNCHANGED <<worker, lock, disp, api>>

CrashClient(c) ==
    /\ api[c].pc # "idle"
    /\ api' = [api EXCEPT ![c] = IdleClient]
    /\ UNCHANGED <<worker, lock, disp, beat>>

Crash ==
    /\ "crash" \in Failures
    /\ failures < MaxFailures
    /\ failures' = failures + 1
    /\ \/ \E w \in Workers : CrashWorker(w)
       \/ \E d \in Dispatchers : CrashDispatcher(d)
       \/ \E c \in Clients : CrashClient(c)
       \/ CrashBeat
    /\ UNCHANGED <<StoreVars, jobs, wakes, marker, calls, redeliveries>>

LockExpires(k) ==
    /\ lock[k] = Dead
    /\ lock' = [lock EXCEPT ![k] = Free]
    /\ UNCHANGED <<StoreVars, jobs, wakes, marker, disp, worker, ApiVars, beat, FaultVars>>
-----------------------------------------------------------------------------
Dispatch(d) == DispStep(d) /\ UNCHANGED <<ApiVars, beat, FaultVars>>

Work(w) == WorkStep(w) /\ UNCHANGED <<ApiVars, beat, FaultVars>>

Deliver(w, job) == /\ WorkTake(w, job, FALSE)
                   /\ UNCHANGED <<ApiVars, beat, FaultVars>>

Redeliver(w, job) == /\ redeliveries < MaxRedeliveries
                     /\ redeliveries' = redeliveries + 1
                     /\ WorkTake(w, job, TRUE)
                     /\ UNCHANGED <<ApiVars, beat, failures>>

Abort(w) == /\ "exception" \in Failures
            /\ failures < MaxFailures
            /\ failures' = failures + 1
            /\ WorkAborts(w) \/ WorkEmitFails(w)
            /\ UNCHANGED <<ApiVars, beat, redeliveries>>

Call(c) == ApiStep(c) /\ UNCHANGED <<disp, worker, beat, FaultVars>>

Return(c) == ApiFinishes(c) /\ UNCHANGED <<disp, worker, beat, FaultVars>>

Maintain == BeatStep /\ UNCHANGED <<disp, worker, ApiVars, FaultVars>>

Next ==
    \/ \E c \in Clients : Call(c) \/ Return(c)
    \/ \E d \in Dispatchers : Dispatch(d)
    \/ \E w \in Workers : Work(w) \/ Abort(w) \/ \E job \in jobs : Deliver(w, job) \/ Redeliver(w, job)
    \/ Maintain
    \/ TimePasses /\ Untimed
    \/ Crash
    \/ \E k \in Keys : LockExpires(k)

Spec == Init /\ [][Next]_vars

(* Fairness.  Celery keeps taking steps of what it has started, the beat     *)
(* runs on, time passes and messages are delivered.  The broker may refuse a *)
(* submission again and again, but not every one for ever.                   *)
Fairness ==
    /\ \A d \in Dispatchers : /\ WF_vars(Dispatch(d))
                             /\ SF_vars(DispSubmit(d) /\ UNCHANGED <<ApiVars, beat, FaultVars>>)
    /\ \A w \in Workers : /\ WF_vars(Work(w) /\ worker'[w].pc # worker[w].pc)
                         /\ WF_vars(\E job \in jobs : Deliver(w, job))
    /\ \A c \in Clients : WF_vars(Return(c))
    /\ WF_vars(Maintain)
    /\ SF_vars(BeatWake /\ wakes' > wakes /\ UNCHANGED <<disp, worker, ApiVars, FaultVars>>)
    /\ WF_vars(TimePasses /\ Untimed)
    /\ WF_vars(\E k \in Keys : LockExpires(k))

FairSpec == Spec /\ Fairness
=============================================================================
