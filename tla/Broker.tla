------------------------------- MODULE Broker -------------------------------
(***************************************************************************)
(* What the DeepSpace processes share outside PostgreSQL, modelled from    *)
(* how the code uses it: the Celery queues of deepspace.run and            *)
(* deepspace.dispatch_turn_queue, and two kinds of Redis keys, the worker  *)
(* lock of a request and its cancellation marker.                          *)
(***************************************************************************)
EXTENDS TurnQueue

CONSTANTS
    Workers,    \* processes that execute deepspace.run
    MaxWakes    \* bound on dispatch messages waiting; more of them change nothing

ASSUME MaxWakesAssumption == MaxWakes \in Nat \ {0}

VARIABLES
    jobs,       \* deepspace.run messages in the broker
    wakes,      \* number of dispatch_turn_queue messages in the broker
    lock,       \* lock[k]: who holds deepspace:worker-lock:k
    marker      \* marker[k]: the cancellation key of k is set

JobKinds == {"turn", "answer", "approval"}

\* key is client_request_id (the lock and the stream); target is the request
\* whose run resume_user_question_id or resume_approval_id points into.
Jobs == {job \in [kind : JobKinds, key : Keys, target : Requests] :
           job.kind = "turn" => job.key \in Requests}

Free == "free"
Dead == "dead"      \* held by a worker that died; the key lives for a day

ASSUME WorkersAssumption == Free \notin Workers /\ Dead \notin Workers

BrokerTypeOK == /\ jobs \subseteq Jobs
                /\ wakes \in 0..MaxWakes
                /\ lock \in [Keys -> Workers \cup {Free, Dead}]
                /\ marker \in [Keys -> BOOLEAN]

BrokerInit == /\ jobs = {}
              /\ wakes = 0
              /\ lock = [k \in Keys |-> Free]
              /\ marker = [k \in Keys |-> FALSE]

\* Submitting a dispatch is best effort wherever the code does it: the message
\* is added, or the broker is down and the exception is logged.
SubmitWake == wakes' \in {wakes, IF wakes < MaxWakes THEN wakes + 1 ELSE wakes}

\* apply_async of a run: sent, or lost with the exception.  A second identical
\* message is merged with the first; Celery's redelivery covers two of them.
Submit(job) == jobs' \in {jobs, jobs \cup {job}}

\* Setting the marker is best effort too.
SetMarker(k) == marker' \in {marker, [marker EXCEPT ![k] = TRUE]}
=============================================================================
