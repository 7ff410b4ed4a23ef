--------------------------- MODULE WebhookDelivery ---------------------------
(***************************************************************************)
(* Deliveries of document events to one webhook: the outbox rows, the      *)
(* tasks that send them (deliver_document_webhook), the periodic scan of   *)
(* the outbox, the retries of Celery and of an administrator, and the      *)
(* failure count that pauses the subscription.                             *)
(***************************************************************************)
EXTENDS Integers

CONSTANTS
    Deliveries,     \* events for the subscription
    Senders,        \* workers
    MaxFailures,    \* _MAX_FAILURES_BEFORE_DISABLE
    MaxResends,     \* max_retries of the task
    MaxManual,      \* bound on what an administrator does
    MaxStranded     \* bound on lost workers, and on sends that outlast 20 minutes

ASSUME WebhookBounds == /\ MaxFailures \in Nat \ {0}
                        /\ {MaxResends, MaxManual, MaxStranded} \subseteq Nat

VARIABLES
    delivery,       \* document_webhook_deliveries: [status, aged]
    subscription,   \* [active, failures]
    sends,          \* tasks in the broker, by who submitted the first: the event, or
                    \* the outbox scan or an administrator
    sender,         \* per worker: the task it runs and the failures it has loaded
    webhookFaults   \* an administrator's actions, lost workers and aged sends so far

webhookVars == <<delivery, subscription, sends, sender, webhookFaults>>

OpenStatuses == {"queued", "retrying", "delivering"}
Sends == [delivery : Deliveries, tries : 0..MaxResends, by : {"event", "outbox"}]
Quiet == [pc |-> "idle", task |-> {}, failures |-> 0, active |-> TRUE]

WebhookTypeOK ==
    /\ delivery \in [Deliveries -> [status : {"none", "delivered", "failed", "skipped"} \cup OpenStatuses,
                                    aged : BOOLEAN]]
    /\ subscription \in [active : BOOLEAN, failures : Nat]
    /\ sends \subseteq Sends
    /\ sender \in [Senders -> [pc : {"idle", "post"}, task : SUBSET Sends,
                               failures : Nat, active : BOOLEAN]]
    /\ webhookFaults \in [manual : 0..MaxManual, lost : 0..MaxStranded, aged : 0..MaxStranded]

WebhookInit ==
    /\ delivery = [d \in Deliveries |-> [status |-> "none", aged |-> FALSE]]
    /\ subscription = [active |-> TRUE, failures |-> 0]
    /\ sends = {}
    /\ sender = [w \in Senders |-> Quiet]
    /\ webhookFaults = [manual |-> 0, lost |-> 0, aged |-> 0]
-----------------------------------------------------------------------------
Status(d) == delivery[d].status
Sets(d, status) == [delivery EXCEPT ![d].status = status]

\* A task is submitted, or the broker is not available.
Submits(task) == sends' \in {sends, sends \cup {task}}

New(d, by) == [delivery |-> d, tries |-> 0, by |-> by]

\* dispatch_document_webhooks: the row is committed, then its task is submitted; an
\* event that is dispatched again finds its row.
Dispatch(d) ==
    /\ Status(d) = "none" /\ subscription.active
    /\ delivery' = Sets(d, "queued")
    /\ Submits(New(d, "event"))
    /\ UNCHANGED <<subscription, sender, webhookFaults>>

\* Mutation: what is to be retried is left to its task.
DueOnce(d) == Status(d) = "queued"
Due(d) == Status(d) \in {"queued", "retrying"}

\* dispatch_pending_webhook_deliveries: what is queued, or is to be retried by now.
ScanOutbox(d) ==
    /\ Due(d)
    /\ Submits(New(d, "outbox"))
    /\ UNCHANGED <<delivery, subscription, sender, webhookFaults>>

\* Mutations: a delivery that is being sent, or has been, is sent again.
IsUndelivered(d) == Status(d) # "delivered"
IsNotInHand(d) == Status(d) = "delivering" => delivery[d].aged
IsFree(d) == Status(d) # "delivered" /\ (Status(d) = "delivering" => delivery[d].aged)

\* _claim_delivery: not what is delivered, nor what another sender has begun within
\* 20 minutes; a delivery of a paused subscription is skipped.
ClaimDelivery(w, t) ==
    /\ sender[w].pc = "idle"
    /\ sends' = sends \ {t}
    /\ LET d == t.delivery
       IN  \/ /\ subscription.active /\ IsFree(d)
              /\ delivery' = [delivery EXCEPT ![d] = [status |-> "delivering", aged |-> FALSE]]
              /\ sender' = [sender EXCEPT ![w] = [pc |-> "post", task |-> {t}, active |-> TRUE,
                                                  failures |-> subscription.failures]]
           \/ /\ subscription.active /\ ~IsFree(d)
              /\ UNCHANGED <<delivery, sender>>
           \/ /\ ~subscription.active
              /\ delivery' = IF Status(d) = "delivered" THEN delivery ELSE Sets(d, "skipped")
              /\ UNCHANGED sender
    /\ UNCHANGED <<subscription, webhookFaults>>

Task(w) == CHOOSE t \in sender[w].task : TRUE
Frees(w) == sender' = [sender EXCEPT ![w] = Quiet]

\* The session writes what differs from the row as it was loaded for the claim.
WritesSubscription(w, active, failures) ==
    subscription' = [active   |-> IF active = sender[w].active THEN subscription.active ELSE active,
                     failures |-> IF failures = sender[w].failures THEN subscription.failures
                                                                  ELSE failures]

\* The endpoint answers 2xx: the count of failures starts again.
Succeed(w) ==
    /\ sender[w].pc = "post"
    /\ delivery' = Sets(Task(w).delivery, "delivered")
    /\ WritesSubscription(w, TRUE, 0)
    /\ Frees(w)
    /\ UNCHANGED <<sends, webhookFaults>>

\* _record_failure and, when it is to be retried, self.retry.
Fail(w) ==
    /\ sender[w].pc = "post"
    /\ LET t == Task(w)
           failures == sender[w].failures + 1
           pauses == failures >= MaxFailures
           retries == t.tries < MaxResends /\ ~pauses
       IN  /\ delivery' = Sets(t.delivery, IF retries THEN "retrying" ELSE "failed")
           /\ WritesSubscription(w, ~pauses, failures)
           /\ IF retries THEN Submits([t EXCEPT !.tries = @ + 1]) ELSE UNCHANGED sends
    /\ Frees(w)
    /\ UNCHANGED webhookFaults

\* WebhookEndpointError: the subscription is paused at once and nothing is retried.
Block(w) ==
    /\ sender[w].pc = "post"
    /\ delivery' = Sets(Task(w).delivery, "failed")
    /\ WritesSubscription(w, FALSE, sender[w].failures + 1)
    /\ Frees(w)
    /\ UNCHANGED <<sends, webhookFaults>>

\* A lost worker: the task was acknowledged when it was received.
LoseSender(w) ==
    /\ sender[w].pc = "post" /\ webhookFaults.lost < MaxStranded
    /\ webhookFaults' = [webhookFaults EXCEPT !.lost = @ + 1]
    /\ Frees(w)
    /\ UNCHANGED <<delivery, subscription, sends>>

\* 20 minutes pass after a claim.
Age(d) ==
    /\ Status(d) = "delivering" /\ ~delivery[d].aged /\ webhookFaults.aged < MaxStranded
    /\ delivery' = [delivery EXCEPT ![d].aged = TRUE]
    /\ webhookFaults' = [webhookFaults EXCEPT !.aged = @ + 1]
    /\ UNCHANGED <<subscription, sends, sender>>
-----------------------------------------------------------------------------
(* The administrator. *)

Manual == /\ webhookFaults.manual < MaxManual
          /\ webhookFaults' = [webhookFaults EXCEPT !.manual = @ + 1]

\* retry_document_webhook_delivery, also of a delivery that is being sent.
RetryDelivery(d) ==
    /\ Manual /\ subscription.active /\ Status(d) \notin {"none", "delivered"}
    /\ delivery' = Sets(d, "queued")
    /\ Submits(New(d, "outbox"))
    /\ UNCHANGED <<subscription, sender>>

\* update_document_webhook pauses or resumes; rotate_document_webhook_secret
\* resumes and starts the count again.
SetActive ==
    /\ Manual
    /\ \E active \in BOOLEAN, failures \in {0, subscription.failures} :
           /\ failures # subscription.failures => active
           /\ subscription' = [active |-> active, failures |-> failures]
    /\ subscription' # subscription
    /\ UNCHANGED <<delivery, sends, sender>>

Send(w) == (\E t \in sends : ClaimDelivery(w, t)) \/ Succeed(w) \/ Fail(w) \/ Block(w)

WebhookNext ==
    \/ \E d \in Deliveries : Dispatch(d) \/ ScanOutbox(d) \/ RetryDelivery(d) \/ Age(d)
    \/ \E w \in Senders : Send(w) \/ LoseSender(w)
    \/ SetActive

WebhookSpec == WebhookInit /\ [][WebhookNext]_webhookVars
-----------------------------------------------------------------------------
Undisturbed == webhookFaults.manual = 0 /\ webhookFaults.aged = 0

\* "Atomically claim a delivery so an outbox scan and a task cannot double-send it".
OneSender ==
    Undisturbed => \A v, w \in Senders :
        sender[v].pc = "post" /\ sender[w].pc = "post" /\ v # w
        => Task(v).delivery # Task(w).delivery

\* ... and what has been delivered is not sent again by a retry that was underway.
DeliveredIsFinal ==
    [][\A d \in Deliveries : Undisturbed' /\ Status(d) = "delivered"
                             => delivery'[d].status = "delivered"]_webhookVars

\* Every committed delivery is sent until it is delivered, has failed or is skipped,
\* whatever the broker loses, unless a worker was lost while it was sending it.
DeliveriesSettle ==
    \A d \in Deliveries : Status(d) \in OpenStatuses ~> (Status(d) \notin OpenStatuses \/ webhookFaults.lost > 0)
=============================================================================
