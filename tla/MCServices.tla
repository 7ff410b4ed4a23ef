------------------------------ MODULE MCServices ------------------------------
(***************************************************************************)
(* What must come to an end outside of the queue, for TLC: the streams of  *)
(* requests, Library uploads, the processing of their files, and webhooks. *)
(* They share no state and no step, so that a behaviour of all of them     *)
(* tells nothing that behaviours of each do not: subject says which one a  *)
(* behaviour follows, the others rest in an initial state.                 *)
(***************************************************************************)
EXTENDS RunEventProperties, LibraryUploads, LibraryProcessing, WebhookDelivery

VARIABLE subject

Subjects == {"streams", "uploads", "processing", "webhooks"}

services == <<subject, vars, uploadVars, processingVars, webhookVars>>

ServicesTypeOK == /\ subject \in Subjects
                  /\ TypeOK /\ UploadsTypeOK /\ ProcessingTypeOK /\ WebhookTypeOK

ServicesInit == /\ subject \in Subjects
                /\ Init /\ UploadsInit /\ ProcessingInit /\ WebhookInit
                /\ subject # "uploads" => files = {}
                /\ subject # "processing" => tabular /\ meta = NoMeta

Follows(name) == subject = name /\ UNCHANGED subject

ServicesNext ==
    \/ Follows("streams") /\ Next /\ UNCHANGED <<uploadVars, processingVars, webhookVars>>
    \/ Follows("uploads") /\ UploadsNext /\ UNCHANGED <<vars, processingVars, webhookVars>>
    \/ Follows("processing") /\ ProcessingNext /\ UNCHANGED <<vars, uploadVars, webhookVars>>
    \/ Follows("webhooks") /\ WebhookNext /\ UNCHANGED <<vars, uploadVars, processingVars>>

(* Fairness.  That of RunEventStream; a request that has begun and a worker    *)
(* that is alive go on, a message in the broker is delivered, and the beat     *)
(* scans the outbox.  Nothing has to be asked for, to expire or to fail.       *)
StreamFairness ==
    /\ WF_vars(subject = "streams" /\ Work)
    /\ WF_vars(subject = "streams" /\ Collect)
    /\ WF_vars(subject = "streams" /\ Persist)
    /\ WF_vars(subject = "streams" /\ PersistFails)
    /\ WF_vars(subject = "streams" /\ Publish)
    /\ WF_vars(subject = "streams" /\ Beat)
    /\ \A r \in Readers : /\ WF_vars(subject = "streams" /\ Replay(r))
                          /\ WF_vars(subject = "streams" /\ Receive(r))

ServicesFairness ==
    /\ StreamFairness
    /\ \A q \in Requests : WF_uploadVars(subject = "uploads" /\ Respond(q))
    /\ \A f \in Finalizers : WF_uploadVars(subject = "uploads" /\ Finalize(f))
    /\ \A x \in Extractors : WF_processingVars(subject = "processing" /\ Extract(x))
    /\ WF_processingVars(subject = "processing" /\ Profile)
    /\ \A w \in Senders : WF_webhookVars(subject = "webhooks" /\ Send(w))
    /\ \A d \in Deliveries : WF_webhookVars(subject = "webhooks" /\ ScanOutbox(d))

ServicesSpec == ServicesInit /\ [][ServicesNext]_services /\ ServicesFairness
=============================================================================
