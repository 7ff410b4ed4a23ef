----------------------------- MODULE ServiceProofs ----------------------------
(***************************************************************************)
(* The services beside the queue whose safety has a proof: webhook         *)
(* deliveries and the chunked uploads into a Library.                      *)
(***************************************************************************)
EXTENDS LibraryUploads, WebhookDelivery, FiniteSetTheorems, TLAPS

-----------------------------------------------------------------------------
(***************************************************************************)
(* A delivery has one sender and stays delivered, for any number of        *)
(* events, workers, retries and scans, as long as no send outlasts the     *)
(* limit after which it is claimed again and no administrator interferes.  *)
(***************************************************************************)

Posting(w) == sender[w].pc = "post"

\* A sender has exactly one task.
HasTask == \A w \in Senders : Posting(w) => \E t \in Sends : sender[w].task = {t}

\* The row says who may send: what a sender has in hand is "delivering" - or was skipped
\* under it, which only happens once the subscription is paused and nothing is claimed
\* any more - and in the hand of nobody else.
HeldSends ==
    Undisturbed =>
        /\ \A d \in Deliveries : ~delivery[d].aged
        /\ \A w \in Senders : Posting(w) =>
               \/ Status(Task(w).delivery) = "delivering"
               \/ Status(Task(w).delivery) = "skipped" /\ ~subscription.active
        /\ \A v, w \in Senders : Posting(v) /\ Posting(w) /\ Task(v).delivery = Task(w).delivery
                                 => v = w

SendInv == /\ WebhookTypeOK
           /\ \A w \in Senders : sender[w].active
           /\ HasTask
           /\ HeldSends

DeliveryRow == [status : {"none", "delivered", "failed", "skipped"} \cup OpenStatuses, aged : BOOLEAN]
SenderRow == [pc : {"idle", "post"}, task : SUBSET Sends, failures : Nat, active : BOOLEAN]

LEMMA TypeParts ==
    WebhookTypeOK <=> /\ delivery \in [Deliveries -> DeliveryRow]
                      /\ subscription \in [active : BOOLEAN, failures : Nat]
                      /\ sends \subseteq Sends
                      /\ sender \in [Senders -> SenderRow]
                      /\ webhookFaults \in [manual : 0..MaxManual, lost : 0..MaxStranded,
                                            aged : 0..MaxStranded]
BY DEF WebhookTypeOK, DeliveryRow, SenderRow

LEMMA TaskIsSent ==
    ASSUME WebhookTypeOK, HasTask, NEW w \in Senders, Posting(w)
    PROVE  Task(w) \in Sends /\ Task(w).delivery \in Deliveries /\ sender[w].task = {Task(w)}
<1>1. PICK t \in Sends : sender[w].task = {t}
  BY DEF HasTask
<1>2. Task(w) = t
  BY <1>1 DEF Task
<1> QED
  BY <1>1, <1>2 DEF Sends

LEMMA SetsKeepsType ==
    ASSUME delivery \in [Deliveries -> DeliveryRow], NEW d \in Deliveries,
           NEW status \in {"none", "delivered", "failed", "skipped"} \cup OpenStatuses
    PROVE  Sets(d, status) \in [Deliveries -> DeliveryRow]
BY DEF Sets, DeliveryRow

LEMMA FreesKeepsType ==
    ASSUME sender \in [Senders -> SenderRow], NEW w \in Senders, Frees(w)
    PROVE  sender' \in [Senders -> SenderRow]
<1>1. Quiet \in SenderRow
  BY DEF Quiet, SenderRow
<1> QED
  BY <1>1 DEF Frees

LEMMA SubmitsKeepsType ==
    ASSUME sends \subseteq Sends, NEW t \in Sends, Submits(t)
    PROVE  sends' \subseteq Sends
BY DEF Submits

LEMMA WritesKeepsType ==
    ASSUME subscription \in [active : BOOLEAN, failures : Nat],
           NEW w, NEW active \in BOOLEAN, NEW failures \in Nat,
           WritesSubscription(w, active, failures)
    PROVE  subscription' \in [active : BOOLEAN, failures : Nat]
BY DEF WritesSubscription

LEMMA NewIsSent == ASSUME NEW d \in Deliveries, NEW by \in {"event", "outbox"}
                   PROVE  New(d, by) \in Sends
BY WebhookBounds DEF New, Sends

LEMMA WebhookTypeStep ==
    ASSUME WebhookTypeOK, HasTask, [WebhookNext]_webhookVars
    PROVE  WebhookTypeOK'
<1>t. /\ delivery \in [Deliveries -> DeliveryRow]
      /\ subscription \in [active : BOOLEAN, failures : Nat]
      /\ sends \subseteq Sends
      /\ sender \in [Senders -> SenderRow]
      /\ webhookFaults \in [manual : 0..MaxManual, lost : 0..MaxStranded, aged : 0..MaxStranded]
  BY TypeParts
<1> DEFINE Parts == /\ delivery' \in [Deliveries -> DeliveryRow]
                    /\ subscription' \in [active : BOOLEAN, failures : Nat]
                    /\ sends' \subseteq Sends
                    /\ sender' \in [Senders -> SenderRow]
                    /\ webhookFaults' \in [manual : 0..MaxManual, lost : 0..MaxStranded,
                                           aged : 0..MaxStranded]
<1>s. {"queued", "retrying", "delivering"} = OpenStatuses
  BY DEF OpenStatuses
<1> SUFFICES Parts
  BY DEF WebhookTypeOK, DeliveryRow, SenderRow
<1>1. ASSUME NEW d \in Deliveries, Dispatch(d) \/ ScanOutbox(d)
      PROVE  Parts
  BY <1>1, <1>t, <1>s, SetsKeepsType, SubmitsKeepsType, NewIsSent DEF Dispatch, ScanOutbox
<1>2. ASSUME NEW d \in Deliveries, RetryDelivery(d)
      PROVE  Parts
  <2>1. delivery' \in [Deliveries -> DeliveryRow] /\ sends' \subseteq Sends
    BY <1>2, <1>t, <1>s, SetsKeepsType, SubmitsKeepsType, NewIsSent DEF RetryDelivery
  <2>2. webhookFaults' \in [manual : 0..MaxManual, lost : 0..MaxStranded, aged : 0..MaxStranded]
    BY <1>2, <1>t, WebhookBounds DEF RetryDelivery, Manual
  <2> QED
    BY <1>2, <1>t, <2>1, <2>2 DEF RetryDelivery
<1>3. ASSUME NEW d \in Deliveries, Age(d)
      PROVE  Parts
  <2>1. webhookFaults' \in [manual : 0..MaxManual, lost : 0..MaxStranded, aged : 0..MaxStranded]
    BY <1>3, <1>t, WebhookBounds DEF Age
  <2> QED
    BY <1>3, <1>t, <2>1 DEF Age, DeliveryRow
<1>4. ASSUME NEW w \in Senders, NEW t \in sends, ClaimDelivery(w, t)
      PROVE  Parts
  <2>1. t \in Sends /\ t.delivery \in Deliveries
    BY <1>t DEF Sends
  <2>2. delivery' \in [Deliveries -> DeliveryRow]
    <3>1. [status |-> "delivering", aged |-> FALSE] \in DeliveryRow
      BY DEF DeliveryRow, OpenStatuses
    <3> QED
      BY <1>4, <1>t, <2>1, <3>1, SetsKeepsType DEF ClaimDelivery
  <2>3. sender' \in [Senders -> SenderRow]
    <3>1. [pc |-> "post", task |-> {t}, active |-> TRUE, failures |-> subscription.failures]
          \in SenderRow
      BY <1>t, <2>1 DEF SenderRow
    <3> QED
      BY <1>4, <1>t, <3>1 DEF ClaimDelivery
  <2> QED
    BY <1>4, <1>t, <2>2, <2>3 DEF ClaimDelivery
<1>5. ASSUME NEW w \in Senders, Succeed(w) \/ Fail(w) \/ Block(w)
      PROVE  Parts
  <2>1. Task(w) \in Sends /\ Task(w).delivery \in Deliveries
    BY <1>5, TaskIsSent DEF Succeed, Fail, Block, Posting
  <2>2. sender[w].failures \in Nat
    BY <1>t DEF SenderRow
  <2>3. sender' \in [Senders -> SenderRow]
    BY <1>5, <1>t, FreesKeepsType DEF Succeed, Fail, Block
  <2>4. CASE Succeed(w)
    BY <2>4, <1>t, <2>1, <2>3, SetsKeepsType, WritesKeepsType DEF Succeed
  <2>5. CASE Block(w)
    <3>1. sender[w].failures + 1 \in Nat
      BY <2>2
    <3>2. subscription' \in [active : BOOLEAN, failures : Nat]
      BY <2>5, <1>t, <3>1, WritesKeepsType DEF Block
    <3> QED
      BY <2>5, <1>t, <2>1, <2>3, <3>2, SetsKeepsType DEF Block
  <2>6. CASE Fail(w)
    <3>1. delivery' \in [Deliveries -> DeliveryRow]
      BY <2>6, <1>t, <1>s, <2>1, SetsKeepsType DEF Fail
    <3>2. subscription' \in [active : BOOLEAN, failures : Nat]
      <4>1. sender[w].failures + 1 \in Nat
        BY <2>2
      <4>2. \E active \in BOOLEAN : WritesSubscription(w, active, sender[w].failures + 1)
        BY <2>6 DEF Fail
      <4> QED
        BY <1>t, <4>1, <4>2, WritesKeepsType
    <3>3. sends' \subseteq Sends
      <4>1. ASSUME Task(w).tries < MaxResends PROVE [Task(w) EXCEPT !.tries = @ + 1] \in Sends
        BY <4>1, <2>1, WebhookBounds DEF Sends
      <4> QED
        BY <2>6, <1>t, <4>1, SubmitsKeepsType DEF Fail
    <3> QED
      BY <2>6, <1>t, <3>1, <3>2, <3>3, <2>3 DEF Fail
  <2> QED
    BY <1>5, <2>4, <2>5, <2>6
<1>6. ASSUME NEW w \in Senders, LoseSender(w)
      PROVE  Parts
  <2>1. webhookFaults' \in [manual : 0..MaxManual, lost : 0..MaxStranded, aged : 0..MaxStranded]
    BY <1>6, <1>t, WebhookBounds DEF LoseSender
  <2> QED
    BY <1>6, <1>t, <2>1, FreesKeepsType DEF LoseSender
<1>7. CASE SetActive
  <2>1. webhookFaults' \in [manual : 0..MaxManual, lost : 0..MaxStranded, aged : 0..MaxStranded]
    BY <1>7, <1>t, WebhookBounds DEF SetActive, Manual
  <2> QED
    BY <1>7, <1>t, <2>1 DEF SetActive
<1>8. CASE UNCHANGED webhookVars
  BY <1>8, <1>t DEF webhookVars
<1> QED
  BY <1>1, <1>2, <1>3, <1>4, <1>5, <1>6, <1>7, <1>8 DEF WebhookNext, Send
-----------------------------------------------------------------------------
LEMMA HasTaskStep ==
    ASSUME WebhookTypeOK, \A w \in Senders : sender[w].active, HasTask, [WebhookNext]_webhookVars
    PROVE  HasTask' /\ \A w \in Senders : sender'[w].active
<1>t. sender \in [Senders -> SenderRow] /\ sends \subseteq Sends
  BY TypeParts
<1> USE DEF HasTask, Posting
<1>1. ASSUME NEW w \in Senders, NEW t \in sends, ClaimDelivery(w, t)
      PROVE  HasTask' /\ \A v \in Senders : sender'[v].active
  <2>1. CASE UNCHANGED sender
    BY <2>1
  <2>2. CASE sender' = [sender EXCEPT ![w] = [pc |-> "post", task |-> {t}, active |-> TRUE,
                                             failures |-> subscription.failures]]
    BY <2>2, <1>t
  <2> QED
    BY <1>1, <2>1, <2>2 DEF ClaimDelivery
<1>2. ASSUME NEW w \in Senders, Frees(w)
      PROVE  HasTask' /\ \A v \in Senders : sender'[v].active
  BY <1>2, <1>t DEF Frees, Quiet
<1>3. CASE UNCHANGED sender
  BY <1>3
<1> QED
  BY <1>1, <1>2, <1>3 DEF WebhookNext, Send, Dispatch, ScanOutbox, RetryDelivery, Age, Succeed,
     Fail, Block, LoseSender, SetActive, webhookVars

\* A sender that reports sets its own delivery and never wakes a paused subscription.
LEMMA ReportsOwn ==
    ASSUME SendInv, NEW w \in Senders, Succeed(w) \/ Fail(w) \/ Block(w)
    PROVE  /\ Posting(w) /\ Frees(w)
           /\ ~subscription.active => ~subscription'.active
           /\ \E status \in {"delivered", "retrying", "failed"} :
                  delivery' = Sets(Task(w).delivery, status)
<1>1. ASSUME NEW active \in BOOLEAN, NEW failures, WritesSubscription(w, active, failures)
      PROVE  ~subscription.active => ~subscription'.active
  BY <1>1 DEF SendInv, WritesSubscription
<1>2. CASE Succeed(w)
  BY <1>1, <1>2 DEF Succeed, Posting
<1>3. CASE Block(w)
  BY <1>1, <1>3 DEF Block, Posting
<1>4. CASE Fail(w)
  <2>1. \E active \in BOOLEAN : WritesSubscription(w, active, sender[w].failures + 1)
    BY <1>4 DEF Fail
  <2>2. ~subscription.active => ~subscription'.active
    BY <1>1, <2>1
  <2> QED
    BY <1>4, <2>2 DEF Fail, Posting
<1> QED
  BY <1>2, <1>3, <1>4

\* A step that leaves a behaviour undisturbed is none of an administrator's, and no send
\* grows old in it.
LEMMA CalmStep ==
    ASSUME WebhookTypeOK, [WebhookNext]_webhookVars, Undisturbed'
    PROVE  /\ Undisturbed
           /\ ~SetActive
           /\ \A d \in Deliveries : ~RetryDelivery(d) /\ ~Age(d)
<1>t. webhookFaults \in [manual : 0..MaxManual, lost : 0..MaxStranded, aged : 0..MaxStranded]
  BY TypeParts
<1>1. webhookFaults'.manual = 0 /\ webhookFaults'.aged = 0
  BY DEF Undisturbed
<1>2. ~Manual
  BY <1>t, <1>1 DEF Manual
<1>3. ~SetActive /\ \A d \in Deliveries : ~RetryDelivery(d)
  BY <1>2 DEF SetActive, RetryDelivery
<1>4. \A d \in Deliveries : ~Age(d)
  BY <1>t, <1>1 DEF Age
<1>5. \/ UNCHANGED webhookFaults
      \/ webhookFaults' = [webhookFaults EXCEPT !.lost = @ + 1]
  BY <1>3, <1>4 DEF WebhookNext, Dispatch, ScanOutbox, Send, ClaimDelivery, Succeed, Fail, Block,
     LoseSender, webhookVars
<1> QED
  BY <1>t, <1>1, <1>3, <1>4, <1>5 DEF Undisturbed

LEMMA HeldSendsStep ==
    ASSUME SendInv, [WebhookNext]_webhookVars, Undisturbed'
    PROVE  HeldSends'
<1>t. /\ delivery \in [Deliveries -> DeliveryRow] /\ sender \in [Senders -> SenderRow]
      /\ sends \subseteq Sends
  BY TypeParts DEF SendInv
<1>u. Undisturbed /\ ~SetActive /\ \A d \in Deliveries : ~RetryDelivery(d) /\ ~Age(d)
  BY CalmStep DEF SendInv
<1>h. /\ \A d \in Deliveries : ~delivery[d].aged
      /\ \A w \in Senders : Posting(w) =>
               \/ Status(Task(w).delivery) = "delivering"
               \/ Status(Task(w).delivery) = "skipped" /\ ~subscription.active
      /\ \A v, w \in Senders : Posting(v) /\ Posting(w) /\ Task(v).delivery = Task(w).delivery
                               => v = w
  BY <1>u DEF SendInv, HeldSends
<1>k. \A w \in Senders : Posting(w) => Task(w).delivery \in Deliveries
  BY TaskIsSent DEF SendInv
\* Nothing but the rows of some deliveries changes.
<1>r. ASSUME UNCHANGED sender, ~subscription.active => ~subscription'.active,
             \A d \in Deliveries : ~delivery'[d].aged,
             \A w \in Senders : Posting(w) =>
                 \/ delivery'[Task(w).delivery] = delivery[Task(w).delivery]
                 \/ delivery'[Task(w).delivery].status = "skipped" /\ ~subscription'.active
      PROVE  HeldSends'
  <2>1. \A w \in Senders : (Posting(w)' <=> Posting(w)) /\ Task(w)' = Task(w)
    BY <1>r DEF Posting, Task
  <2> QED
    BY <1>r, <1>h, <2>1 DEF HeldSends, Status
<1>1. ASSUME NEW d \in Deliveries, Dispatch(d) \/ ScanOutbox(d)
      PROVE  HeldSends'
  <2>1. CASE Dispatch(d)
    <3>1. \A w \in Senders : Posting(w) => Task(w).delivery # d
      BY <1>h, <2>1 DEF Dispatch
    <3> QED
      BY <2>1, <1>t, <1>h, <1>k, <1>r, <3>1 DEF Dispatch, Sets, DeliveryRow
  <2>2. CASE ScanOutbox(d)
    BY <2>2, <1>h, <1>r DEF ScanOutbox
  <2> QED
    BY <1>1, <2>1, <2>2
<1>2. ASSUME NEW w \in Senders, NEW t \in sends, ClaimDelivery(w, t)
      PROVE  HeldSends'
  <2> DEFINE d == t.delivery
  <2>0. d \in Deliveries
    BY <1>t DEF Sends
  <2>1. CASE /\ subscription.active /\ IsFree(d) /\ UNCHANGED subscription
             /\ delivery' = [delivery EXCEPT ![d] = [status |-> "delivering", aged |-> FALSE]]
             /\ sender' = [sender EXCEPT ![w] = [pc |-> "post", task |-> {t}, active |-> TRUE,
                                                 failures |-> subscription.failures]]
    <3>1. \A v \in Senders : Posting(v) => Task(v).delivery # d
      BY <1>h, <2>0, <2>1 DEF IsFree
    <3>2. Posting(w)' /\ Task(w)' = t
      BY <1>t, <2>1 DEF Posting, Task
    <3>3. \A v \in Senders \ {w} : (Posting(v)' <=> Posting(v)) /\ Task(v)' = Task(v)
      BY <1>t, <2>1 DEF Posting, Task
    <3>4. delivery'[d] = [status |-> "delivering", aged |-> FALSE]
      BY <1>t, <2>0, <2>1
    <3>5. \A e \in Deliveries : e # d => delivery'[e] = delivery[e]
      BY <1>t, <2>1
    <3>6. \A e \in Deliveries : ~delivery'[e].aged
      BY <1>h, <3>4, <3>5
    <3>7. \A v \in Senders : Posting(v)' =>
               \/ (Status(Task(v).delivery) = "delivering")'
               \/ (Status(Task(v).delivery) = "skipped" /\ ~subscription.active)'
      BY <1>h, <1>k, <2>1, <3>1, <3>2, <3>3, <3>4, <3>5 DEF Status
    <3>8. \A v, x \in Senders : Posting(v)' /\ Posting(x)' /\ (Task(v).delivery = Task(x).delivery)'
                                => v = x
      BY <1>h, <3>1, <3>2, <3>3
    <3> QED
      BY <3>6, <3>7, <3>8 DEF HeldSends
  <2>2. CASE UNCHANGED <<delivery, sender, subscription>>
    BY <2>2, <1>h, <1>r
  <2>3. CASE /\ ~subscription.active /\ UNCHANGED <<sender, subscription>>
             /\ delivery' = Sets(d, "skipped")
    BY <2>3, <2>0, <1>t, <1>h, <1>k, <1>r DEF Sets, DeliveryRow
  <2> QED
    BY <1>2, <2>1, <2>2, <2>3 DEF ClaimDelivery
<1>3. ASSUME NEW w \in Senders, Frees(w), Posting(w),
             ~subscription.active => ~subscription'.active,
             \/ UNCHANGED <<delivery, subscription>>
             \/ \E status \in {"delivered", "retrying", "failed"} :
                    delivery' = Sets(Task(w).delivery, status)
      PROVE  HeldSends'
  <2>1. ~Posting(w)'
    BY <1>3, <1>t DEF Frees, Posting, Quiet
  <2>2. \A v \in Senders \ {w} : (Posting(v)' <=> Posting(v)) /\ Task(v)' = Task(v)
    BY <1>3, <1>t DEF Frees, Posting, Task
  <2>3. \A e \in Deliveries : e # Task(w).delivery => delivery'[e] = delivery[e]
    BY <1>3, <1>t DEF Sets
  <2>4. \A e \in Deliveries : ~delivery'[e].aged
    BY <1>3, <1>t, <1>h, <1>k DEF Sets, DeliveryRow
  <2>5. \A v \in Senders : Posting(v)' => Task(v)'.delivery \in Deliveries
                                         /\ Task(v)'.delivery # Task(w).delivery
    BY <1>3, <1>h, <1>k, <2>1, <2>2
  <2>6. \A v \in Senders : Posting(v)' =>
               \/ (Status(Task(v).delivery) = "delivering")'
               \/ (Status(Task(v).delivery) = "skipped" /\ ~subscription.active)'
    BY <1>3, <1>h, <2>1, <2>2, <2>3, <2>5 DEF Status
  <2>7. \A v, x \in Senders : Posting(v)' /\ Posting(x)' /\ (Task(v).delivery = Task(x).delivery)'
                              => v = x
    BY <1>h, <2>1, <2>2
  <2> QED
    BY <2>4, <2>6, <2>7 DEF HeldSends
<1>4. ASSUME NEW w \in Senders, Succeed(w) \/ Fail(w) \/ Block(w)
      PROVE  HeldSends'
  BY <1>3, <1>4, ReportsOwn
<1>5. ASSUME NEW w \in Senders, LoseSender(w)
      PROVE  HeldSends'
  BY <1>3, <1>5 DEF LoseSender, Posting
<1>6. CASE UNCHANGED webhookVars
  BY <1>6, <1>h, <1>r DEF webhookVars
<1> QED
  BY <1>u, <1>1, <1>2, <1>4, <1>5, <1>6 DEF WebhookNext, Send

LEMMA SendInvInit == WebhookInit => SendInv
<1> SUFFICES ASSUME WebhookInit PROVE SendInv
  OBVIOUS
<1>1. delivery \in [Deliveries -> DeliveryRow]
  BY DEF WebhookInit, DeliveryRow
<1>2. sender \in [Senders -> SenderRow]
  BY DEF WebhookInit, SenderRow, Quiet
<1>3. WebhookTypeOK
  BY <1>1, <1>2, TypeParts, WebhookBounds DEF WebhookInit
<1>4. \A w \in Senders : sender[w].active /\ ~Posting(w)
  BY DEF WebhookInit, Quiet, Posting
<1>5. \A d \in Deliveries : ~delivery[d].aged
  BY DEF WebhookInit
<1> QED
  BY <1>3, <1>4, <1>5 DEF SendInv, HasTask, HeldSends

LEMMA SendInvStep == SendInv /\ [WebhookNext]_webhookVars => SendInv'
<1> SUFFICES ASSUME SendInv, [WebhookNext]_webhookVars PROVE SendInv'
  OBVIOUS
<1>1. CASE Undisturbed'
  BY <1>1, WebhookTypeStep, HasTaskStep, HeldSendsStep DEF SendInv
<1>2. CASE ~Undisturbed'
  <2>1. HeldSends'
    BY <1>2 DEF HeldSends
  <2> QED
    BY <2>1, WebhookTypeStep, HasTaskStep DEF SendInv
<1> QED
  BY <1>1, <1>2

\* Two senders never have the same delivery in hand.
THEOREM SendersExclude == WebhookSpec => []OneSender
<1>1. SendInv => OneSender
  BY DEF SendInv, HeldSends, OneSender, Posting
<1> QED
  BY <1>1, SendInvInit, SendInvStep, PTL DEF WebhookSpec

\* What has been delivered stays delivered: no retry, scan or late failure re-opens it.
THEOREM DeliveredStays == WebhookSpec => DeliveredIsFinal
<1> DEFINE Kept == \A d \in Deliveries : Undisturbed' /\ Status(d) = "delivered"
                                         => delivery'[d].status = "delivered"
<1>1. SendInv /\ [WebhookNext]_webhookVars => Kept
  <2> SUFFICES ASSUME SendInv, [WebhookNext]_webhookVars, Undisturbed',
                      NEW d \in Deliveries, Status(d) = "delivered"
               PROVE  delivery'[d].status = "delivered"
    OBVIOUS
  <2>t. delivery \in [Deliveries -> DeliveryRow] /\ sends \subseteq Sends
    BY TypeParts DEF SendInv
  <2>u. Undisturbed /\ ~SetActive /\ \A e \in Deliveries : ~RetryDelivery(e) /\ ~Age(e)
    BY CalmStep DEF SendInv
  <2>1. ASSUME NEW e \in Deliveries, Dispatch(e) \/ ScanOutbox(e)
        PROVE  delivery'[d].status = "delivered"
    BY <2>1, <2>t DEF Dispatch, ScanOutbox, Sets, Status
  <2>2. ASSUME NEW w \in Senders, NEW t \in sends, ClaimDelivery(w, t)
        PROVE  delivery'[d].status = "delivered"
    BY <2>2, <2>t DEF ClaimDelivery, IsFree, Sets, Status
  <2>3. ASSUME NEW w \in Senders, Succeed(w) \/ Fail(w) \/ Block(w)
        PROVE  delivery'[d].status = "delivered"
    <3>1. Posting(w) /\ \E status : delivery' = Sets(Task(w).delivery, status)
      BY <2>3, ReportsOwn
    <3>2. Task(w).delivery # d
      BY <2>u, <3>1 DEF SendInv, HeldSends
    <3> QED
      BY <2>t, <3>1, <3>2 DEF Sets, Status
  <2>4. ASSUME NEW w \in Senders, LoseSender(w)
        PROVE  delivery'[d].status = "delivered"
    BY <2>4 DEF LoseSender, Status
  <2>5. CASE UNCHANGED webhookVars
    BY <2>5 DEF webhookVars, Status
  <2> QED
    BY <2>u, <2>1, <2>2, <2>3, <2>4, <2>5 DEF WebhookNext, Send
<1> HIDE DEF Kept
<1>3. WebhookSpec => []SendInv
  BY SendInvInit, SendInvStep, PTL DEF WebhookSpec
<1>4. WebhookSpec => [][Kept]_webhookVars
  BY <1>1, <1>3, PTL DEF WebhookSpec
<1> QED
  BY <1>4 DEF DeliveredIsFinal, Kept
-----------------------------------------------------------------------------
(***************************************************************************)
(* Uploads: a file is published once, the chunks of what is settled are    *)
(* deleted, and stored originals are not forgotten, for any number of      *)
(* uploads, requests, workers, lost workers and errors. The invariant ties *)
(* each request to the row it has read, each worker to a message no other  *)
(* one runs, and each upload with chunks to somebody who still comes for   *)
(* them, or to an error.                                                   *)
(***************************************************************************)

UploadFields    == {"status", "received", "name", "rename", "file"}
RequestFields   == {"op", "upload", "row", "chunk", "number"}
FinalizerFields == {"pc", "task", "name", "file"}
FaultCounts     == [requests : Int, stale : Nat, lost : Nat, errors : Nat, kept : SUBSET Uploads]

UploadParts ==
    /\ DOMAIN upload = Uploads /\ \A u \in Uploads : DOMAIN upload[u] = UploadFields
    /\ DOMAIN chunks = Uploads
    /\ DOMAIN request = Requests
    /\ \A q \in Requests : DOMAIN request[q] = RequestFields
    /\ DOMAIN finalizer = Finalizers
    /\ \A f \in Finalizers : DOMAIN finalizer[f] = FinalizerFields
    /\ uploadFaults \in FaultCounts

\* A request has read a row that was not settled, and its session still holds it.
Loaded(q) == request[q].op # "none" =>
    /\ request[q].upload \in Uploads
    /\ DOMAIN request[q].row = UploadFields
    /\ request[q].row.status \notin {"none", "completed", "cancelled"}

\* A worker runs a message that is not acknowledged, and no other one runs it.
Runs(f) == finalizer[f].pc # "idle" =>
    /\ finalizer[f].task \in tasks
    /\ \A g \in Finalizers : g # f /\ finalizer[g].pc # "idle" => finalizer[g].task # finalizer[f].task

ServesTasks == /\ \A t \in tasks : DOMAIN t = {"upload", "number", "tries"} /\ t.upload \in Uploads
               /\ \A f \in Finalizers : Runs(f)

\* An upload that has its file is completed, and somebody comes for the chunks of one that
\* is settled, unless an error has kept them.
Kept(u) ==
    /\ upload[u].file # NoFile => upload[u].status = "completed"
    /\ upload[u].status \in Settled /\ chunks[u] # {} /\ u \notin uploadFaults.kept =>
           \/ \E q \in Requests : request[q].op # "none" /\ request[q].upload = u
           \/ \E t \in tasks : t.upload = u

\* A worker that takes its object back finds the upload as settled as it was.
Sees(f) == /\ finalizer[f].pc = "discard" => IsOver(finalizer[f].task.upload)
           /\ finalizer[f].pc # "end"

UploadInv == /\ UploadParts /\ ServesTasks
             /\ \A q \in Requests : Loaded(q)
             /\ Serial => /\ \A u \in Uploads : Kept(u)
                          /\ \A f \in Finalizers : Sees(f)

LEMMA UploadStart == UploadsInit => UploadInv
<1> SUFFICES ASSUME UploadsInit PROVE UploadInv
  OBVIOUS
<1>1. DOMAIN NoUpload = UploadFields /\ NoUpload.file = NoFile
  BY DEF NoUpload, UploadFields
<1>2. DOMAIN NoRequest = RequestFields /\ NoRequest.op = "none"
  BY DEF NoRequest, RequestFields
<1>3. DOMAIN IdleFinalizer = FinalizerFields /\ IdleFinalizer.pc = "idle"
  BY DEF IdleFinalizer, FinalizerFields
<1>4. /\ DOMAIN upload = Uploads /\ \A u \in Uploads : upload[u] = NoUpload
      /\ DOMAIN chunks = Uploads /\ \A u \in Uploads : chunks[u] = {}
      /\ DOMAIN request = Requests /\ \A q \in Requests : request[q] = NoRequest
      /\ DOMAIN finalizer = Finalizers /\ \A f \in Finalizers : finalizer[f] = IdleFinalizer
      /\ tasks = {}
      /\ uploadFaults = [requests |-> 0, stale |-> 0, lost |-> 0, errors |-> 0, kept |-> {}]
  BY DEF UploadsInit
<1>5. UploadParts
  BY <1>1, <1>2, <1>3, <1>4 DEF UploadParts, FaultCounts
<1>6. ServesTasks /\ \A q \in Requests : Loaded(q)
  BY <1>2, <1>3, <1>4 DEF ServesTasks, Runs, Loaded
<1>7. /\ \A u \in Uploads : Kept(u)
      /\ \A f \in Finalizers : Sees(f)
  BY <1>1, <1>3, <1>4 DEF Kept, Sees
<1> QED
  BY <1>5, <1>6, <1>7 DEF UploadInv

\* What is settled for good stays so, and a worker takes back the object of no other upload.
LEMMA StillSees ==
    ASSUME UploadInv, Serial, \A u \in Uploads : IsOver(u) => IsOver(u)',
           NEW f \in Finalizers, NEW new,
           finalizer' = finalizer \/ finalizer' = [finalizer EXCEPT ![f] = new],
           new.pc # "end",
           new.pc = "discard" => new.task.upload \in Uploads /\ IsOver(new.task.upload)
    PROVE  \A g \in Finalizers : Sees(g)'
<1> SUFFICES ASSUME NEW g \in Finalizers PROVE Sees(g)'
  OBVIOUS
<1>1. /\ DOMAIN finalizer = Finalizers /\ Sees(g) /\ Runs(g)
      /\ \A t \in tasks : t.upload \in Uploads
  BY DEF UploadInv, UploadParts, ServesTasks
<1>2. finalizer[g].pc = "discard" => finalizer[g].task.upload \in Uploads
  BY <1>1 DEF Runs
<1>3. CASE finalizer'[g] = finalizer[g]
  BY <1>1, <1>2, <1>3 DEF Sees
<1>4. CASE finalizer'[g] = new
  BY <1>4 DEF Sees
<1> QED
  BY <1>1, <1>3, <1>4

LEMMA SameSees ==
    ASSUME UploadInv, Serial, \A u \in Uploads : IsOver(u) => IsOver(u)', finalizer' = finalizer
    PROVE  \A g \in Finalizers : Sees(g)'
<1>1. IdleFinalizer.pc = "idle"
  BY DEF IdleFinalizer
<1> QED
  BY <1>1, StillSees

\* The fields of the counts that an error changes.
LEMMA Counted ==
    ASSUME uploadFaults \in FaultCounts, NEW kept \in SUBSET Uploads, Errs(kept)
    PROVE  /\ uploadFaults' \in FaultCounts /\ uploadFaults'.kept = kept
           /\ uploadFaults'.stale = uploadFaults.stale /\ uploadFaults'.lost = uploadFaults.lost
           /\ uploadFaults'.errors = uploadFaults.errors + 1
<1>1. PICK errors : errors = uploadFaults.errors + 1
  OBVIOUS
<1>2. errors \in Nat
  BY <1>1 DEF FaultCounts
<1>3. PICK one : one = [uploadFaults EXCEPT !.errors = errors]
  OBVIOUS
<1>4. /\ one \in FaultCounts /\ one.errors = errors
      /\ one.stale = uploadFaults.stale /\ one.lost = uploadFaults.lost
  BY <1>2, <1>3 DEF FaultCounts
<1>5. uploadFaults' = [one EXCEPT !.kept = kept]
  BY <1>1, <1>3 DEF Errs
<1>6. /\ uploadFaults' \in FaultCounts /\ uploadFaults'.kept = kept
      /\ uploadFaults'.errors = errors
      /\ uploadFaults'.stale = one.stale /\ uploadFaults'.lost = one.lost
  BY <1>4, <1>5 DEF FaultCounts
<1> QED
  BY <1>1, <1>4, <1>6

\* Deletions of chunks: nothing is left, or an error is known.
LEMMA Deleted ==
    ASSUME UploadInv, NEW u \in Uploads, DeletesChunks(u)
    PROVE  /\ DOMAIN chunks' = Uploads
           /\ \A v \in Uploads : v # u => chunks'[v] = chunks[v]
           /\ chunks'[u] = {} \/ u \in uploadFaults'.kept
           /\ \A v \in Uploads : v # u /\ v \in uploadFaults.kept => v \in uploadFaults'.kept
           /\ uploadFaults' \in FaultCounts
           /\ uploadFaults'.stale = uploadFaults.stale /\ uploadFaults'.lost = uploadFaults.lost
           /\ uploadFaults'.errors \in {uploadFaults.errors, uploadFaults.errors + 1}
<1>1. DOMAIN chunks = Uploads /\ uploadFaults \in FaultCounts
  BY DEF UploadInv, UploadParts
<1>2. CASE /\ chunks' = NoChunks(u)
           /\ uploadFaults' = [uploadFaults EXCEPT !.kept = @ \ {u}]
  BY <1>1, <1>2 DEF NoChunks, FaultCounts
<1>3. CASE \E left \in SUBSET chunks[u] \ {{}} :
               /\ chunks' = [chunks EXCEPT ![u] = left]
               /\ Errs(uploadFaults.kept \cup {u})
  <2>1. /\ DOMAIN chunks' = Uploads
        /\ \A v \in Uploads : v # u => chunks'[v] = chunks[v]
    BY <1>1, <1>3
  <2>2. PICK kept : kept = uploadFaults.kept \cup {u}
    OBVIOUS
  <2>3. kept \in SUBSET Uploads
    BY <1>1, <2>2 DEF FaultCounts
  <2>4. Errs(kept)
    BY <1>3, <2>2
  <2>5. /\ uploadFaults' \in FaultCounts /\ uploadFaults'.kept = kept
        /\ uploadFaults'.stale = uploadFaults.stale /\ uploadFaults'.lost = uploadFaults.lost
        /\ uploadFaults'.errors = uploadFaults.errors + 1
    BY <1>1, <2>3, <2>4, Counted
  <2> QED
    BY <2>1, <2>2, <2>5
<1> QED
  BY <1>2, <1>3 DEF DeletesChunks

\* Any other error.
LEMMA Erred ==
    ASSUME UploadInv, Errs(uploadFaults.kept)
    PROVE  /\ uploadFaults' \in FaultCounts
           /\ uploadFaults'.stale = uploadFaults.stale /\ uploadFaults'.lost = uploadFaults.lost
           /\ uploadFaults'.errors = uploadFaults.errors + 1
           /\ uploadFaults'.kept = uploadFaults.kept
<1>1. PICK kept : kept = uploadFaults.kept
  OBVIOUS
<1>2. uploadFaults \in FaultCounts /\ kept \in SUBSET Uploads /\ Errs(kept)
  BY <1>1 DEF UploadInv, UploadParts, FaultCounts
<1> QED
  BY <1>1, <1>2, Counted

\* The fields of a row that two assignments change.
LEMMA TwoFields ==
    ASSUME NEW u, NEW new, DOMAIN upload = Uploads,
           \A v \in Uploads : DOMAIN upload[v] = UploadFields,
           NEW status, NEW received,
           new = [upload EXCEPT ![u].status = status, ![u].received = received]
    PROVE  /\ DOMAIN new = Uploads
           /\ \A v \in Uploads : v # u => new[v] = upload[v]
           /\ \A v \in Uploads : DOMAIN new[v] = UploadFields
           /\ \A v \in Uploads : new[v].file = upload[v].file
           /\ u \in Uploads => new[u].status = status
<1>1. PICK row : row = [upload[u] EXCEPT !.status = status]
  OBVIOUS
<1>2. PICK next : next = [row EXCEPT !.received = received]
  OBVIOUS
<1>3. u \in Uploads => /\ DOMAIN next = UploadFields /\ next.status = status
                       /\ next.file = upload[u].file
  BY <1>1, <1>2 DEF UploadFields
<1>4. PICK half : half = [upload EXCEPT ![u].status = status]
  OBVIOUS
<1>5. new = [half EXCEPT ![u].received = received]
  BY <1>4
<1>6. /\ DOMAIN half = Uploads /\ \A v \in Uploads : v # u => half[v] = upload[v]
      /\ u \in Uploads => half[u] = row
  BY <1>1, <1>4
<1>7. /\ DOMAIN new = Uploads /\ \A v \in Uploads : v # u => new[v] = upload[v]
      /\ u \in Uploads => new[u] = next
  BY <1>2, <1>5, <1>6
<1> QED
  BY <1>3, <1>7

\* What a request writes over a row that has not changed is the row it asked for; over
\* another row it leaves the upload in nobody's care.
LEMMA Written ==
    ASSUME UploadInv, NEW q \in Requests, request[q].op # "none", NEW row, Writes(q, row)
    PROVE  /\ DOMAIN upload' = Uploads
           /\ \A v \in Uploads : v # request[q].upload => upload'[v] = upload[v]
           /\ \A v \in Uploads : DOMAIN upload'[v] = UploadFields
           /\ uploadFaults' \in FaultCounts
           /\ uploadFaults'.lost = uploadFaults.lost
           /\ uploadFaults'.errors = uploadFaults.errors
           /\ uploadFaults.kept \subseteq uploadFaults'.kept
           /\ row.status = "failed" => request[q].upload \in uploadFaults'.kept
           /\ Serial' => /\ Serial /\ upload[request[q].upload] = request[q].row
                         /\ upload'[request[q].upload].status = row.status
                         /\ upload'[request[q].upload].file = NoFile
                         /\ ~IsOver(request[q].upload)
<1> DEFINE u == request[q].upload
           old == request[q].row
           status == IF row.status # old.status THEN row.status ELSE upload[u].status
<1>1. Loaded(q) /\ UploadParts
  BY DEF UploadInv
<1>2. u \in Uploads /\ old.status \notin {"none", "completed", "cancelled"}
  BY <1>1 DEF Loaded
<1>3. PICK half : half = [upload EXCEPT ![u].status = status]
  OBVIOUS
<1>4. upload' = [half EXCEPT ![u].received = IF row.received # old.received THEN row.received ELSE @]
  BY <1>3 DEF Writes
<1>5. PICK received : received = IF row.received # old.received THEN row.received ELSE half[u].received
  OBVIOUS
<1>6. upload' = [upload EXCEPT ![u].status = status, ![u].received = received]
  BY <1>3, <1>4, <1>5
<1> HIDE DEF status
<1>7. /\ DOMAIN upload' = Uploads
      /\ \A v \in Uploads : v # u => upload'[v] = upload[v]
      /\ \A v \in Uploads : DOMAIN upload'[v] = UploadFields
      /\ upload'[u].file = upload[u].file
      /\ upload'[u].status = status
  BY <1>1, <1>2, <1>6, TwoFields DEF UploadParts
<1>8. PICK stale : stale = IF upload[u] = old THEN uploadFaults.stale ELSE uploadFaults.stale + 1
  OBVIOUS
<1>12. PICK kept : kept = IF row.status = "failed" THEN uploadFaults.kept \cup {u}
                          ELSE uploadFaults.kept
  OBVIOUS
<1>13. uploadFaults \in FaultCounts
  BY <1>1 DEF UploadParts
<1>14. uploadFaults' = [uploadFaults EXCEPT !.stale = stale, !.kept = kept]
  <2>1. PICK one : one = [uploadFaults EXCEPT !.stale = stale]
    OBVIOUS
  <2>2. one.kept = uploadFaults.kept
    BY <1>13, <2>1 DEF FaultCounts
  <2>3. uploadFaults' = [one EXCEPT !.kept = IF row.status = "failed" THEN @ \cup {u} ELSE @]
    BY <1>8, <2>1 DEF Writes
  <2> QED
    BY <1>12, <2>1, <2>2, <2>3
<1>15. stale \in Nat /\ kept \in SUBSET Uploads
  BY <1>2, <1>8, <1>12, <1>13 DEF FaultCounts
<1>16. /\ uploadFaults' \in FaultCounts
       /\ uploadFaults'.lost = uploadFaults.lost /\ uploadFaults'.errors = uploadFaults.errors
       /\ uploadFaults'.stale = stale /\ uploadFaults'.kept = kept
  BY <1>13, <1>14, <1>15 DEF FaultCounts
<1>9. /\ uploadFaults.kept \subseteq uploadFaults'.kept
      /\ row.status = "failed" => u \in uploadFaults'.kept
      /\ uploadFaults'.stale = 0 => uploadFaults.stale = 0 /\ upload[u] = old
  BY <1>8, <1>12, <1>13, <1>16 DEF FaultCounts
<1>10. ASSUME Serial' PROVE /\ Serial /\ upload[u] = old /\ upload'[u].status = row.status
                            /\ upload'[u].file = NoFile /\ ~IsOver(u)
  <2>1. Serial /\ upload[u] = old
    BY <1>9, <1>10 DEF Serial
  <2>2. Kept(u)
    BY <1>2, <2>1 DEF UploadInv
  <2>3. upload[u].file = NoFile
    BY <1>2, <2>1, <2>2 DEF Kept
  <2> QED
    BY <1>2, <1>7, <2>1, <2>3 DEF status, IsOver
<1> QED
  BY <1>7, <1>9, <1>10, <1>16

LEMMA CreatesKept ==
    ASSUME UploadInv, NEW u \in Uploads, NEW rename \in BOOLEAN, CreateUpload(u, rename)
    PROVE  UploadInv'
<1>1. PICK name : name = Unique(1, Reserved(u))
  OBVIOUS
<1>2. PICK new : new = [NoUpload EXCEPT !.status = "pending", !.rename = rename, !.name = name]
  OBVIOUS
<1>3. /\ upload' = [upload EXCEPT ![u] = new]
      /\ UNCHANGED <<chunks, files, objects, tasks, request, finalizer, uploadFaults>>
  BY <1>1, <1>2 DEF CreateUpload
<1>4. DOMAIN new = UploadFields /\ new.file = NoFile /\ new.status = "pending"
  BY <1>2 DEF NoUpload, UploadFields
<1>5. /\ DOMAIN upload' = Uploads /\ upload'[u] = new
      /\ \A v \in Uploads : v # u => upload'[v] = upload[v]
  BY <1>3 DEF UploadInv, UploadParts
<1>6. UploadParts'
  BY <1>3, <1>4, <1>5 DEF UploadInv, UploadParts
<1>7. ServesTasks' /\ \A q \in Requests : Loaded(q)'
  BY <1>3 DEF UploadInv, ServesTasks, Runs, Loaded
<1>8. ASSUME Serial', NEW v \in Uploads PROVE Kept(v)'
  BY <1>3, <1>4, <1>5, <1>8 DEF UploadInv, Kept, Serial, Settled
<1>9. ASSUME Serial' PROVE \A g \in Finalizers : Sees(g)'
  <2>1. \A v \in Uploads : IsOver(v) => IsOver(v)'
    BY <1>5 DEF CreateUpload, IsOver
  <2> QED
    BY <1>3, <1>9, <2>1, SameSees DEF Serial
<1> QED
  BY <1>6, <1>7, <1>8, <1>9 DEF UploadInv

LEMMA ReadsKept ==
    ASSUME UploadInv, NEW q \in Requests, NEW u \in Uploads,
           (\E c \in Chunks : PutChunk(q, u, c)) \/ Complete(q, u) \/ Cancel(q, u)
    PROVE  UploadInv'
<1>1. PICK op \in {"chunk", "complete", "cancel"} : \E chunk : Reads(q, op, u, chunk)
  BY DEF PutChunk, Complete, Cancel
<1>2. upload[u].status \notin {"none", "completed", "cancelled"}
  BY DEF PutChunk, Complete, Cancel
<1>3. PICK chunk : Reads(q, op, u, chunk)
  BY <1>1
<1>4. PICK new : new = [op |-> op, upload |-> u, row |-> upload[u], chunk |-> chunk,
                        number |-> uploadFaults'.requests]
  OBVIOUS
<1>5. /\ request' = [request EXCEPT ![q] = new] /\ request[q].op = "none"
      /\ uploadFaults' = [uploadFaults EXCEPT !.requests = @ + 1]
      /\ UNCHANGED <<upload, chunks, files, objects, tasks, finalizer>>
  BY <1>3, <1>4 DEF Reads
<1>6. DOMAIN new = RequestFields /\ new.op = op /\ new.upload = u /\ new.row = upload[u]
  BY <1>4 DEF RequestFields
<1>7. /\ DOMAIN request' = Requests /\ request'[q] = new
      /\ \A o \in Requests : o # q => request'[o] = request[o]
  BY <1>5 DEF UploadInv, UploadParts
<1>8. /\ uploadFaults' \in FaultCounts
      /\ uploadFaults'.stale = uploadFaults.stale /\ uploadFaults'.kept = uploadFaults.kept
  BY <1>5 DEF UploadInv, UploadParts, FaultCounts
<1>9. UploadParts'
  BY <1>5, <1>6, <1>7, <1>8 DEF UploadInv, UploadParts
<1>10. ServesTasks'
  BY <1>5 DEF UploadInv, ServesTasks, Runs
<1>11. ASSUME NEW o \in Requests PROVE Loaded(o)'
  <2>1. CASE o = q
    BY <1>2, <1>6, <1>7, <2>1 DEF UploadInv, UploadParts, Loaded
  <2>2. CASE o # q
    BY <1>7, <2>2 DEF UploadInv, Loaded
  <2> QED
    BY <2>1, <2>2
<1>12. ASSUME Serial', NEW v \in Uploads PROVE Kept(v)'
  <2>1. Kept(v)
    BY <1>8, <1>12 DEF UploadInv, Serial
  <2>2. ASSUME NEW o \in Requests, request[o].op # "none", request[o].upload = v
        PROVE  request'[o].op # "none" /\ request'[o].upload = v
    BY <1>5, <1>7, <2>2
  <2> QED
    BY <1>5, <1>8, <2>1, <2>2 DEF Kept
<1>13. ASSUME Serial' PROVE \A g \in Finalizers : Sees(g)'
  BY <1>5, <1>8, <1>13, SameSees DEF Serial, IsOver
<1> QED
  BY <1>9, <1>10, <1>11, <1>12, <1>13 DEF UploadInv

\* A request that ends, or goes on with the same upload.
LEMMA RequestParts ==
    ASSUME UploadInv, NEW q \in Requests, NEW new,
           request' = [request EXCEPT ![q] = new], DOMAIN new = RequestFields,
           \/ new.op = "none"
           \/ /\ request[q].op # "none" /\ new.upload = request[q].upload
              /\ DOMAIN new.row = UploadFields
              /\ new.row.status \notin {"none", "completed", "cancelled"}
    PROVE  /\ DOMAIN request' = Requests
           /\ \A o \in Requests : DOMAIN request'[o] = RequestFields
           /\ \A o \in Requests : Loaded(o)'
           /\ \A o \in Requests : o # q => request'[o] = request[o]
           /\ request'[q] = new
<1>1. /\ DOMAIN request' = Requests /\ request'[q] = new
      /\ \A o \in Requests : o # q => request'[o] = request[o]
  BY DEF UploadInv, UploadParts
<1>2. ASSUME NEW o \in Requests PROVE Loaded(o)' /\ DOMAIN request'[o] = RequestFields
  <2>1. CASE o = q
    BY <1>1, <2>1 DEF UploadInv, Loaded
  <2>2. CASE o # q
    BY <1>1, <2>2 DEF UploadInv, UploadParts, Loaded
  <2> QED
    BY <2>1, <2>2
<1> QED
  BY <1>1, <1>2

LEMMA EndedRequest == DOMAIN NoRequest = RequestFields /\ NoRequest.op = "none"
BY DEF NoRequest, RequestFields

\* The chunk of a request that has been stored waits for the row of that request.
LEMMA StoresKept ==
    ASSUME UploadInv, NEW q \in Requests, StoreChunk(q)
    PROVE  UploadInv'
<1> DEFINE u == request[q].upload
<1>1. PICK new : new = [request[q] EXCEPT !.op = "stored"]
  OBVIOUS
<1>2. /\ request[q].op = "chunk" /\ request' = [request EXCEPT ![q] = new]
      /\ chunks' = [chunks EXCEPT ![u] = @ \cup request[q].chunk]
      /\ UNCHANGED <<upload, files, objects, tasks, finalizer, uploadFaults>>
  BY <1>1 DEF StoreChunk
<1>3. UploadParts /\ Loaded(q) /\ DOMAIN request[q] = RequestFields
  BY DEF UploadInv, UploadParts
<1>4. /\ DOMAIN new = RequestFields /\ new.op = "stored" /\ new.upload = u
      /\ new.row = request[q].row
  BY <1>1, <1>3 DEF RequestFields
<1>5. /\ DOMAIN request' = Requests /\ request'[q] = new
      /\ \A o \in Requests : DOMAIN request'[o] = RequestFields
      /\ \A o \in Requests : Loaded(o)'
      /\ \A o \in Requests : o # q => request'[o] = request[o]
  BY <1>2, <1>3, <1>4, RequestParts DEF Loaded
<1>6. /\ DOMAIN chunks' = Uploads
      /\ \A v \in Uploads : v # u => chunks'[v] = chunks[v]
  BY <1>2, <1>3 DEF UploadParts
<1>7. UploadParts' /\ ServesTasks'
  BY <1>2, <1>5, <1>6 DEF UploadInv, UploadParts, ServesTasks, Runs
<1>8. ASSUME Serial', NEW v \in Uploads PROVE Kept(v)'
  <2>1. Kept(v)
    BY <1>2, <1>8 DEF UploadInv, Serial
  <2>2. CASE v = u
    <3>1. request'[q].op # "none" /\ request'[q].upload = v
      BY <1>4, <1>5, <2>2
    <3> QED
      BY <1>2, <2>1, <3>1 DEF Kept
  <2>3. CASE v # u
    <3>1. ASSUME NEW o \in Requests, request[o].op # "none", request[o].upload = v
          PROVE  request'[o].op # "none" /\ request'[o].upload = v
      BY <1>5, <2>3, <3>1
    <3> QED
      BY <1>2, <1>6, <2>1, <2>3, <3>1 DEF Kept
  <2> QED
    BY <2>2, <2>3
<1>9. ASSUME Serial' PROVE \A g \in Finalizers : Sees(g)'
  BY <1>2, <1>9, SameSees DEF Serial, IsOver
<1> QED
  BY <1>5, <1>7, <1>8, <1>9 DEF UploadInv

\* A request that writes its row: the upload is not settled then, the request goes on to
\* its chunks, it has failed to submit, or nobody knows any more.
LEMMA WritesKept ==
    ASSUME UploadInv, NEW q \in Requests, request[q].op # "none", NEW row, Writes(q, row),
           NEW new, request' = [request EXCEPT ![q] = new], DOMAIN new = RequestFields,
           \/ new.op = "none"
           \/ /\ new.upload = request[q].upload /\ DOMAIN new.row = UploadFields
              /\ new.row.status \notin {"none", "completed", "cancelled"},
           UNCHANGED <<tasks, finalizer, chunks>>,
           row.status \notin Settled \/ new.op # "none" \/ row.status = "failed"
    PROVE  UploadInv'
<1> DEFINE u == request[q].upload
<1>1. /\ DOMAIN upload' = Uploads
      /\ \A v \in Uploads : v # u => upload'[v] = upload[v]
      /\ \A v \in Uploads : DOMAIN upload'[v] = UploadFields
      /\ uploadFaults' \in FaultCounts
      /\ uploadFaults.kept \subseteq uploadFaults'.kept
      /\ row.status = "failed" => u \in uploadFaults'.kept
      /\ Serial' => /\ Serial /\ upload'[u].status = row.status /\ upload'[u].file = NoFile
                    /\ ~IsOver(u)
  BY Written
<1>2. /\ DOMAIN request' = Requests /\ request'[q] = new
      /\ \A o \in Requests : DOMAIN request'[o] = RequestFields
      /\ \A o \in Requests : Loaded(o)'
      /\ \A o \in Requests : o # q => request'[o] = request[o]
  BY RequestParts
<1>4. UploadParts'
  BY <1>1, <1>2 DEF UploadInv, UploadParts
<1>5. ServesTasks'
  BY DEF UploadInv, ServesTasks, Runs
<1>6. ASSUME Serial', NEW v \in Uploads PROVE Kept(v)'
  <2>1. CASE v = u
    BY <1>1, <1>2, <1>6, <2>1 DEF Kept
  <2>2. CASE v # u
    <3>1. ASSUME NEW o \in Requests, request[o].op # "none", request[o].upload = v
          PROVE  request'[o].op # "none" /\ request'[o].upload = v
      BY <1>2, <2>2, <3>1
    <3>2. Kept(v)
      BY <1>1, <1>6 DEF UploadInv
    <3> QED
      BY <1>1, <2>2, <3>1, <3>2 DEF Kept
  <2> QED
    BY <2>1, <2>2
<1>7. ASSUME Serial' PROVE \A g \in Finalizers : Sees(g)'
  <2>1. \A v \in Uploads : IsOver(v) => IsOver(v)'
    BY <1>1, <1>7 DEF IsOver
  <2> QED
    BY <1>1, <1>7, <2>1, SameSees
<1> QED
  BY <1>2, <1>4, <1>5, <1>6, <1>7 DEF UploadInv

LEMMA RespondsKept ==
    ASSUME UploadInv, NEW q \in Requests,
           RecordChunk(q) \/ QueueUpload(q) \/ SubmitFails(q) \/ CancelUpload(q)
    PROVE  UploadInv'
<1> DEFINE t == request[q]
<1>0. UploadParts /\ Loaded(q) /\ DOMAIN t = RequestFields
  BY DEF UploadInv, UploadParts
<1>1. CASE RecordChunk(q)
  <2>1. PICK row : row = [t.row EXCEPT !.status = "uploading", !.received = @ \cup t.chunk]
    OBVIOUS
  <2>2. t.op = "stored" /\ Writes(q, row) /\ request' = [request EXCEPT ![q] = NoRequest]
        /\ UNCHANGED <<chunks, tasks, finalizer>>
    BY <1>1, <2>1 DEF RecordChunk, EndsRequest
  <2>3. row.status = "uploading"
    BY <1>0, <2>1, <2>2 DEF Loaded, UploadFields
  <2> QED
    BY <2>2, <2>3, EndedRequest, WritesKept DEF Settled
<1>2. CASE QueueUpload(q)
  <2>1. PICK row : row = [t.row EXCEPT !.status = "queued"]
    OBVIOUS
  <2>2. t.op = "complete" /\ Writes(q, row)
        /\ request' = [request EXCEPT ![q].op = "submit", ![q].row = row]
        /\ UNCHANGED <<chunks, tasks, finalizer>>
    BY <1>2, <2>1 DEF QueueUpload
  <2>3. row.status = "queued" /\ DOMAIN row = UploadFields
    BY <1>0, <2>1, <2>2 DEF Loaded, UploadFields
  <2>4. PICK half : half = [t EXCEPT !.op = "submit"]
    OBVIOUS
  <2>5. PICK new : new = [half EXCEPT !.row = row]
    OBVIOUS
  <2>6. /\ DOMAIN new = RequestFields /\ new.upload = t.upload /\ new.row = row
    BY <1>0, <2>4, <2>5 DEF RequestFields
  <2>7. request' = [request EXCEPT ![q] = new]
    BY <1>0, <2>2, <2>4, <2>5 DEF UploadParts
  <2> QED
    BY <2>2, <2>3, <2>6, <2>7, WritesKept DEF Settled
<1>3. CASE SubmitFails(q)
  <2>1. PICK row : row = [t.row EXCEPT !.status = "failed"]
    OBVIOUS
  <2>2. t.op = "submit" /\ Writes(q, row) /\ request' = [request EXCEPT ![q] = NoRequest]
        /\ UNCHANGED <<chunks, tasks, finalizer>>
    BY <1>3, <2>1 DEF SubmitFails, EndsRequest
  <2>3. row.status = "failed"
    BY <1>0, <2>1, <2>2 DEF Loaded, UploadFields
  <2> QED
    BY <2>2, <2>3, EndedRequest, WritesKept DEF Settled
<1>4. CASE CancelUpload(q)
  <2>1. PICK row : row = [t.row EXCEPT !.status = "cancelled"]
    OBVIOUS
  <2>2. PICK new : new = [t EXCEPT !.op = "purge"]
    OBVIOUS
  <2>3. t.op = "cancel" /\ Writes(q, row) /\ request' = [request EXCEPT ![q] = new]
        /\ UNCHANGED <<chunks, tasks, finalizer>>
    BY <1>4, <2>1, <2>2 DEF CancelUpload
  <2>4. /\ DOMAIN new = RequestFields /\ new.op = "purge" /\ new.upload = t.upload
        /\ new.row = t.row
    BY <1>0, <2>2 DEF RequestFields
  <2>5. DOMAIN new.row = UploadFields /\ new.row.status \notin {"none", "completed", "cancelled"}
    BY <1>0, <2>3, <2>4 DEF Loaded
  <2> QED
    BY <2>3, <2>4, <2>5, WritesKept
<1> QED
  BY <1>1, <1>2, <1>3, <1>4

\* The request that cancelled an upload deletes its chunks, unless an error keeps them.
LEMMA PurgesKept ==
    ASSUME UploadInv, NEW q \in Requests, PurgeUpload(q)
    PROVE  UploadInv'
<1> DEFINE u == request[q].upload
<1>1. /\ request[q].op = "purge" /\ DeletesChunks(u)
      /\ request' = [request EXCEPT ![q] = NoRequest]
      /\ UNCHANGED <<upload, files, objects, tasks, finalizer>>
  BY DEF PurgeUpload, EndsRequest
<1>2. u \in Uploads
  BY <1>1 DEF UploadInv, Loaded
<1>3. /\ DOMAIN chunks' = Uploads
      /\ \A v \in Uploads : v # u => chunks'[v] = chunks[v]
      /\ chunks'[u] = {} \/ u \in uploadFaults'.kept
      /\ \A v \in Uploads : v # u /\ v \in uploadFaults.kept => v \in uploadFaults'.kept
      /\ uploadFaults' \in FaultCounts /\ uploadFaults'.stale = uploadFaults.stale
  BY <1>1, <1>2, Deleted
<1>4. /\ DOMAIN request' = Requests /\ request'[q] = NoRequest
      /\ \A o \in Requests : DOMAIN request'[o] = RequestFields
      /\ \A o \in Requests : Loaded(o)'
      /\ \A o \in Requests : o # q => request'[o] = request[o]
  BY <1>1, EndedRequest, RequestParts
<1>5. UploadParts' /\ ServesTasks'
  BY <1>1, <1>3, <1>4 DEF UploadInv, UploadParts, ServesTasks, Runs
<1>6. ASSUME Serial', NEW v \in Uploads PROVE Kept(v)'
  <2>1. Kept(v)
    BY <1>3, <1>6 DEF UploadInv, Serial
  <2>2. CASE v = u
    BY <1>1, <1>3, <2>1, <2>2 DEF Kept
  <2>3. CASE v # u
    <3>1. ASSUME NEW o \in Requests, request[o].op # "none", request[o].upload = v
          PROVE  request'[o].op # "none" /\ request'[o].upload = v
      BY <1>4, <2>3, <3>1
    <3> QED
      BY <1>1, <1>3, <2>1, <2>3, <3>1 DEF Kept
  <2> QED
    BY <2>2, <2>3
<1>7. ASSUME Serial' PROVE \A g \in Finalizers : Sees(g)'
  BY <1>1, <1>3, <1>7, SameSees DEF Serial, IsOver
<1> QED
  BY <1>4, <1>5, <1>6, <1>7 DEF UploadInv

\* The message takes the place of the request.
LEMMA SubmitsKept ==
    ASSUME UploadInv, NEW q \in Requests, SubmitUpload(q)
    PROVE  UploadInv'
<1> DEFINE u == request[q].upload
<1>1. PICK t : t = [upload |-> u, number |-> request[q].number, tries |-> 0]
  OBVIOUS
<1>2. /\ request[q].op = "submit" /\ tasks' = tasks \cup {t}
      /\ request' = [request EXCEPT ![q] = NoRequest]
      /\ UNCHANGED <<upload, chunks, files, objects, finalizer, uploadFaults>>
  BY <1>1 DEF SubmitUpload, EndsRequest
<1>3. DOMAIN t = {"upload", "number", "tries"} /\ t.upload = u /\ u \in Uploads
  BY <1>1, <1>2 DEF UploadInv, Loaded
<1>4. /\ DOMAIN request' = Requests /\ request'[q] = NoRequest
      /\ \A o \in Requests : DOMAIN request'[o] = RequestFields
      /\ \A o \in Requests : Loaded(o)'
      /\ \A o \in Requests : o # q => request'[o] = request[o]
  BY <1>2, EndedRequest, RequestParts
<1>5. UploadParts'
  BY <1>2, <1>4 DEF UploadInv, UploadParts
<1>6. ServesTasks'
  BY <1>2, <1>3 DEF UploadInv, ServesTasks, Runs
<1>7. ASSUME Serial', NEW v \in Uploads PROVE Kept(v)'
  <2>1. Kept(v)
    BY <1>2, <1>7 DEF UploadInv, Serial
  <2>2. CASE v = u
    BY <1>2, <1>3, <2>1, <2>2 DEF Kept
  <2>3. CASE v # u
    <3>1. ASSUME NEW o \in Requests, request[o].op # "none", request[o].upload = v
          PROVE  request'[o].op # "none" /\ request'[o].upload = v
      BY <1>4, <2>3, <3>1
    <3> QED
      BY <1>2, <2>1, <3>1 DEF Kept
  <2> QED
    BY <2>2, <2>3
<1>8. ASSUME Serial' PROVE \A g \in Finalizers : Sees(g)'
  BY <1>2, <1>8, SameSees DEF Serial, IsOver
<1> QED
  BY <1>4, <1>5, <1>6, <1>7, <1>8 DEF UploadInv

\* A worker goes on with its message, or puts it down; only then is it acknowledged.
LEMMA WorkerParts ==
    ASSUME UploadInv, NEW f \in Finalizers, NEW new,
           finalizer' = [finalizer EXCEPT ![f] = new], DOMAIN new = FinalizerFields,
           \A t \in tasks' : DOMAIN t = {"upload", "number", "tries"} /\ t.upload \in Uploads,
           \/ /\ new.pc = "idle" /\ finalizer[f].pc # "idle"
              /\ \A t \in tasks : t # finalizer[f].task => t \in tasks'
           \/ /\ tasks' = tasks /\ new.task \in tasks
              /\ \A g \in Finalizers : g # f /\ finalizer[g].pc # "idle"
                                           => finalizer[g].task # new.task
    PROVE  /\ DOMAIN finalizer' = Finalizers
           /\ \A g \in Finalizers : DOMAIN finalizer'[g] = FinalizerFields
           /\ ServesTasks'
<1>1. /\ DOMAIN finalizer' = Finalizers /\ finalizer'[f] = new
      /\ \A g \in Finalizers : g # f => finalizer'[g] = finalizer[g]
      /\ \A g \in Finalizers : DOMAIN finalizer'[g] = FinalizerFields
  BY DEF UploadInv, UploadParts
<1>2. \A g \in Finalizers : Runs(g)
  BY DEF UploadInv, ServesTasks
<1>3. CASE /\ new.pc = "idle" /\ finalizer[f].pc # "idle"
           /\ \A t \in tasks : t # finalizer[f].task => t \in tasks'
  <2>1. ASSUME NEW g \in Finalizers PROVE Runs(g)'
    <3>1. CASE g = f
      BY <1>1, <1>3, <3>1 DEF Runs
    <3>2. CASE g # f
      BY <1>1, <1>2, <1>3, <3>2 DEF Runs
    <3> QED
      BY <3>1, <3>2
  <2> QED
    BY <1>1, <2>1 DEF ServesTasks
<1>4. CASE /\ tasks' = tasks /\ new.task \in tasks
           /\ \A g \in Finalizers : g # f /\ finalizer[g].pc # "idle" => finalizer[g].task # new.task
  <2>1. ASSUME NEW g \in Finalizers PROVE Runs(g)'
    <3>1. CASE g = f
      BY <1>1, <1>4, <3>1 DEF Runs
    <3>2. CASE g # f
      BY <1>1, <1>2, <1>4, <3>2 DEF Runs
    <3> QED
      BY <3>1, <3>2
  <2> QED
    BY <1>1, <2>1 DEF ServesTasks
<1> QED
  BY <1>3, <1>4

\* What a worker has in its hands.
LEMMA InWork ==
    ASSUME UploadInv, NEW f \in Finalizers, finalizer[f].pc # "idle"
    PROVE  /\ Of(f) \in Uploads /\ finalizer[f].task \in tasks
           /\ DOMAIN finalizer[f] = FinalizerFields
           /\ \A g \in Finalizers : g # f /\ finalizer[g].pc # "idle"
                                        => finalizer[g].task # finalizer[f].task
BY DEF UploadInv, UploadParts, ServesTasks, Runs, Of

\* A worker that moves on, to another step of its message, keeps what it is about.
LEMMA GoesKept ==
    ASSUME UploadInv, NEW f \in Finalizers, finalizer[f].pc # "idle", NEW pc, Goes(f, pc),
           tasks' = tasks
    PROVE  /\ DOMAIN finalizer' = Finalizers
           /\ \A g \in Finalizers : DOMAIN finalizer'[g] = FinalizerFields
           /\ ServesTasks'
<1>1. PICK new : new = [finalizer[f] EXCEPT !.pc = pc]
  OBVIOUS
<1>2. finalizer' = [finalizer EXCEPT ![f] = new]
  BY <1>1 DEF Goes
<1>3. DOMAIN new = FinalizerFields /\ new.task = finalizer[f].task
  BY <1>1, InWork DEF FinalizerFields
<1>4. \A t \in tasks' : DOMAIN t = {"upload", "number", "tries"} /\ t.upload \in Uploads
  BY DEF UploadInv, ServesTasks
<1> QED
  BY <1>2, <1>3, <1>4, InWork, WorkerParts

LEMMA GoesSees ==
    ASSUME UploadInv, Serial, \A u \in Uploads : IsOver(u) => IsOver(u)',
           NEW f \in Finalizers, finalizer[f].pc # "idle", NEW pc, Goes(f, pc),
           pc # "end", pc = "discard" => IsOver(Of(f))
    PROVE  \A g \in Finalizers : Sees(g)'
<1>1. PICK new : new = [finalizer[f] EXCEPT !.pc = pc]
  OBVIOUS
<1>2. finalizer' = [finalizer EXCEPT ![f] = new]
  BY <1>1 DEF Goes
<1>3. new.pc = pc /\ new.task = finalizer[f].task /\ finalizer[f].task.upload \in Uploads
  BY <1>1, InWork DEF FinalizerFields, Of
<1> QED
  BY <1>2, <1>3, StillSees DEF Of

\* The row of an upload a worker writes, beside the requests.
LEMMA RowKept ==
    ASSUME UploadInv, ServesTasks',
           DOMAIN finalizer' = Finalizers,
           \A g \in Finalizers : DOMAIN finalizer'[g] = FinalizerFields,
           NEW u \in Uploads, NEW new, upload' = [upload EXCEPT ![u] = new],
           DOMAIN new = UploadFields,
           UNCHANGED <<chunks, request, uploadFaults, tasks>>,
           Serial => \A g \in Finalizers : Sees(g)',
           \/ new.file = upload[u].file /\ new.status = upload[u].status
           \/ /\ new.file = upload[u].file /\ upload[u].status # "completed"
              /\ new.status \notin Settled \/ \E t \in tasks : t.upload = u
           \/ new.status = "completed" /\ \E t \in tasks : t.upload = u
    PROVE  UploadInv'
<1>1. /\ DOMAIN upload' = Uploads /\ upload'[u] = new
      /\ \A v \in Uploads : v # u => upload'[v] = upload[v]
  BY DEF UploadInv, UploadParts
<1>2. UploadParts'
  BY <1>1 DEF UploadInv, UploadParts
<1>3. \A q \in Requests : Loaded(q)'
  BY DEF UploadInv, Loaded
<1>4. ASSUME Serial', NEW v \in Uploads PROVE Kept(v)'
  <2>1. Kept(v)
    BY <1>4 DEF UploadInv, Serial
  <2>2. CASE v = u
    BY <1>1, <2>1, <2>2 DEF Kept
  <2>3. CASE v # u
    BY <1>1, <2>1, <2>3 DEF Kept
  <2> QED
    BY <2>2, <2>3
<1> QED
  BY <1>2, <1>3, <1>4 DEF UploadInv, Serial

LEMMA SameRow ==
    ASSUME UploadInv, ServesTasks', DOMAIN finalizer' = Finalizers,
           \A g \in Finalizers : DOMAIN finalizer'[g] = FinalizerFields,
           UNCHANGED <<upload, chunks, request, tasks>>,
           uploadFaults' \in FaultCounts,
           uploadFaults'.stale = uploadFaults.stale, uploadFaults'.kept = uploadFaults.kept,
           Serial => \A g \in Finalizers : Sees(g)'
    PROVE  UploadInv'
<1>1. UploadParts'
  BY DEF UploadInv, UploadParts
<1>2. \A q \in Requests : Loaded(q)'
  BY DEF UploadInv, Loaded
<1>3. ASSUME Serial', NEW v \in Uploads PROVE Kept(v)'
  BY <1>3 DEF UploadInv, Serial, Kept
<1> QED
  BY <1>1, <1>2, <1>3 DEF UploadInv, Serial

LEMMA ClaimsKept ==
    ASSUME UploadInv, NEW f \in Finalizers, NEW t \in tasks, Claim(f, t)
    PROVE  UploadInv'
<1> DEFINE u == t.upload
<1>0. u \in Uploads /\ UploadParts /\ uploadFaults \in FaultCounts
  BY DEF UploadInv, ServesTasks, UploadParts
<1>1. PICK pc : pc = IF IsOver(u) THEN "clean" ELSE "assemble"
  OBVIOUS
<1>2. PICK new : new = [pc |-> pc, task |-> t, name |-> upload[u].name, file |-> FileOf(t)]
  OBVIOUS
<1>3. /\ t \notin Running /\ finalizer' = [finalizer EXCEPT ![f] = new]
      /\ upload' = IF IsOver(u) THEN upload ELSE [upload EXCEPT ![u].status = "processing"]
      /\ UNCHANGED <<chunks, files, objects, tasks, request, uploadFaults>>
  BY <1>1, <1>2 DEF Claim
<1>4. DOMAIN new = FinalizerFields /\ new.task = t /\ new.pc \notin {"discard", "end"}
  BY <1>1, <1>2 DEF FinalizerFields
<1>8. ASSUME Serial PROVE \A g \in Finalizers : Sees(g)'
  <2>1. \A v \in Uploads : IsOver(v) => IsOver(v)'
    BY <1>0, <1>3 DEF IsOver, UploadParts
  <2> QED
    BY <1>3, <1>4, <1>8, <2>1, StillSees
<1>5. /\ DOMAIN finalizer' = Finalizers
      /\ \A g \in Finalizers : DOMAIN finalizer'[g] = FinalizerFields
      /\ ServesTasks'
  <2>1. \A g \in Finalizers : g # f /\ finalizer[g].pc # "idle" => finalizer[g].task # t
    BY <1>3 DEF Running
  <2>2. \A x \in tasks' : DOMAIN x = {"upload", "number", "tries"} /\ x.upload \in Uploads
    BY <1>3 DEF UploadInv, ServesTasks
  <2> QED
    BY <1>3, <1>4, <2>1, <2>2, WorkerParts
<1>6. CASE IsOver(u)
  BY <1>0, <1>3, <1>5, <1>6, <1>8, SameRow
<1>7. CASE ~IsOver(u)
  <2>1. PICK row : row = [upload[u] EXCEPT !.status = "processing"]
    OBVIOUS
  <2>2. upload' = [upload EXCEPT ![u] = row]
    BY <1>0, <1>3, <1>7, <2>1 DEF UploadParts
  <2>3. DOMAIN row = UploadFields /\ row.file = upload[u].file /\ row.status = "processing"
    BY <1>0, <2>1 DEF UploadParts, UploadFields
  <2> QED
    BY <1>0, <1>3, <1>5, <1>7, <1>8, <2>2, <2>3, RowKept DEF IsOver, Settled
<1> QED
  BY <1>6, <1>7

LEMMA AssemblesKept ==
    ASSUME UploadInv, NEW f \in Finalizers, Assemble(f)
    PROVE  UploadInv'
<1> DEFINE u == Of(f)
<1>0. /\ finalizer[f].pc = "assemble" /\ u \in Uploads /\ UploadParts
      /\ uploadFaults \in FaultCounts
      /\ UNCHANGED <<chunks, files, objects, tasks, request, uploadFaults>>
  BY InWork DEF Assemble, At, UploadInv, UploadParts
<1>1. PICK name : name = IF upload[u].rename /\ Names \ Reserved(u) # {}
                         THEN Unique(finalizer[f].name, Reserved(u)) ELSE finalizer[f].name
  OBVIOUS
<1>2. CASE chunks[u] = Chunks
  <2>1. /\ finalizer' = [finalizer EXCEPT ![f].pc = "store", ![f].name = name]
        /\ upload' = IF name = finalizer[f].name THEN upload
                     ELSE [upload EXCEPT ![u].name = name]
    BY <1>1, <1>2 DEF Assemble
  <2>2. PICK half : half = [finalizer[f] EXCEPT !.pc = "store"]
    OBVIOUS
  <2>3. PICK new : new = [half EXCEPT !.name = name]
    OBVIOUS
  <2>4. finalizer' = [finalizer EXCEPT ![f] = new]
    BY <1>0, <2>1, <2>2, <2>3 DEF UploadParts
  <2>5. DOMAIN new = FinalizerFields /\ new.task = finalizer[f].task /\ new.pc = "store"
    BY <1>0, <2>2, <2>3, InWork DEF FinalizerFields
  <2>9. ASSUME Serial PROVE \A g \in Finalizers : Sees(g)'
    <3>1. ASSUME NEW v \in Uploads, IsOver(v) PROVE IsOver(v)'
      <4>1. upload'[v].status = upload[v].status
        BY <1>0, <2>1 DEF UploadParts, UploadFields
      <4> QED
        BY <3>1, <4>1 DEF IsOver
    <3> QED
      BY <2>4, <2>5, <2>9, <3>1, StillSees
  <2>6. /\ DOMAIN finalizer' = Finalizers
        /\ \A g \in Finalizers : DOMAIN finalizer'[g] = FinalizerFields
        /\ ServesTasks'
    <3>1. \A x \in tasks' : DOMAIN x = {"upload", "number", "tries"} /\ x.upload \in Uploads
      BY <1>0 DEF UploadInv, ServesTasks
    <3> QED
      BY <1>0, <2>4, <2>5, <3>1, InWork, WorkerParts
  <2>7. CASE name = finalizer[f].name
    <3>1. upload' = upload
      BY <2>1, <2>7
    <3> QED
      BY <1>0, <2>6, <2>9, <3>1, SameRow
  <2>8. CASE name # finalizer[f].name
    <3>1. PICK row : row = [upload[u] EXCEPT !.name = name]
      OBVIOUS
    <3>2. upload' = [upload EXCEPT ![u] = row]
      BY <1>0, <2>1, <2>8, <3>1 DEF UploadParts
    <3>3. DOMAIN row = UploadFields /\ row.file = upload[u].file /\ row.status = upload[u].status
      BY <1>0, <3>1 DEF UploadParts, UploadFields
    <3> QED
      BY <1>0, <2>6, <2>9, <3>2, <3>3, RowKept
  <2> QED
    BY <2>7, <2>8
<1>3. CASE chunks[u] # Chunks
  <2>1. Goes(f, "fail") /\ UNCHANGED upload
    BY <1>3 DEF Assemble
  <2>2. ASSUME Serial PROVE \A g \in Finalizers : Sees(g)'
    BY <1>0, <2>1, <2>2, GoesSees DEF IsOver
  <2> QED
    BY <1>0, <2>1, <2>2, GoesKept, SameRow
<1> QED
  BY <1>2, <1>3

LEMMA StepsKept ==
    ASSUME UploadInv, NEW f \in Finalizers,
           StoreFile(f) \/ PublishFile(f) \/ PublicationFails(f) \/ Discard(f)
    PROVE  UploadInv'
<1> DEFINE u == Of(f)
<1>0. /\ finalizer[f].pc # "idle" /\ u \in Uploads /\ UploadParts /\ finalizer[f].task \in tasks
      /\ uploadFaults \in FaultCounts
      /\ UNCHANGED <<chunks, tasks, request>>
  BY InWork DEF StoreFile, PublishFile, PublicationFails, Discard, At, UploadInv, UploadParts
<1>5. UNCHANGED uploadFaults \/ Errs(uploadFaults.kept)
  BY DEF StoreFile, PublishFile, PublicationFails, Discard, DeletesObject
<1>6. /\ uploadFaults' \in FaultCounts
      /\ uploadFaults'.stale = uploadFaults.stale /\ uploadFaults'.kept = uploadFaults.kept
  BY <1>0, <1>5, Erred
<1>1. PICK pc : /\ Goes(f, pc)
                /\ pc = "discard" => IsOver(u)
                /\ Serial => pc # "end"
  <2>1. CASE StoreFile(f)
    BY <2>1 DEF StoreFile
  <2>2. CASE PublishFile(f)
    <3>1. PICK taken \in BOOLEAN :
              Goes(f, IF taken THEN "refused" ELSE IF IsOver(u) THEN "discard" ELSE "clean")
      BY <2>2 DEF PublishFile
    <3> QED
      BY <3>1
  <2>3. CASE PublicationFails(f)
    BY <2>3 DEF PublicationFails
  <2>4. CASE Discard(f)
    <3>1. \/ Goes(f, "fail")
          \/ Goes(f, "clean")
          \/ At(f, "discard") /\ Goes(f, "end") /\ upload[u].status \notin Settled
      BY <2>4 DEF Discard
    <3>2. ASSUME Serial, At(f, "discard"), upload[u].status \notin Settled PROVE FALSE
      <4>1. Sees(f)
        BY <3>2 DEF UploadInv
      <4> QED
        BY <3>2, <4>1 DEF Sees, At, Of, IsOver, Settled
    <3> QED
      BY <3>1, <3>2
  <2> QED
    BY <2>1, <2>2, <2>3, <2>4
<1>2. /\ DOMAIN finalizer' = Finalizers
      /\ \A g \in Finalizers : DOMAIN finalizer'[g] = FinalizerFields
      /\ ServesTasks'
  BY <1>0, <1>1, GoesKept
<1>3. CASE upload' = upload
  <2>1. ASSUME Serial PROVE \A g \in Finalizers : Sees(g)'
    BY <1>0, <1>1, <1>3, <2>1, GoesSees DEF IsOver
  <2> QED
    BY <1>0, <1>2, <1>3, <1>6, <2>1, SameRow
<1>4. CASE PublishFile(f) /\ upload' # upload
  <2>1. PICK id : id = finalizer[f].file
    OBVIOUS
  <2>2. upload' = [upload EXCEPT ![u].status = "completed", ![u].received = Chunks, ![u].file = id]
    BY <1>4, <2>1 DEF PublishFile
  <2>3. PICK one : one = [upload[u] EXCEPT !.status = "completed"]
    OBVIOUS
  <2>4. PICK two : two = [one EXCEPT !.received = Chunks]
    OBVIOUS
  <2>5. PICK row : row = [two EXCEPT !.file = id]
    OBVIOUS
  <2>6. DOMAIN row = UploadFields /\ row.status = "completed"
    <3>1. DOMAIN one = UploadFields /\ one.status = "completed"
      BY <1>0, <2>3 DEF UploadParts, UploadFields
    <3>2. DOMAIN two = UploadFields /\ two.status = "completed"
      BY <2>4, <3>1 DEF UploadFields
    <3> QED
      BY <2>5, <3>2 DEF UploadFields
  <2>7. upload' = [upload EXCEPT ![u] = row]
    BY <1>0, <2>2, <2>3, <2>4, <2>5 DEF UploadParts
  <2>8. \E t \in tasks : t.upload = u
    BY <1>0 DEF Of
  <2>9. ASSUME Serial PROVE \A g \in Finalizers : Sees(g)'
    <3>1. \A v \in Uploads : IsOver(v) => IsOver(v)'
      BY <1>0, <2>6, <2>7 DEF IsOver, UploadParts
    <3> QED
      BY <1>0, <1>1, <2>9, <3>1, GoesSees
  <2>10. UNCHANGED uploadFaults
    BY <1>4 DEF PublishFile
  <2> QED
    BY <1>0, <1>2, <2>6, <2>7, <2>8, <2>9, <2>10, RowKept
<1> QED
  BY <1>3, <1>4 DEF StoreFile, PublicationFails, Discard

LEMMA IdleKept == DOMAIN IdleFinalizer = FinalizerFields /\ IdleFinalizer.pc = "idle"
BY DEF IdleFinalizer, FinalizerFields

\* A failure leaves another message for the upload.
LEMMA RetriesKept ==
    ASSUME UploadInv, NEW f \in Finalizers, RetryFinalizer(f)
    PROVE  UploadInv'
<1> DEFINE t == finalizer[f].task
           u == t.upload
<1>0. /\ finalizer[f].pc # "idle" /\ u \in Uploads /\ UploadParts /\ t \in tasks
      /\ DOMAIN t = {"upload", "number", "tries"}
  BY InWork DEF RetryFinalizer, At, Of, UploadInv, ServesTasks
<1>1. PICK again : again = [t EXCEPT !.tries = @ + 1]
  OBVIOUS
<1>2. DOMAIN again = {"upload", "number", "tries"} /\ again.upload = u
  BY <1>0, <1>1
<1>3. /\ tasks' = (tasks \ {t}) \cup {again}
      /\ finalizer' = [finalizer EXCEPT ![f] = IdleFinalizer]
      /\ DeletesChunks(u) \/ UNCHANGED <<chunks, uploadFaults>>
      /\ UNCHANGED <<upload, files, objects, request>>
  BY <1>1 DEF RetryFinalizer, Of
<1>4. /\ DOMAIN finalizer' = Finalizers
      /\ \A g \in Finalizers : DOMAIN finalizer'[g] = FinalizerFields
      /\ ServesTasks'
  <2>1. \A x \in tasks' : DOMAIN x = {"upload", "number", "tries"} /\ x.upload \in Uploads
    BY <1>0, <1>2, <1>3 DEF UploadInv, ServesTasks
  <2>2. \A x \in tasks : x # t => x \in tasks'
    BY <1>3
  <2> QED
    BY <1>0, <1>3, <2>1, <2>2, IdleKept, WorkerParts
<1>5. /\ DOMAIN chunks' = Uploads
      /\ \A v \in Uploads : v # u => chunks'[v] = chunks[v]
      /\ \A v \in Uploads : v # u /\ v \in uploadFaults.kept => v \in uploadFaults'.kept
      /\ uploadFaults' \in FaultCounts /\ uploadFaults'.stale = uploadFaults.stale
  BY <1>0, <1>3, Deleted DEF UploadParts
<1>6. UploadParts'
  BY <1>0, <1>3, <1>4, <1>5 DEF UploadParts
<1>7. \A q \in Requests : Loaded(q)'
  BY <1>3 DEF UploadInv, Loaded
<1>8. ASSUME Serial', NEW v \in Uploads PROVE Kept(v)'
  <2>1. Kept(v)
    BY <1>5, <1>8 DEF UploadInv, Serial
  <2>2. CASE v = u
    BY <1>2, <1>3, <2>1, <2>2 DEF Kept
  <2>3. CASE v # u
    <3>1. \A x \in tasks : x.upload = v => x \in tasks'
      BY <1>3, <2>3
    <3> QED
      BY <1>3, <1>5, <2>1, <2>3, <3>1 DEF Kept
  <2> QED
    BY <2>2, <2>3
<1>9. ASSUME Serial' PROVE \A g \in Finalizers : Sees(g)'
  BY <1>3, <1>5, <1>9, IdleKept, StillSees DEF Serial, IsOver
<1> QED
  BY <1>4, <1>6, <1>7, <1>8, <1>9 DEF UploadInv

\* The last failure is recorded while the message is still there.
LEMMA FailsKept ==
    ASSUME UploadInv, NEW f \in Finalizers, FailFinalizer(f)
    PROVE  UploadInv'
<1> DEFINE u == Of(f)
           status == StatusAfterFailure(u)
<1>0. /\ finalizer[f].pc # "idle" /\ u \in Uploads /\ UploadParts
      /\ \E t \in tasks : t.upload = u
      /\ Goes(f, "clean") /\ upload' = [upload EXCEPT ![u].status = status]
      /\ UNCHANGED <<chunks, tasks, request, uploadFaults>>
  BY InWork DEF FailFinalizer, At, Of, UploadInv
<1>1. status = upload[u].status \/ (~IsOver(u) /\ status = "failed")
  BY DEF StatusAfterFailure
<1> HIDE DEF status
<1>2. PICK row : row = [upload[u] EXCEPT !.status = status]
  OBVIOUS
<1>3. /\ DOMAIN row = UploadFields /\ row.file = upload[u].file /\ row.status = status
      /\ upload' = [upload EXCEPT ![u] = row]
  BY <1>0, <1>2 DEF UploadParts, UploadFields
<1>4. ASSUME Serial PROVE \A g \in Finalizers : Sees(g)'
  <2>1. \A v \in Uploads : IsOver(v) => IsOver(v)'
    BY <1>0, <1>1, <1>3 DEF IsOver, UploadParts
  <2> QED
    BY <1>0, <1>4, <2>1, GoesSees
<1>5. /\ DOMAIN finalizer' = Finalizers
      /\ \A g \in Finalizers : DOMAIN finalizer'[g] = FinalizerFields
      /\ ServesTasks'
  BY <1>0, GoesKept
<1> QED
  BY <1>0, <1>1, <1>3, <1>4, <1>5, RowKept DEF IsOver

\* The message ends: with the chunks, with an error, or after a row that was written over.
LEMMA CleansKept ==
    ASSUME UploadInv, NEW f \in Finalizers, CleanUp(f)
    PROVE  UploadInv'
<1> DEFINE t == finalizer[f].task
           u == t.upload
<1>0. finalizer[f].pc # "idle" /\ u \in Uploads /\ UploadParts
  BY InWork DEF CleanUp, At, Of, UploadInv
<1>1. /\ tasks' = tasks \ {t}
      /\ DeletesChunks(u) \/ (finalizer[f].pc = "end" /\ UNCHANGED <<chunks, uploadFaults>>)
      /\ finalizer' = [finalizer EXCEPT ![f] = IdleFinalizer]
      /\ UNCHANGED <<upload, files, objects, request>>
  BY DEF CleanUp, At, Of
<1>2. /\ DOMAIN finalizer' = Finalizers
      /\ \A g \in Finalizers : DOMAIN finalizer'[g] = FinalizerFields
      /\ ServesTasks'
  <2>1. \A x \in tasks' : DOMAIN x = {"upload", "number", "tries"} /\ x.upload \in Uploads
    BY <1>1 DEF UploadInv, ServesTasks
  <2>2. \A x \in tasks : x # t => x \in tasks'
    BY <1>1
  <2> QED
    BY <1>0, <1>1, <2>1, <2>2, IdleKept, WorkerParts
<1>3. /\ DOMAIN chunks' = Uploads
      /\ chunks'[u] = {} \/ u \in uploadFaults'.kept \/ finalizer[f].pc = "end"
      /\ \A v \in Uploads : v # u => chunks'[v] = chunks[v]
      /\ \A v \in Uploads : v # u /\ v \in uploadFaults.kept => v \in uploadFaults'.kept
      /\ uploadFaults' \in FaultCounts /\ uploadFaults'.stale = uploadFaults.stale
  BY <1>0, <1>1, Deleted DEF UploadParts
<1>4. UploadParts' /\ \A q \in Requests : Loaded(q)'
  BY <1>0, <1>1, <1>2, <1>3 DEF UploadInv, UploadParts, Loaded
<1>5. ASSUME Serial', NEW v \in Uploads PROVE Kept(v)'
  <2>1. Kept(v) /\ Sees(f)
    BY <1>3, <1>5 DEF UploadInv, Serial
  <2>2. CASE v = u
    <3>1. chunks'[u] = {} \/ u \in uploadFaults'.kept
      BY <1>3, <2>1 DEF Sees
    <3> QED
      BY <1>1, <2>1, <2>2, <3>1 DEF Kept
  <2>3. CASE v # u
    <3>1. \A x \in tasks : x.upload = v => x \in tasks'
      BY <1>1, <2>3
    <3> QED
      BY <1>1, <1>3, <2>1, <2>3, <3>1 DEF Kept
  <2> QED
    BY <2>2, <2>3
<1>6. ASSUME Serial' PROVE \A g \in Finalizers : Sees(g)'
  BY <1>1, <1>3, <1>6, IdleKept, StillSees DEF Serial, IsOver
<1> QED
  BY <1>2, <1>4, <1>5, <1>6 DEF UploadInv

LEMMA LosesKept ==
    ASSUME UploadInv, NEW f \in Finalizers, LoseFinalizer(f)
    PROVE  UploadInv'
<1>1. /\ finalizer[f].pc # "idle"
      /\ finalizer' = [finalizer EXCEPT ![f] = IdleFinalizer]
      /\ uploadFaults' = [uploadFaults EXCEPT !.lost = @ + 1]
      /\ UNCHANGED <<upload, chunks, files, objects, tasks, request>>
  BY DEF LoseFinalizer, At
<1>2. \A x \in tasks' : DOMAIN x = {"upload", "number", "tries"} /\ x.upload \in Uploads
  BY <1>1 DEF UploadInv, ServesTasks
<1>3. \A x \in tasks : x # finalizer[f].task => x \in tasks'
  BY <1>1
<1>4. /\ DOMAIN finalizer' = Finalizers
      /\ \A g \in Finalizers : DOMAIN finalizer'[g] = FinalizerFields
      /\ ServesTasks'
  BY <1>1, <1>2, <1>3, IdleKept, WorkerParts
<1>5. /\ uploadFaults' \in FaultCounts
      /\ uploadFaults'.stale = uploadFaults.stale /\ uploadFaults'.kept = uploadFaults.kept
  BY <1>1 DEF UploadInv, UploadParts, FaultCounts
<1>6. ASSUME Serial PROVE \A g \in Finalizers : Sees(g)'
  BY <1>1, <1>6, IdleKept, StillSees DEF IsOver
<1> QED
  BY <1>1, <1>4, <1>5, <1>6, SameRow

LEMMA RestKept ==
    ASSUME UploadInv, (\E g \in files : DeleteFile(g)) \/ UNCHANGED uploadVars
    PROVE  UploadInv'
<1>1. UNCHANGED <<upload, chunks, tasks, request, finalizer>>
  BY DEF DeleteFile, uploadVars
<1>2. UNCHANGED uploadFaults \/ Errs(uploadFaults.kept)
  BY DEF DeleteFile, DeletesObject, uploadVars
<1>3. /\ uploadFaults' \in FaultCounts
      /\ uploadFaults'.stale = uploadFaults.stale /\ uploadFaults'.kept = uploadFaults.kept
  BY <1>2, Erred DEF UploadInv, UploadParts
<1>4. ServesTasks'
  BY <1>1 DEF UploadInv, ServesTasks, Runs
<1>5. ASSUME Serial PROVE \A g \in Finalizers : Sees(g)'
  BY <1>1, <1>5, SameSees DEF IsOver
<1> QED
  BY <1>1, <1>3, <1>4, <1>5, SameRow DEF UploadInv, UploadParts

LEMMA UploadStep == UploadInv /\ [UploadsNext]_uploadVars => UploadInv'
<1> SUFFICES ASSUME UploadInv, [UploadsNext]_uploadVars PROVE UploadInv'
  OBVIOUS
<1>1. CASE \E u \in Uploads, rename \in BOOLEAN : CreateUpload(u, rename)
  BY <1>1, CreatesKept
<1>2. CASE \E q \in Requests, u \in Uploads :
               \/ \E c \in Chunks : PutChunk(q, u, c)
               \/ Complete(q, u) \/ Cancel(q, u)
  BY <1>2, ReadsKept
<1>3. CASE \E q \in Requests : Respond(q)
  BY <1>3, StoresKept, RespondsKept, SubmitsKept, PurgesKept DEF Respond
<1>4. CASE \E f \in Finalizers : Finalize(f) \/ LoseFinalizer(f)
  BY <1>4, ClaimsKept, AssemblesKept, StepsKept, RetriesKept, FailsKept, CleansKept, LosesKept
     DEF Finalize
<1>5. CASE (\E g \in files : DeleteFile(g)) \/ UNCHANGED uploadVars
  BY <1>5, RestKept
<1> QED
  BY <1>1, <1>2, <1>3, <1>4, <1>5 DEF UploadsNext

LEMMA UploadAlways == UploadsSpec => []UploadInv
<1> QED
  BY UploadStart, UploadStep, PTL DEF UploadsSpec

\* An upload publishes one file and a cancelled one none, however often its finalization is
\* submitted, redelivered or retried, unless a request wrote over a row that had changed.
THEOREM OncePublished == UploadsSpec => PublishesOnce
<1> DEFINE Once == \A u \in Uploads :
               (\E g \in files' \ files : g.upload = u) =>
                   (Serial => upload[u].file = NoFile /\ upload[u].status # "cancelled")
<1>1. UploadInv /\ [UploadsNext]_uploadVars => [Once]_uploadVars
  <2> SUFFICES ASSUME UploadInv, UploadsNext, NEW u \in Uploads, NEW g \in files' \ files,
                      g.upload = u, Serial
               PROVE  upload[u].file = NoFile /\ upload[u].status # "cancelled"
    OBVIOUS
  <2>1. PICK f \in Finalizers : PublishFile(f)
    <3>1. CASE \E f \in Finalizers : Finalize(f) \/ LoseFinalizer(f)
      BY <3>1 DEF Finalize, Claim, Assemble, StoreFile, PublicationFails, Discard,
                  RetryFinalizer, FailFinalizer, CleanUp, LoseFinalizer
    <3>2. CASE \E q \in Requests : Respond(q)
      BY <3>2 DEF Respond, StoreChunk, RecordChunk, QueueUpload, SubmitUpload, SubmitFails,
                  CancelUpload, PurgeUpload
    <3>3. CASE \E q \in Requests, v \in Uploads :
                   \/ \E c \in Chunks : PutChunk(q, v, c)
                   \/ Complete(q, v) \/ Cancel(q, v)
      BY <3>3 DEF PutChunk, Complete, Cancel, Reads
    <3>4. CASE \/ \E v \in Uploads, rename \in BOOLEAN : CreateUpload(v, rename)
               \/ \E h \in files : DeleteFile(h)
      BY <3>4 DEF CreateUpload, DeleteFile
    <3> QED
      BY <3>1, <3>2, <3>3, <3>4 DEF UploadsNext
  <2>2. g.upload = Of(f) /\ ~IsOver(Of(f))
    BY <2>1 DEF PublishFile
  <2>3. Kept(u)
    BY DEF UploadInv
  <2> QED
    BY <2>2, <2>3 DEF Kept, IsOver
<1>2. UploadsSpec => [][Once]_uploadVars
  BY <1>1, UploadAlways, PTL DEF UploadsSpec
<1> QED
  BY <1>2 DEF PublishesOnce

\* The chunks of an upload that is completed, cancelled or failed do not stay when nothing
\* works on it any more: somebody who deletes them comes, whichever worker is lost, and only
\* an error of that deletion, or a task that could not be submitted, lets them stay.
THEOREM ChunksAreDeleted == UploadsSpec => []NoLeftovers
<1>1. UploadInv => NoLeftovers
  BY DEF UploadInv, Kept, NoLeftovers
<1> QED
  BY <1>1, UploadAlways, PTL
-----------------------------------------------------------------------------
(* Stored originals. *)

Orphans == objects \ ({g.id : g \in files} \cup InHand)

Causes == uploadFaults.lost + uploadFaults.errors

OrphanInv == UploadInv /\ IsFiniteSet(objects) /\ Cardinality(Orphans) <= Causes

LEMMA CausesType == UploadInv => Causes \in Nat
BY DEF UploadInv, UploadParts, FaultCounts, Causes

\* A step that orphans nothing.
LEMMA NoneOrphaned ==
    ASSUME OrphanInv, UploadInv', IsFiniteSet(objects'), Orphans' \subseteq Orphans,
           Causes' \in {Causes, Causes + 1}
    PROVE  OrphanInv'
<1>1. IsFiniteSet(Orphans)
  BY FS_Subset DEF OrphanInv, Orphans
<1>2. /\ Cardinality(Orphans') <= Cardinality(Orphans)
      /\ Cardinality(Orphans') \in Nat /\ Cardinality(Orphans) \in Nat
  BY <1>1, FS_Subset, FS_CardinalityType
<1>3. Causes \in Nat /\ Cardinality(Orphans) <= Causes
  BY CausesType DEF OrphanInv
<1>4. Cardinality(Orphans') <= Causes'
  BY <1>2, <1>3
<1> QED
  BY <1>4 DEF OrphanInv

\* A step that orphans one object, and is a cause of one.
LEMMA OneOrphaned ==
    ASSUME OrphanInv, UploadInv', IsFiniteSet(objects'),
           NEW id, Orphans' \subseteq Orphans \cup {id},
           Causes' = Causes + 1
    PROVE  OrphanInv'
<1>1. IsFiniteSet(Orphans)
  BY FS_Subset DEF OrphanInv, Orphans
<1>2. /\ IsFiniteSet(Orphans \cup {id})
      /\ Cardinality(Orphans \cup {id}) = IF id \in Orphans THEN Cardinality(Orphans)
                                          ELSE Cardinality(Orphans) + 1
      /\ Cardinality(Orphans) \in Nat
  BY <1>1, FS_AddElement, FS_CardinalityType
<1>3. Cardinality(Orphans') <= Cardinality(Orphans \cup {id}) /\ Cardinality(Orphans') \in Nat
  BY <1>2, FS_Subset, FS_CardinalityType
<1>4. Causes \in Nat /\ Cardinality(Orphans) <= Causes
  BY CausesType DEF OrphanInv
<1>5. Cardinality(Orphans') <= Causes'
  BY <1>2, <1>3, <1>4
<1> QED
  BY <1>5 DEF OrphanInv

LEMMA ErredCauses == ASSUME UploadInv, Errs(uploadFaults.kept) PROVE Causes' = Causes + 1
<1>1. uploadFaults.lost \in Nat /\ uploadFaults.errors \in Nat
  BY DEF UploadInv, UploadParts, FaultCounts
<1> QED
  BY <1>1, Erred DEF Causes

LEMMA DeletedCauses ==
    ASSUME UploadInv, NEW u \in Uploads, DeletesChunks(u)
    PROVE  Causes' \in {Causes, Causes + 1}
<1>1. uploadFaults.lost \in Nat /\ uploadFaults.errors \in Nat
  BY DEF UploadInv, UploadParts, FaultCounts
<1> QED
  BY <1>1, Deleted DEF Causes

\* A worker that has an object in its hands, for a file that is not there yet.
Holding(f) == finalizer[f].pc \in {"publish", "discard", "refused"}

LEMMA InHands == InHand = {finalizer[f].file : f \in {f \in Finalizers : Holding(f)}}
BY DEF InHand, Holding

LEMMA MovesHand ==
    ASSUME UploadInv, NEW f \in Finalizers, NEW new, finalizer' = [finalizer EXCEPT ![f] = new]
    PROVE  /\ \A x \in InHand : x \in InHand' \/ (Holding(f) /\ x = finalizer[f].file)
           /\ new.pc \in {"publish", "discard", "refused"} => new.file \in InHand'
<1>1. /\ finalizer'[f] = new
      /\ \A g \in Finalizers : g # f => finalizer'[g] = finalizer[g]
  BY DEF UploadInv, UploadParts
<1>2. ASSUME NEW x \in InHand, ~(Holding(f) /\ x = finalizer[f].file) PROVE x \in InHand'
  <2>1. PICK g \in Finalizers : Holding(g) /\ x = finalizer[g].file
    BY InHands
  <2>2. g # f /\ finalizer'[g] = finalizer[g]
    BY <1>1, <1>2, <2>1
  <2> QED
    BY <2>1, <2>2 DEF InHand, Holding
<1>3. new.pc \in {"publish", "discard", "refused"} => new.file \in InHand'
  BY <1>1 DEF InHand
<1> QED
  BY <1>2, <1>3

\* Steps of a worker that do not touch an object or a file.
LEMMA IdleHands ==
    ASSUME UploadInv, NEW f \in Finalizers, NEW new, finalizer' = [finalizer EXCEPT ![f] = new],
           ~Holding(f), UNCHANGED <<files, objects>>
    PROVE  Orphans' \subseteq Orphans
BY MovesHand DEF Orphans

\* A worker that moves on keeps the object it is about.
LEMMA MovesOn ==
    ASSUME UploadInv, NEW f \in Finalizers, NEW pc, Goes(f, pc)
    PROVE  \E new : /\ finalizer' = [finalizer EXCEPT ![f] = new]
                    /\ new.pc = pc /\ new.file = finalizer[f].file
<1>1. PICK new : new = [finalizer[f] EXCEPT !.pc = pc]
  OBVIOUS
<1>2. finalizer' = [finalizer EXCEPT ![f] = new]
  BY <1>1 DEF Goes
<1>3. new.pc = pc /\ new.file = finalizer[f].file
  BY <1>1 DEF UploadInv, UploadParts, FinalizerFields
<1> QED
  BY <1>2, <1>3

LEMMA ApiOrphans ==
    ASSUME OrphanInv, UploadInv',
           \/ \E u \in Uploads, rename \in BOOLEAN : CreateUpload(u, rename)
           \/ \E q \in Requests, u \in Uploads :
                  \/ \E c \in Chunks : PutChunk(q, u, c)
                  \/ Complete(q, u) \/ Cancel(q, u)
           \/ \E q \in Requests : Respond(q)
           \/ UNCHANGED uploadVars
    PROVE  OrphanInv'
<1>0. uploadFaults \in FaultCounts
  BY DEF OrphanInv, UploadInv, UploadParts
<1>1. UNCHANGED <<files, objects, finalizer>>
  BY DEF CreateUpload, PutChunk, Complete, Cancel, Reads, Respond, StoreChunk, RecordChunk,
         QueueUpload, SubmitUpload, SubmitFails, CancelUpload, PurgeUpload, uploadVars
<1>2. Causes' \in {Causes, Causes + 1}
  <2>1. CASE \E q \in Requests, u \in Uploads :
                 \/ \E c \in Chunks : PutChunk(q, u, c)
                 \/ Complete(q, u) \/ Cancel(q, u)
    <3>1. uploadFaults' = [uploadFaults EXCEPT !.requests = @ + 1]
      BY <2>1 DEF PutChunk, Complete, Cancel, Reads
    <3> QED
      BY <1>0, <3>1 DEF FaultCounts, Causes
  <2>2. ASSUME NEW q \in Requests, request[q].op # "none", NEW row, Writes(q, row)
        PROVE  Causes' = Causes
    BY <2>2, Written DEF OrphanInv, Causes
  <2>3. CASE \E q \in Requests : Respond(q)
    <3>1. PICK q \in Requests : Respond(q)
      BY <2>3
    <3>2. CASE PurgeUpload(q)
      <4>1. request[q].upload \in Uploads /\ DeletesChunks(request[q].upload)
        BY <3>2 DEF PurgeUpload, OrphanInv, UploadInv, Loaded
      <4> QED
        BY <4>1, DeletedCauses DEF OrphanInv
    <3>3. CASE StoreChunk(q) \/ SubmitUpload(q)
      BY <3>3 DEF StoreChunk, SubmitUpload, Causes
    <3>4. CASE RecordChunk(q) \/ QueueUpload(q) \/ SubmitFails(q) \/ CancelUpload(q)
      <4>1. request[q].op # "none" /\ \E row : Writes(q, row)
        BY <3>4 DEF RecordChunk, QueueUpload, SubmitFails, CancelUpload
      <4> QED
        BY <2>2, <4>1
    <3> QED
      BY <3>1, <3>2, <3>3, <3>4 DEF Respond
  <2>4. CASE \/ \E u \in Uploads, rename \in BOOLEAN : CreateUpload(u, rename)
             \/ UNCHANGED uploadVars
    BY <2>4 DEF CreateUpload, uploadVars, Causes
  <2> QED
    BY <2>1, <2>3, <2>4
<1>3. Orphans' = Orphans
  BY <1>1 DEF Orphans, InHand
<1> QED
  BY <1>1, <1>2, <1>3, NoneOrphaned DEF OrphanInv

LEMMA DeleteOrphans ==
    ASSUME OrphanInv, UploadInv', NEW h \in files, DeleteFile(h)
    PROVE  OrphanInv'
<1>1. files' = files \ {h} /\ UNCHANGED finalizer /\ DeletesObject(h.id) /\ InHand' = InHand
  BY DEF DeleteFile, InHand
<1>2. CASE objects' = objects \ {h.id} /\ UNCHANGED uploadFaults
  <2>1. IsFiniteSet(objects')
    BY <1>2, FS_RemoveElement DEF OrphanInv
  <2>2. Orphans' \subseteq Orphans /\ Causes' = Causes
    BY <1>1, <1>2 DEF Orphans, Causes
  <2> QED
    BY <2>1, <2>2, NoneOrphaned
<1>3. CASE UNCHANGED objects /\ Errs(uploadFaults.kept)
  <2>1. IsFiniteSet(objects') /\ Causes' = Causes + 1
    BY <1>3, ErredCauses DEF OrphanInv
  <2>2. PICK id : id = h.id
    OBVIOUS
  <2>3. Orphans' \subseteq Orphans \cup {id}
    BY <1>1, <1>3, <2>2 DEF Orphans
  <2> QED
    BY <2>1, <2>3, OneOrphaned
<1> QED
  BY <1>1, <1>2, <1>3 DEF DeletesObject

\* Between the object and its file it is in the hands of the worker.
LEMMA WorkOrphans ==
    ASSUME OrphanInv, UploadInv', NEW f \in Finalizers, Finalize(f),
           ~PublicationFails(f), ~Discard(f)
    PROVE  OrphanInv'
<1>0. UploadInv /\ IsFiniteSet(objects)
  BY DEF OrphanInv
<1>6. Causes' \in {Causes, Causes + 1}
  <2>1. CASE RetryFinalizer(f) \/ CleanUp(f)
    <3>1. Of(f) \in Uploads
      BY <1>0, <2>1, InWork DEF RetryFinalizer, CleanUp, At
    <3>2. DeletesChunks(Of(f)) \/ UNCHANGED uploadFaults
      BY <2>1 DEF RetryFinalizer, CleanUp
    <3> QED
      BY <1>0, <3>1, <3>2, DeletedCauses DEF Causes
  <2>2. CASE UNCHANGED uploadFaults
    BY <2>2 DEF Causes
  <2> QED
    BY <2>1, <2>2 DEF Finalize, Claim, Assemble, StoreFile, PublishFile, FailFinalizer
<1> SUFFICES IsFiniteSet(objects') /\ Orphans' \subseteq Orphans
  BY <1>6, NoneOrphaned
<1>1. CASE (\E t \in tasks : Claim(f, t)) \/ RetryFinalizer(f) \/ CleanUp(f)
  <2>1. ~Holding(f) /\ UNCHANGED <<files, objects>>
    BY <1>1 DEF Claim, RetryFinalizer, CleanUp, At, Holding
  <2>2. \E new : finalizer' = [finalizer EXCEPT ![f] = new]
    BY <1>1 DEF Claim, RetryFinalizer, CleanUp
  <2> QED
    BY <1>0, <2>1, <2>2, IdleHands
<1>5. CASE FailFinalizer(f)
  <2>1. ~Holding(f) /\ UNCHANGED <<files, objects>> /\ Goes(f, "clean")
    BY <1>5 DEF FailFinalizer, At, Holding
  <2> QED
    BY <1>0, <2>1, MovesOn, IdleHands
<1>2. CASE Assemble(f)
  <2>1. ~Holding(f) /\ UNCHANGED <<files, objects>>
    BY <1>2 DEF Assemble, At, Holding
  <2>2. \E new : finalizer' = [finalizer EXCEPT ![f] = new]
    <3>1. CASE chunks[Of(f)] = Chunks
      <4>1. PICK name : finalizer' = [finalizer EXCEPT ![f].pc = "store", ![f].name = name]
        BY <1>2, <3>1 DEF Assemble
      <4>2. finalizer' = [finalizer EXCEPT ![f] = [finalizer[f] EXCEPT !.pc = "store", !.name = name]]
        BY <1>0, <4>1 DEF UploadInv, UploadParts
      <4> QED
        BY <4>2
    <3>2. CASE chunks[Of(f)] # Chunks
      BY <1>0, <1>2, <3>2, MovesOn DEF Assemble
    <3> QED
      BY <3>1, <3>2
  <2> QED
    BY <1>0, <2>1, <2>2, IdleHands
<1>3. CASE StoreFile(f)
  <2>1. ~Holding(f) /\ UNCHANGED files
    BY <1>3 DEF StoreFile, At, Holding
  <2>2. CASE UNCHANGED objects /\ Goes(f, "fail")
    BY <1>0, <2>1, <2>2, MovesOn, IdleHands
  <2>3. CASE objects' = objects \cup {finalizer[f].file} /\ Goes(f, "publish")
    <3>1. PICK new : /\ finalizer' = [finalizer EXCEPT ![f] = new]
                     /\ new.pc = "publish" /\ new.file = finalizer[f].file
      BY <1>0, <2>3, MovesOn
    <3>2. IsFiniteSet(objects')
      BY <1>0, <2>3, FS_AddElement
    <3>3. finalizer[f].file \in InHand' /\ InHand \subseteq InHand'
      BY <1>0, <2>1, <3>1, MovesHand
    <3> QED
      BY <2>1, <2>3, <3>2, <3>3 DEF Orphans
  <2> QED
    BY <1>3, <2>2, <2>3 DEF StoreFile
<1>4. CASE PublishFile(f)
  <2> DEFINE id == finalizer[f].file
  <2>1. PICK pc : Goes(f, pc)
    BY <1>4 DEF PublishFile
  <2>2. /\ UNCHANGED objects
        /\ files \subseteq files'
        /\ Goes(f, "refused") \/ Goes(f, "discard") \/ \E g \in files' : g.id = id
    <3> DEFINE taken == \E g \in files : g.name = finalizer[f].name
               file == [id |-> id, name |-> finalizer[f].name, upload |-> Of(f)]
    <3>1. CASE taken
      BY <1>4, <3>1 DEF PublishFile
    <3>2. CASE ~taken /\ IsOver(Of(f))
      BY <1>4, <3>2 DEF PublishFile
    <3>3. CASE ~taken /\ ~IsOver(Of(f))
      <4>1. files' = files \cup {file} /\ UNCHANGED objects
        BY <1>4, <3>3 DEF PublishFile
      <4>2. file.id = id
        OBVIOUS
      <4> QED
        BY <4>1, <4>2
    <3> QED
      BY <3>1, <3>2, <3>3
  <2>3. InHand \subseteq InHand' \cup {id}
    <3>1. PICK new : finalizer' = [finalizer EXCEPT ![f] = new]
      BY <1>0, <2>1, MovesOn
    <3> QED
      BY <1>0, <3>1, MovesHand
  <2>4. id \in InHand' \/ \E g \in files' : g.id = id
    <3>1. CASE Goes(f, "refused") \/ Goes(f, "discard")
      <4>1. PICK new : /\ finalizer' = [finalizer EXCEPT ![f] = new]
                       /\ new.pc \in {"refused", "discard"} /\ new.file = id
        BY <1>0, <3>1, MovesOn
      <4> QED
        BY <1>0, <4>1, MovesHand
    <3> QED
      BY <2>2, <3>1
  <2>5. Orphans' \subseteq Orphans
    BY <2>2, <2>3, <2>4 DEF Orphans
  <2> QED
    BY <1>0, <2>2, <2>5
<1> QED
  BY <1>1, <1>2, <1>3, <1>4, <1>5 DEF Finalize

\* A publication that is rolled back, or taken back: the object stays after an error.
LEMMA BackOrphans ==
    ASSUME OrphanInv, UploadInv', NEW f \in Finalizers, PublicationFails(f) \/ Discard(f)
    PROVE  OrphanInv'
<1>0. UploadInv /\ IsFiniteSet(objects) /\ UNCHANGED files
  BY DEF OrphanInv, PublicationFails, Discard
<1>1. PICK id : id = finalizer[f].file
  OBVIOUS
<1>2. PICK pc : Goes(f, pc) /\ (PublicationFails(f) /\ UNCHANGED uploadFaults => pc = "refused")
  <2>1. CASE PublicationFails(f) /\ ~Goes(f, "refused")
    <3>1. Goes(f, "fail") /\ Errs(uploadFaults.kept)
      BY <2>1 DEF PublicationFails
    <3>2. Causes' = Causes + 1 /\ Causes \in Nat
      BY <1>0, <3>1, ErredCauses, CausesType
    <3>3. ~UNCHANGED uploadFaults
      BY <3>2 DEF Causes
    <3> QED
      BY <3>1, <3>3
  <2>2. CASE PublicationFails(f) /\ Goes(f, "refused")
    BY <2>2
  <2>3. CASE Discard(f) /\ ~PublicationFails(f)
    BY <2>3 DEF Discard
  <2> QED
    BY <2>1, <2>2, <2>3
<1>3. PICK new : /\ finalizer' = [finalizer EXCEPT ![f] = new]
                 /\ new.pc = pc /\ new.file = id
  BY <1>0, <1>1, <1>2, MovesOn
<1>4. InHand \subseteq InHand' \cup {id} /\ (pc = "refused" => id \in InHand')
  BY <1>0, <1>1, <1>3, MovesHand
<1>5. CASE Errs(uploadFaults.kept)
  <2>1. objects' = objects \/ objects' = objects \ {id}
    BY <1>1 DEF PublicationFails, Discard, DeletesObject
  <2>2. IsFiniteSet(objects')
    BY <1>0, <2>1, FS_RemoveElement
  <2>3. Orphans' \subseteq Orphans \cup {id}
    BY <1>0, <1>4, <2>1 DEF Orphans
  <2> QED
    BY <1>0, <1>5, <2>2, <2>3, ErredCauses, OneOrphaned
<1>6. CASE UNCHANGED uploadFaults
  <2>1. CASE PublicationFails(f)
    <3>1. UNCHANGED objects
      BY <2>1 DEF PublicationFails
    <3>2. Orphans' \subseteq Orphans /\ Causes' = Causes
      BY <1>0, <1>2, <1>4, <1>6, <2>1, <3>1 DEF Orphans, Causes
    <3> QED
      BY <1>0, <3>1, <3>2, NoneOrphaned
  <2>2. CASE Discard(f) /\ objects' = objects \ {id}
    <3>1. IsFiniteSet(objects')
      BY <1>0, <2>2, FS_RemoveElement
    <3>2. Orphans' \subseteq Orphans /\ Causes' = Causes
      BY <1>0, <1>4, <1>6, <2>2 DEF Orphans, Causes
    <3> QED
      BY <3>1, <3>2, NoneOrphaned
  <2>3. CASE Discard(f) /\ Errs(uploadFaults.kept)
    BY <1>5, <2>3
  <2> QED
    BY <1>1, <2>1, <2>2, <2>3 DEF Discard, DeletesObject
<1> QED
  BY <1>5, <1>6 DEF PublicationFails, Discard, DeletesObject

\* A lost worker leaves the one object it had in its hands.
LEMMA LoseOrphans ==
    ASSUME OrphanInv, UploadInv', NEW f \in Finalizers, LoseFinalizer(f)
    PROVE  OrphanInv'
<1> DEFINE id == finalizer[f].file
<1>1. /\ finalizer' = [finalizer EXCEPT ![f] = IdleFinalizer]
      /\ uploadFaults' = [uploadFaults EXCEPT !.lost = @ + 1] /\ UNCHANGED <<files, objects>>
  BY DEF LoseFinalizer
<1>2. Causes' = Causes + 1
  <2>1. uploadFaults \in FaultCounts
    BY DEF OrphanInv, UploadInv, UploadParts
  <2> QED
    BY <1>1, <2>1 DEF FaultCounts, Causes
<1>3. Orphans' \subseteq Orphans \cup {id}
  <2>1. InHand \subseteq InHand' \cup {id}
    BY <1>1, MovesHand DEF OrphanInv
  <2> QED
    BY <1>1, <2>1 DEF Orphans
<1> QED
  BY <1>1, <1>2, <1>3, OneOrphaned DEF OrphanInv

\* An object that no file refers to was left by a lost worker or an error, one by each,
\* however long the history of uploads, deletions, refused and repeated publications.
THEOREM OrphansBounded == UploadsSpec => []OrphansHaveACause
<1>1. UploadsInit => OrphanInv
  <2> SUFFICES ASSUME UploadsInit PROVE OrphanInv
    OBVIOUS
  <2>1. objects = {g.id : g \in files} /\ Causes = 0
    BY DEF UploadsInit, Causes
  <2>2. objects = {} \/ \E x : objects = {x}
    <3>1. files = {} \/ \E g : files = {g}
      BY DEF UploadsInit
    <3>2. ASSUME NEW g, files = {g} PROVE objects = {g.id}
      BY <2>1, <3>2
    <3> QED
      BY <2>1, <3>1, <3>2
  <2>3. IsFiniteSet(objects)
    BY <2>2, FS_EmptySet, FS_Singleton
  <2>4. Orphans = {}
    BY <2>1 DEF Orphans
  <2> QED
    BY <2>1, <2>3, <2>4, UploadStart, FS_EmptySet DEF OrphanInv
<1>2. OrphanInv /\ [UploadsNext]_uploadVars => OrphanInv'
  <2> SUFFICES ASSUME OrphanInv, [UploadsNext]_uploadVars PROVE OrphanInv'
    OBVIOUS
  <2>1. UploadInv'
    BY UploadStep DEF OrphanInv
  <2> QED
    BY <2>1, ApiOrphans, DeleteOrphans, WorkOrphans, BackOrphans, LoseOrphans DEF UploadsNext
<1>3. OrphanInv => OrphansHaveACause
  BY DEF OrphanInv, OrphansHaveACause, Orphans, Causes
<1> QED
  BY <1>1, <1>2, <1>3, PTL DEF UploadsSpec
===============================================================================
