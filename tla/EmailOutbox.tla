----------------------------- MODULE EmailOutbox -----------------------------
(***************************************************************************)
(* Notification e-mails of one account: the outbox rows that a             *)
(* notification adds, the periodic task that claims what is due, groups it *)
(* to messages and hands them to SMTP between short transactions, and the  *)
(* preferences that may change at any point of it.                         *)
(***************************************************************************)
EXTENDS Integers, FiniteSets

CONSTANTS
    Emails,             \* rows of the outbox, each for a notification of its own domain
    Mailers,            \* workers of the maintenance queue
    MaxSendAttempts,    \* MAX_ATTEMPTS
    MaxUpdates,         \* bound on the changes of the preferences
    MaxMailFaults       \* bound on lost workers, on leases that lapse under a worker, and
                        \* on messages that SMTP accepts and reports as failed

ASSUME EmailBounds == /\ MaxSendAttempts \in Nat \ {0}
                      /\ {MaxUpdates, MaxMailFaults} \subseteq Nat

VARIABLES
    outbox,         \* notification_deliveries: [status, attempts, due, leased]
    preference,     \* user_notification_preferences: [enabled, digest, muted]
    mailer,         \* per worker: the groups it has still to send and the one in its hand
    accepted,       \* how often SMTP has accepted the e-mail
    silenced,       \* what an opt-out suppressed while no worker was sending it
    mailFaults      \* changes, lost workers, lapsed leases and unclear errors so far

mailVars == <<outbox, preference, mailer, accepted, silenced, mailFaults>>

Idle == [pc |-> "idle", groups |-> {}, hand |-> {}]

EmailTypeOK ==
    /\ outbox \in [Emails -> [status : {"none", "added", "pending", "processing", "delivered",
                                        "suppressed", "failed"},
                              attempts : 0..MaxSendAttempts + MaxMailFaults, due : BOOLEAN, leased : BOOLEAN]]
    /\ preference \in [enabled : BOOLEAN, digest : BOOLEAN, muted : SUBSET Emails]
    /\ mailer \in [Mailers -> [pc : {"idle", "group", "recheck", "send", "sent", "refused"},
                               groups : SUBSET SUBSET Emails, hand : SUBSET Emails]]
    /\ accepted \in [Emails -> Nat]
    /\ silenced \subseteq Emails
    /\ mailFaults \in [updates : 0..MaxUpdates, lost : 0..MaxMailFaults,
                       lapsed : 0..MaxMailFaults, unclear : 0..MaxMailFaults]

EmailInit ==
    /\ outbox = [e \in Emails |-> [status |-> "none", attempts |-> 0, due |-> FALSE,
                                   leased |-> FALSE]]
    /\ preference = [enabled |-> TRUE, digest |-> FALSE, muted |-> {}]
    /\ mailer = [m \in Mailers |-> Idle]
    /\ accepted = [e \in Emails |-> 0]
    /\ silenced = {}
    /\ mailFaults = [updates |-> 0, lost |-> 0, lapsed |-> 0, unclear |-> 0]
-----------------------------------------------------------------------------
In(statuses) == {e \in Emails : outbox[e].status \in statuses}
Wanted(e) == preference.enabled /\ e \notin preference.muted

\* The rows of a set become suppressed.
Suppressed(es) ==
    outbox' = [e \in Emails |-> IF e \in es THEN [outbox[e] EXCEPT !.status = "suppressed",
                                                                   !.leased = FALSE]
                                ELSE outbox[e]]

Fault(kind) == /\ mailFaults.lost + mailFaults.lapsed + mailFaults.unclear < MaxMailFaults
               /\ mailFaults' = [mailFaults EXCEPT ![kind] = @ + 1]

\* add_user_notification: the row is added by the preferences as they are read and
\* seen by others when the caller commits.
AddEmail(e) ==
    /\ outbox[e].status = "none" /\ Wanted(e)
    /\ outbox' = [outbox EXCEPT ![e].status = "added", ![e].due = ~preference.digest]
    /\ UNCHANGED <<preference, mailer, accepted, silenced, mailFaults>>

CommitEmail(e) ==
    /\ outbox[e].status = "added"
    /\ outbox' = [outbox EXCEPT ![e].status = "pending"]
    /\ UNCHANGED <<preference, mailer, accepted, silenced, mailFaults>>

\* next_attempt_at passes: the boundary of a digest, or the backoff of a retry.
FallDue(e) ==
    /\ outbox[e].status = "pending" /\ ~outbox[e].due
    /\ outbox' = [outbox EXCEPT ![e].due = TRUE]
    /\ UNCHANGED <<preference, mailer, accepted, silenced, mailFaults>>

\* Mutation: a lease does not exclude others.
DueOrProcessing == {e \in In({"pending"}) : outbox[e].due} \cup In({"processing"})
DueEmails == {e \in In({"pending"}) : outbox[e].due} \cup {e \in In({"processing"}) : ~outbox[e].leased}

\* dispatch_email_outbox, first transaction: the preference row excludes other workers.
ClaimEmails(m) ==
    /\ mailer[m].pc = "idle" /\ DueEmails # {}
    /\ outbox' = [e \in Emails |-> IF e \in DueEmails THEN [outbox[e] EXCEPT !.status = "processing",
                                                                             !.leased = TRUE]
                                   ELSE outbox[e]]
    /\ mailer' = [mailer EXCEPT ![m] = [pc |-> "group", groups |-> {DueEmails}, hand |-> {}]]
    /\ UNCHANGED <<preference, accepted, silenced, mailFaults>>

\* What the worker does when it has the groups gs left.
Continues(m, gs) ==
    mailer' = [mailer EXCEPT ![m] = IF gs = {} THEN Idle
                                    ELSE [pc |-> "recheck", groups |-> gs, hand |-> {}]]

\* Second transaction: one message of all for a digest, and one of each otherwise.
GroupEmails(m) ==
    /\ mailer[m].pc = "group"
    /\ LET held == (UNION mailer[m].groups) \cap In({"processing"})
           kept == {e \in held : Wanted(e)}
       IN  /\ Suppressed(held \ kept)
           /\ Continues(m, IF preference.digest THEN {kept} \ {{}} ELSE {{e} : e \in kept})
    /\ UNCHANGED <<preference, accepted, silenced, mailFaults>>

\* Mutation: an e-mail that was suppressed in the meantime is sent all the same.
StillClaimed(es) == es
StillHeld(es) == es \cap In({"processing"})

\* "Re-check opt-out and category mutes just before handing content to SMTP."
RecheckGroup(m) ==
    /\ mailer[m].pc = "recheck"
    /\ \E group \in mailer[m].groups :
           LET held == StillHeld(group)
               kept == {e \in held : Wanted(e)}
               rest == mailer[m].groups \ {group}
           IN  /\ Suppressed(held \ kept)
               /\ IF kept = {} THEN Continues(m, rest)
                  ELSE mailer' = [mailer EXCEPT ![m] = [pc |-> "send", groups |-> rest,
                                                        hand |-> kept]]
    /\ UNCHANGED <<preference, accepted, silenced, mailFaults>>

\* _send_email: the server accepts the message or it fails, and it may have been
\* accepted although the client sees an error.
SendGroup(m) ==
    /\ mailer[m].pc = "send"
    /\ \E taken, told \in BOOLEAN :
           /\ told => taken
           /\ IF taken /\ ~told THEN Fault("unclear") ELSE UNCHANGED mailFaults
           /\ accepted' = [e \in Emails |-> IF taken /\ e \in mailer[m].hand THEN accepted[e] + 1
                                            ELSE accepted[e]]
           /\ mailer' = [mailer EXCEPT ![m].pc = IF told THEN "sent" ELSE "refused"]
    /\ UNCHANGED <<outbox, preference, silenced>>

IsExhausted(n) == n >= MaxSendAttempts

\* The result, whatever has become of the rows.
AfterSend(e) == [outbox[e] EXCEPT !.status = "delivered", !.leased = FALSE]
AfterError(e) ==
    LET n == outbox[e].attempts + 1
    IN  [status |-> IF IsExhausted(n) THEN "failed" ELSE "pending", attempts |-> n, due |-> FALSE,
         leased |-> FALSE]

RecordGroup(m) ==
    /\ mailer[m].pc \in {"sent", "refused"}
    /\ outbox' = [e \in Emails |-> IF e \notin mailer[m].hand THEN outbox[e]
                                   ELSE IF mailer[m].pc = "sent" THEN AfterSend(e) ELSE AfterError(e)]
    /\ Continues(m, mailer[m].groups)
    /\ UNCHANGED <<preference, accepted, silenced, mailFaults>>

\* A worker that dies; its task is delivered again, which is one more dispatch.
LoseMailer(m) ==
    /\ mailer[m].pc # "idle"
    /\ Fault("lost")
    /\ mailer' = [mailer EXCEPT ![m] = Idle]
    /\ UNCHANGED <<outbox, preference, accepted, silenced>>

\* 20 minutes pass after the claim.
HasEmail(m, e) == e \in mailer[m].hand \cup UNION mailer[m].groups
LapseEmail(e) ==
    /\ outbox[e].status = "processing" /\ outbox[e].leased
    /\ IF \E m \in Mailers : HasEmail(m, e) THEN Fault("lapsed") ELSE UNCHANGED mailFaults
    /\ outbox' = [outbox EXCEPT ![e].leased = FALSE]
    /\ UNCHANGED <<preference, mailer, accepted, silenced>>
-----------------------------------------------------------------------------
\* Mutation: only what is queued is suppressed.
OptOutQueued == In({"pending"})
OptOut == In({"pending", "processing"})

\* What is pending is dated again when the schedule changes.
Redated(e, digest) == IF outbox[e].status = "pending" THEN [outbox[e] EXCEPT !.due = ~digest]
                      ELSE outbox[e]

\* update_notification_preferences, in one transaction.
UpdatePreferences(new) ==
    /\ mailFaults.updates < MaxUpdates /\ new # preference
    /\ mailFaults' = [mailFaults EXCEPT !.updates = @ + 1]
    /\ preference' = new
    /\ LET unwanted == IF preference.enabled /\ ~new.enabled THEN Emails
                       ELSE new.muted \ preference.muted
       IN  /\ outbox' = [e \in Emails |->
                  IF e \in OptOut \cap unwanted
                  THEN [outbox[e] EXCEPT !.status = "suppressed", !.leased = FALSE]
                  ELSE IF new.digest # preference.digest THEN Redated(e, new.digest)
                  ELSE outbox[e]]
           /\ silenced' = silenced \cup {e \in unwanted \cap In({"pending", "processing"}) :
                                          \A m \in Mailers : e \notin mailer[m].hand}
    /\ UNCHANGED <<mailer, accepted>>

Mail(m) == ClaimEmails(m) \/ GroupEmails(m) \/ RecheckGroup(m) \/ SendGroup(m) \/ RecordGroup(m)

EmailNext ==
    \/ \E e \in Emails : AddEmail(e) \/ CommitEmail(e) \/ FallDue(e) \/ LapseEmail(e)
    \/ \E m \in Mailers : Mail(m) \/ LoseMailer(m)
    \/ \E enabled, digest \in BOOLEAN, muted \in SUBSET Emails :
           UpdatePreferences([enabled |-> enabled, digest |-> digest, muted |-> muted])

EmailSpec == EmailInit /\ [][EmailNext]_mailVars
-----------------------------------------------------------------------------
\* "Delivery is at-least-once: an SMTP server may accept a message just before a worker
\* crash, so retries can duplicate it": nothing else duplicates an e-mail than a lost
\* worker, a lease that lapsed under one, and an error that hides an acceptance.
DuplicatesHaveACause ==
    \A e \in Emails :
        accepted[e] <= 1 + mailFaults.lost + mailFaults.lapsed + mailFaults.unclear

\* "Muting or opting out suppresses pending and claimed-but-not-yet-dispatched email
\* rows": such an e-mail is not sent later, not even after opting in again.
SilencedStaysUnsent == [][\A e \in silenced : accepted'[e] = accepted[e]]_mailVars
=============================================================================
