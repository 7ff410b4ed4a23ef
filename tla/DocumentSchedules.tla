--------------------------- MODULE DocumentSchedules ---------------------------
(***************************************************************************)
(* The automation schedules of the documents: the tick of the beat         *)
(* (apply_classification_schedules) that loads the schedules that are due, *)
(* reserves their next slot and applies their rules to all documents in    *)
(* batches, beside other ticks, the edits of the schedules, and uploads    *)
(* and deletions of documents.  All schedules have an interval of one      *)
(* tick, and every one applies one rule.                                   *)
(***************************************************************************)
EXTENDS FiniteSets, Integers, Sequences, SequencesExt

CONSTANTS
    Schedules,
    Dispatchers,        \* workers that may execute a tick, and "nobody"
    RuleBatch,          \* run_rule: 250
    MaxDocuments,       \* bound on the documents
    MaxTime,            \* bound on the time
    MaxTroubles         \* bound on the edits of a schedule, the deleted documents and
                        \* the lost workers together

ASSUME ScheduleBounds ==
    /\ IsFiniteSet(Schedules)
    /\ "nobody" \notin Dispatchers /\ RuleBatch \in Nat \ {0}
    /\ {MaxDocuments, MaxTime, MaxTroubles} \subseteq Nat /\ MaxDocuments > 0

VARIABLES
    time,
    schedules,      \* document_automation_schedules: [there, enabled, next]
    holder,         \* per schedule: the tick that has its row locked
    present,        \* the documents that are not deleted, numbered as they were uploaded
    latest,         \* the number of the last one
    dispatcher,     \* per worker: where its tick is
    slotRuns,       \* the runs of each slot (the time a schedule was due) so far
    scheduleFaults  \* the troubles so far; whether a tick loaded several rows

scheduleVars == <<time, schedules, holder, present, latest, dispatcher, slotRuns, scheduleFaults>>

Trouble == /\ scheduleFaults.troubles < MaxTroubles
           /\ scheduleFaults' = [scheduleFaults EXCEPT !.troubles = @ + 1]

Slots == 0..MaxTime + 1
Unoccupied == [pc |-> "idle", now |-> 0, todo |-> <<>>, slots |-> <<>>, offset |-> 0,
               seen |-> {}, since |-> {}, hidden |-> 0]

SchedulesTypeOK ==
    /\ time \in 0..MaxTime
    /\ schedules \in [Schedules -> [there : BOOLEAN, enabled : BOOLEAN, next : Slots]]
    /\ holder \in [Schedules -> Dispatchers \cup {"nobody"}]
    /\ latest \in 0..MaxDocuments /\ present \subseteq 1..latest
    /\ \A d \in Dispatchers :
           LET t == dispatcher[d]
           IN  /\ DOMAIN t = DOMAIN Unoccupied
               /\ t.pc \in {"idle", "begin", "scan", "finish"} /\ t.now \in 0..time
               /\ ToSet(t.todo) \subseteq Schedules /\ IsInjective(t.todo)
               /\ t.offset \in Nat /\ t.seen \cup t.since \subseteq 1..latest
               /\ t.hidden \in 0..MaxTroubles
    /\ \A s \in Schedules, k \in Slots : slotRuns[s][k] \in Nat
    /\ scheduleFaults \in [troubles : 0..MaxTroubles, together : BOOLEAN]

SchedulesInit ==
    /\ time = 0
    /\ schedules \in {[s \in Schedules |-> [there |-> TRUE, enabled |-> s \in on, next |-> 0]] :
                         on \in SUBSET Schedules}
    /\ holder = [s \in Schedules |-> "nobody"]
    /\ latest = MaxDocuments - 1 /\ present = 1..latest
    /\ dispatcher = [d \in Dispatchers |-> Unoccupied]
    /\ slotRuns = [s \in Schedules |-> [k \in Slots |-> 0]]
    /\ scheduleFaults = [troubles |-> 0, together |-> FALSE]
-----------------------------------------------------------------------------
Unheld(s) == holder[s] = "nobody"
Releases(d) == holder' = [s \in Schedules |-> IF holder[s] = d THEN "nobody" ELSE holder[s]]

DueNow(s) == schedules[s].there /\ schedules[s].enabled /\ schedules[s].next <= time

\* next_schedule_run, the next slot after now.  Mutation: the slot now begins with.
SlotFrom(now) == now
SlotAfter(now) == now + 1

Tock == /\ time < MaxTime
        /\ time' = time + 1
        /\ UNCHANGED <<schedules, holder, present, latest, dispatcher, slotRuns, scheduleFaults>>

\* The rows that are due are locked; those that are locked by others are skipped.
LoadDue(d) ==
    LET due == {s \in Schedules : DueNow(s) /\ Unheld(s)}
    IN  /\ dispatcher[d].pc = "idle" /\ due # {}
        /\ \E order \in SetToSeqs(due) :
               dispatcher' = [dispatcher EXCEPT ![d] =
                   [Unoccupied EXCEPT !.pc = "begin", !.now = time, !.todo = order,
                                      !.slots = [s \in due |-> schedules[s].next]]]
        /\ holder' = [s \in Schedules |-> IF s \in due THEN d ELSE holder[s]]
        /\ scheduleFaults' = [scheduleFaults EXCEPT !.together = @ \/ Cardinality(due) > 1]
        /\ UNCHANGED <<time, schedules, present, latest, slotRuns>>

\* The commit that reserves the next slot and creates the run: it releases every row.
BeginRun(d) ==
    LET s == Head(dispatcher[d].todo)
    IN  /\ dispatcher[d].pc = "begin"
        /\ Unheld(s) \/ holder[s] = d
        /\ Releases(d)
        /\ IF schedules[s].there
           THEN /\ schedules' = [schedules EXCEPT ![s].next = SlotAfter(dispatcher[d].now)]
                /\ slotRuns' = [slotRuns EXCEPT ![s][dispatcher[d].slots[s]] = @ + 1]
                /\ dispatcher' = [dispatcher EXCEPT ![d] =
                       [@ EXCEPT !.pc = "scan", !.offset = 0, !.seen = {},
                                 !.since = present, !.hidden = 0]]
           ELSE \* the row is gone, the commit raises and the tick ends
                /\ dispatcher' = [dispatcher EXCEPT ![d] = Unoccupied]
                /\ UNCHANGED <<schedules, slotRuns>>
        /\ UNCHANGED <<time, present, latest, scheduleFaults>>

\* Mutation: a full batch is taken for the last one.
IsLastOrFull(rows) == Cardinality(rows) <= RuleBatch
IsLast(rows) == Cardinality(rows) < RuleBatch

\* run_rule, one batch of list_by_tenant, newest first, and its commit.
ScanBatch(d) ==
    LET t    == dispatcher[d]
        rows == {n \in present :
                    Cardinality({m \in present : m > n}) \in t.offset..t.offset + RuleBatch - 1}
    IN  /\ t.pc = "scan"
        /\ dispatcher' = [dispatcher EXCEPT ![d] =
               [t EXCEPT !.seen = t.seen \cup rows, !.offset = t.offset + Cardinality(rows),
                         !.pc = IF IsLast(rows) THEN "finish" ELSE "scan"]]
        /\ UNCHANGED <<time, schedules, holder, present, latest, slotRuns, scheduleFaults>>

\* The run is completed; of a schedule that was deleted its update raises, and the tick ends.
FinishRun(d) ==
    LET rest == Tail(dispatcher[d].todo)
    IN  /\ dispatcher[d].pc = "finish"
        /\ Unheld(Head(dispatcher[d].todo))
        /\ dispatcher' = [dispatcher EXCEPT ![d] =
               IF schedules[Head(@.todo)].there /\ rest # <<>>
               THEN [Unoccupied EXCEPT !.pc = "begin", !.now = dispatcher[d].now, !.todo = rest,
                                       !.slots = dispatcher[d].slots]
               ELSE Unoccupied]
        /\ UNCHANGED <<time, schedules, holder, present, latest, slotRuns, scheduleFaults>>

LoseDispatcher(d) ==
    /\ dispatcher[d].pc # "idle" /\ Trouble
    /\ dispatcher' = [dispatcher EXCEPT ![d] = Unoccupied]
    /\ Releases(d)
    /\ UNCHANGED <<time, schedules, present, latest, slotRuns>>
-----------------------------------------------------------------------------
\* update_automation_schedule, with the times or the switch, and delete_automation_schedule.
EditSchedule(s) ==
    /\ schedules[s].there /\ Unheld(s) /\ Trouble
    /\ \/ \E on \in BOOLEAN :
              schedules' = [schedules EXCEPT ![s].enabled = on, ![s].next = time + 1]
       \/ schedules' = [schedules EXCEPT ![s].there = FALSE]
    /\ UNCHANGED <<time, holder, present, latest, dispatcher, slotRuns>>

AddDocument ==
    /\ latest < MaxDocuments
    /\ latest' = latest + 1 /\ present' = present \cup {latest'}
    /\ UNCHANGED <<time, schedules, holder, dispatcher, slotRuns, scheduleFaults>>

\* A deletion, and for the runs that are scanning: one document that is no longer theirs.
RemoveDocument(x) ==
    /\ Trouble
    /\ present' = present \ {x}
    /\ dispatcher' = [d \in Dispatchers |->
           IF dispatcher[d].pc = "scan"
           THEN [dispatcher[d] EXCEPT !.since = @ \ {x}, !.hidden = @ + 1]
           ELSE dispatcher[d]]
    /\ UNCHANGED <<time, schedules, holder, latest, slotRuns>>

Dispatch(d) == LoadDue(d) \/ BeginRun(d) \/ ScanBatch(d) \/ FinishRun(d)

SchedulesNext ==
    \/ Tock
    \/ \E d \in Dispatchers : Dispatch(d) \/ LoseDispatcher(d)
    \/ \E s \in Schedules : EditSchedule(s)
    \/ AddDocument
    \/ \E x \in present : RemoveDocument(x)

SchedulesSpec == SchedulesInit /\ [][SchedulesNext]_scheduleVars
-----------------------------------------------------------------------------
\* "Reserve the next slot before processing so a slow run cannot be picked up again by the
\* next five-minute dispatcher tick": no slot of a schedule is run twice.
OncePerSlot == \A s \in Schedules, k \in Slots : slotRuns[s][k] <= 1

\* What the code keeps of it: ticks beside edits and lost workers do not run a slot twice as
\* long as no tick loads several schedules: only the first commit is made under the lock.
OncePerSlotAlone == scheduleFaults.together \/ OncePerSlot

\* A run that has read its last batch has seen every document that was there all the time,
\* but one for each document that was deleted meanwhile: the offsets of the batches shift.
ScansEverything ==
    \A d \in Dispatchers : dispatcher[d].pc = "finish" =>
        Cardinality(dispatcher[d].since \ dispatcher[d].seen) <= dispatcher[d].hidden
=============================================================================
