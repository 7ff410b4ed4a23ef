------------------------------ MODULE TurnLedger ------------------------------
(***************************************************************************)
(* What the turn queue of one conversation promises to its users, whatever *)
(* processes work on it: turns are taken one at a time and in order, what  *)
(* is being executed is neither put back nor ended, and what is completed  *)
(* was executed and stays completed.                                       *)
(***************************************************************************)
EXTENDS Naturals, FiniteSets

CONSTANTS
    Requests,
    Capacity    \* how many turns may wait or be active when another one enters

VARIABLES
    stage,      \* stage[r]: "absent", "queued", "active", or the outcome of its turn
    priority,   \* priority[r], place[r]: the order of the queue
    place,
    held,       \* the user, or an older release, has paused the queue
    serving,    \* the request that is being executed, if there is one
    served      \* the requests that have ever been executed

ledgerVars == <<stage, priority, place, held, serving, served>>

TurnOutcomes == {"completed", "failed", "cancelled"}
At(S) == {r \in Requests : stage[r] \in S}

Init == /\ stage = [r \in Requests |-> "absent"]
        /\ priority = [r \in Requests |-> 0]
        /\ place = [r \in Requests |-> 0]
        /\ held \in BOOLEAN
        /\ serving = {} /\ served = {}
-----------------------------------------------------------------------------
(* What users do. *)

\* A turn takes the last place, and an urgent one goes before the normal ones.
Enter(r) ==
    /\ stage[r] = "absent"
    /\ Cardinality(At({"queued", "active"})) < Capacity
    /\ stage' = [stage EXCEPT ![r] = "queued"]
    /\ \E urgency \in {0, 1} : priority' = [priority EXCEPT ![r] = urgency]
    /\ place' = [place EXCEPT ![r] = place'[r]]
    /\ \A q \in Requests : place[q] < place'[r]
    /\ UNCHANGED <<held, serving, served>>

Raise(r) ==
    /\ stage[r] = "queued"
    /\ priority' = [priority EXCEPT ![r] = priority'[r]]
    /\ \A q \in At({"queued"}) : priority[q] < priority'[r]
    /\ UNCHANGED <<stage, place, held, serving, served>>

Hold == held' \in BOOLEAN /\ UNCHANGED <<stage, priority, place, serving, served>>

\* Clearing withdraws what waits and what failed, and leaves the active turn to its worker.
Clear ==
    /\ stage' = [r \in Requests |-> IF stage[r] \in {"queued", "failed"} THEN "cancelled" ELSE stage[r]]
    /\ held' = FALSE
    /\ UNCHANGED <<priority, place, serving, served>>
-----------------------------------------------------------------------------
(* What becomes of a turn. *)

GoesFirst(r) == \A q \in At({"queued"}) :
                    \/ priority[r] > priority[q]
                    \/ priority[r] = priority[q] /\ place[r] <= place[q]

Becomes(r, to) == /\ stage' = [stage EXCEPT ![r] = to]
                  /\ UNCHANGED <<priority, place, held, serving, served>>

Begin(r) ==
    /\ ~held
    /\ At({"active"}) = {}
    /\ stage[r] = "queued" /\ GoesFirst(r)
    /\ Becomes(r, "active")

\* An active turn that nobody executes goes back to its place.
Return(r) ==
    /\ stage[r] = "active" /\ r \notin serving
    /\ Becomes(r, "queued")

\* An outcome may come after the turn was put back, or correct an earlier one.
Finish(r, outcome) ==
    /\ stage[r] \notin {"absent", "completed"} /\ r \notin serving
    /\ outcome = "completed" => r \in served
    /\ Becomes(r, outcome)

\* Recovery finds that a cancelled turn waits for its user.
Reopen(r) ==
    /\ stage[r] = "cancelled"
    /\ At({"active"}) = {}
    /\ Becomes(r, "active")

Serve(r) ==
    /\ serving = {}
    /\ stage[r] = "active"
    /\ serving' = {r}
    /\ served' = served \cup {r}
    /\ UNCHANGED <<stage, priority, place, held>>

Leave == serving' = {} /\ UNCHANGED <<stage, priority, place, held, served>>
-----------------------------------------------------------------------------
Next == \/ Hold \/ Clear \/ Leave
        \/ \E r \in Requests : \/ Enter(r) \/ Raise(r) \/ Begin(r) \/ Return(r) \/ Reopen(r) \/ Serve(r)
                               \/ \E outcome \in TurnOutcomes : Finish(r, outcome)

Spec == Init /\ [][Next]_ledgerVars
=============================================================================
