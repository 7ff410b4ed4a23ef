------------------------ MODULE RunEventProperties ------------------------
(***************************************************************************)
(* What the browsers of a DeepSpace stream may rely on.                    *)
(***************************************************************************)
EXTENDS RunEventStream

Watching == {r \in Readers : reader[r].pc \in {"replay", "live"}}
StreamIntact == faults.crashes = 0 /\ faults.lapses = 0 /\ ~full

\* The log never has a hole: a batch that failed, frames that a crash lost and an
\* error that was appended meanwhile leave no number behind that a cursor skips.
NoHoles == {e.seq : e \in log} = 1..Cardinality(log)

\* "Terminal frames are published only after durable flush by the worker": an end
\* that a browser has seen, or is about to receive, is the row of that number.
EndsAreDurable ==
    \A r \in Readers :
        \A e \in reader[r].seen \cup Events(reader[r].inbox) : e.kind \in Ends => e \in log

\* Every browser that watches sees an end, whatever Redis drops, unless the worker
\* was lost or nothing can be stored any more.
WatchersSeeAnEnd == \A r \in Readers : r \in Watching ~> (r \notin Watching \/ ~StreamIntact)

\* The log keeps the contract of EventLog: the unique (request, sequence) lets
\* neither a worker write behind an end it does not know of, nor an error slip in
\* before rows that were already stored.
Resumable == \A e \in log : e.seq > turn.base => e.kind \notin Ends
Contract == INSTANCE EventLog WITH resumable <- Resumable
FollowsContract == Contract!Spec
=============================================================================
