---------------------------- MODULE RunEventProofs ----------------------------
(***************************************************************************)
(* For every number of browsers and turns, queue size, batch size and      *)
(* fault: the types, that terminal frames are published only after the     *)
(* durable flush, that the log has no holes, and that it keeps the         *)
(* contract of EventLog.                                                   *)
(***************************************************************************)
EXTENDS RunEventProperties, SequenceTheorems, FiniteSetTheorems, TLAPS

-----------------------------------------------------------------------------
(* Sequences of events. *)

LEMMA EventsOfAppend ==
    ASSUME NEW S, NEW s \in Seq(S), NEW e \in S
    PROVE  Append(s, e) \in Seq(S) /\ Events(Append(s, e)) = Events(s) \cup {e}
                                   /\ Len(Append(s, e)) = Len(s) + 1
<1>1. Append(s, e) \in Seq(S) /\ Len(Append(s, e)) = Len(s) + 1
      /\ (\A i \in 1..Len(s) : Append(s, e)[i] = s[i]) /\ Append(s, e)[Len(s) + 1] = e
  BY AppendProperties
<1>2. DOMAIN s = 1..Len(s) /\ DOMAIN Append(s, e) = 1..Len(s) + 1 /\ Len(s) \in Nat
  BY <1>1, LenProperties
<1>3. \A i \in 1..Len(s) + 1 : i \in 1..Len(s) \/ i = Len(s) + 1
  BY <1>2
<1>4. \A i \in 1..Len(s) : i \in 1..Len(s) + 1
  BY <1>2
<1>5. Len(s) + 1 \in 1..Len(s) + 1
  BY <1>2
<1>6. Events(Append(s, e)) \subseteq Events(s) \cup {e}
  BY <1>1, <1>2, <1>3 DEF Events
<1>7. Events(s) \cup {e} \subseteq Events(Append(s, e))
  BY <1>1, <1>2, <1>4, <1>5 DEF Events
<1> QED
  BY <1>1, <1>6, <1>7

LEMMA EventsOfTail ==
    ASSUME NEW S, NEW s \in Seq(S), s # <<>>
    PROVE  /\ Head(s) \in S /\ Tail(s) \in Seq(S) /\ Len(Tail(s)) = Len(s) - 1
           /\ Events(s) = {Head(s)} \cup Events(Tail(s))
<1>1. /\ Head(s) \in S /\ Tail(s) \in Seq(S) /\ Len(Tail(s)) = Len(s) - 1
      /\ \A i \in 1..Len(Tail(s)) : Tail(s)[i] = s[i + 1]
  BY HeadTailProperties
<1>2. Len(s) \in Nat \ {0} /\ DOMAIN s = 1..Len(s) /\ DOMAIN Tail(s) = 1..Len(s) - 1 /\ Head(s) = s[1]
  BY <1>1, LenProperties, EmptySeq, HeadTailProperties
<1>3. \A i \in 1..Len(s) : i = 1 \/ (i - 1 \in 1..Len(s) - 1 /\ Tail(s)[i - 1] = s[i])
  BY <1>1, <1>2
<1>4. \A i \in 1..Len(s) - 1 : i + 1 \in 1..Len(s) /\ Tail(s)[i] = s[i + 1]
  BY <1>1, <1>2
<1>5. 1 \in 1..Len(s)
  BY <1>2
<1>6. Events(s) \subseteq {Head(s)} \cup Events(Tail(s))
  <2> SUFFICES ASSUME NEW i \in 1..Len(s) PROVE s[i] \in {Head(s)} \cup Events(Tail(s))
    BY <1>2 DEF Events
  <2> QED
    BY <1>2, <1>3 DEF Events
<1>7. {Head(s)} \cup Events(Tail(s)) \subseteq Events(s)
  BY <1>2, <1>4, <1>5 DEF Events
<1> QED
  BY <1>1, <1>6, <1>7

LEMMA NoEvents == Events(<<>>) = {} /\ (\A S : <<>> \in Seq(S)) /\ Len(<<>>) = 0
BY DEF Events

LEMMA EventsAreRows == ASSUME NEW S, NEW s \in Seq(S) PROVE Events(s) \subseteq S
BY ElementOfSeq, LenProperties DEF Events
-----------------------------------------------------------------------------
(* Types. *)

LEMMA Bounds == /\ QueueSize \in Nat \ {0} /\ BatchSize \in Nat \ {0} /\ MaxTurns \in Nat \ {0}
                /\ MaxDeltas \in Nat /\ MaxLosses \in Nat /\ MaxCrashes \in Nat
                /\ MaxLapses \in Nat /\ MaxOpens \in Nat /\ IsFiniteSet(Readers)
BY BoundsAssumption

ReaderRow == [pc : ReaderPcs, start : Nat, cursor : Nat, inbox : Seq(Rows),
              seen : SUBSET Rows, opens : 0..MaxOpens]
WorkerRow == [pc : WorkerPcs, next : Nat, event : Rows, ended : BOOLEAN]
QueuesOK == /\ durable \in Seq(Rows) /\ Len(durable) <= QueueSize
            /\ batch \in Seq(Rows) /\ Len(batch) <= BatchSize
            /\ live \in Seq(Rows) /\ Len(live) <= QueueSize
TurnOK == turn \in [began : 0..MaxTurns, due : BOOLEAN, base : Nat, deltas : 0..MaxDeltas]
BeatOK == beat \in [pc : {"idle", "latest", "commit"}, seq : Nat]
FaultsOK == faults \in [losses : 0..MaxLosses, crashes : 0..MaxCrashes, lapses : 0..MaxLapses]
FlagsOK == failed \in BOOLEAN /\ full \in BOOLEAN

LEMMA TypeParts ==
    TypeOK <=> /\ log \subseteq Rows /\ worker \in WorkerRow /\ QueuesOK /\ FlagsOK /\ TurnOK
               /\ BeatOK /\ reader \in [Readers -> ReaderRow] /\ FaultsOK
BY DEF TypeOK, WorkerRow, QueuesOK, FlagsOK, TurnOK, BeatOK, ReaderRow, FaultsOK

LEMMA LastSeqType ==
    ASSUME NEW rows, rows \subseteq Rows, NEW otherwise \in Nat
    PROVE  LastSeq(rows, otherwise) \in Nat
BY DEF LastSeq, Rows

LEMMA LatestType == log \subseteq Rows => Latest \in Nat
BY LastSeqType DEF Latest

\* What a queue takes and gives keeps its type and its size.
LEMMA RoomKeepsSize ==
    ASSUME NEW q \in Seq(Rows), Room(q), NEW e \in Rows
    PROVE  Append(q, e) \in Seq(Rows) /\ Len(Append(q, e)) <= QueueSize
<1>1. Len(q) \in Nat /\ QueueSize \in Nat
  BY Bounds, LenProperties
<1> QED
  BY <1>1, EventsOfAppend DEF Room

LEMMA PublishedType ==
    ASSUME reader \in [Readers -> ReaderRow], FaultsOK, NEW event \in Rows,
           NEW to \in SUBSET Subscribed, Published(event, to)
    PROVE  reader' \in [Readers -> ReaderRow] /\ FaultsOK'
<1>1. ASSUME NEW r \in Readers
      PROVE  [reader[r] EXCEPT !.inbox = Append(@, event)] \in ReaderRow
  <2>1. Append(reader[r].inbox, event) \in Seq(Rows)
    BY EventsOfAppend DEF ReaderRow
  <2> QED
    BY <2>1 DEF ReaderRow
<1>2. reader' \in [Readers -> ReaderRow]
  BY <1>1 DEF Published
<1>3. IsFiniteSet(Subscribed \ to) /\ Cardinality(Subscribed \ to) \in Nat
  BY Bounds, FS_Subset, FS_CardinalityType DEF Subscribed
<1>4. faults' = [faults EXCEPT !.losses = @ + Cardinality(Subscribed \ to)]
      /\ faults'.losses <= MaxLosses
  BY DEF Published
<1>5. faults.losses + Cardinality(Subscribed \ to) \in 0..MaxLosses
  BY <1>3, <1>4, Bounds DEF FaultsOK
<1> QED
  BY <1>2, <1>4, <1>5 DEF FaultsOK

LEMMA AppendErrorType ==
    ASSUME log \subseteq Rows, reader \in [Readers -> ReaderRow], FaultsOK,
           NEW row \in Rows, AppendError(row)
    PROVE  log' \subseteq Rows /\ reader' \in [Readers -> ReaderRow] /\ FaultsOK'
<1>1. CASE Refused({row})
  BY <1>1 DEF AppendError, FaultsOK
<1>2. CASE ~Refused({row})
  BY <1>2, PublishedType DEF AppendError
<1> QED
  BY <1>1, <1>2

LEMMA ErrorRowType == ASSUME NEW n \in Nat, NEW b \in 0..MaxTurns PROVE ErrorRow(n, b) \in Rows
BY DEF ErrorRow, Rows, Frames, Ends, Pauses

LEMMA ShowsType ==
    ASSUME reader \in [Readers -> ReaderRow], NEW r \in Readers, NEW rows, rows \subseteq Rows
    PROVE  Shows(r, rows) \in ReaderRow
<1>1. LastSeq(rows, reader[r].cursor) \in Nat
  BY LastSeqType DEF ReaderRow
<1> QED
  BY <1>1, NoEvents DEF Shows, ReaderRow, ReaderPcs

LEMMA SubscribeType ==
    ASSUME reader \in [Readers -> ReaderRow], NEW r \in Readers, NEW cursor \in Nat,
           reader[r].opens < MaxOpens, Subscribe(r, cursor)
    PROVE  reader' \in [Readers -> ReaderRow]
<1>1. reader[r].opens + 1 \in 0..MaxOpens
  BY Bounds DEF ReaderRow
<1>2. [ClosedReader EXCEPT !.pc = "replay", !.start = cursor, !.cursor = cursor,
                           !.opens = reader[r].opens + 1] \in ReaderRow
  BY <1>1, NoEvents DEF ClosedReader, ReaderRow, ReaderPcs
<1> QED
  BY <1>2 DEF Subscribe

LEMMA IdleWorkerType == IdleWorker \in WorkerRow
BY Bounds DEF IdleWorker, WorkerRow, WorkerPcs, NoEvent, Rows, Frames

LEMMA StreamTypeInit == Init => TypeOK
<1> SUFFICES ASSUME Init PROVE TypeOK
  OBVIOUS
<1>1. ClosedReader \in ReaderRow
  BY NoEvents, Bounds DEF ClosedReader, ReaderRow, ReaderPcs
<1>2. reader \in [Readers -> ReaderRow] /\ worker \in WorkerRow
  BY <1>1, IdleWorkerType DEF Init
<1>3. QueuesOK
  BY NoEvents, Bounds DEF Init, QueuesOK
<1>4. TurnOK
  BY Bounds DEF Init, TurnOK
<1>5. FaultsOK
  BY Bounds DEF Init, FaultsOK
<1>6. BeatOK /\ FlagsOK
  BY DEF Init, BeatOK, FlagsOK
<1> QED
  BY <1>2, <1>3, <1>4, <1>5, <1>6, TypeParts DEF Init

\* The bound on the executions holds because an answer checks it.
DueFits == turn.due => turn.began < MaxTurns

LEMMA DueFitsStep == TypeOK /\ DueFits /\ [Next]_vars => DueFits'
<1> SUFFICES ASSUME TypeOK, DueFits, [Next]_vars PROVE DueFits'
  OBVIOUS
<1>t. TurnOK
  BY TypeParts
<1>1. CASE Begin
  BY <1>1 DEF Begin, DueFits
<1>2. ASSUME NEW kind, Submit(kind) PROVE DueFits'
  BY <1>2, <1>t DEF Submit, DueFits, TurnOK
<1>3. ASSUME NEW r \in Readers, Answer(r) PROVE DueFits'
  BY <1>3, <1>t DEF Answer, DueFits, TurnOK
<1>4. CASE UNCHANGED turn
  BY <1>4 DEF DueFits
<1> QED
  BY <1>1, <1>2, <1>3, <1>4 DEF Next, Work, Beat, PutWakes, EndIsDurable, SubmitLive, Close, Collect,
     Persist, PersistFails, Publish, ReportReads, ReportCommits, StreamStops, LeaseExpires, BeatReads,
     BeatCommits, Open, Replay, Receive, Crash, QuotaReached, vars

\* The parts of TypeOK that an action touches, action by action.
LEMMA StreamTypeStep == TypeOK /\ DueFits /\ [Next]_vars => TypeOK'
<1> SUFFICES ASSUME TypeOK, DueFits, [Next]_vars PROVE TypeOK'
  OBVIOUS
<1> DEFINE Parts == /\ log \subseteq Rows /\ worker \in WorkerRow /\ QueuesOK /\ FlagsOK /\ TurnOK
                    /\ BeatOK /\ reader \in [Readers -> ReaderRow] /\ FaultsOK
<1>t. Parts
  BY TypeParts
<1>n. Latest \in Nat
  BY <1>t, LatestType
<1> SUFFICES Parts'
  BY DEF TypeOK, WorkerRow, QueuesOK, FlagsOK, TurnOK, BeatOK, ReaderRow, FaultsOK
<1>w. ASSUME NEW pc \in WorkerPcs
      PROVE  /\ \A next \in Nat : [worker EXCEPT !.pc = pc, !.next = next] \in WorkerRow
             /\ \A next \in Nat : [IdleWorker EXCEPT !.pc = pc, !.next = next] \in WorkerRow
             /\ \A next \in Nat, event \in Rows :
                    [worker EXCEPT !.pc = pc, !.next = next, !.event = event] \in WorkerRow
             /\ \A ended \in BOOLEAN : [worker EXCEPT !.pc = pc, !.ended = ended] \in WorkerRow
  BY <1>t, IdleWorkerType DEF WorkerRow
<1>p. \A pc \in {"idle", "run", "put", "join", "publish", "close", "report", "report_commit", "crashed"} :
         [worker EXCEPT !.pc = pc] \in WorkerRow
  BY <1>t DEF WorkerRow, WorkerPcs
<1>a. \A event : AfterPut(event) \in WorkerPcs
  BY DEF AfterPut, WorkerPcs
<1>1. CASE Begin
  <2>1. worker' \in WorkerRow
    <3>1. Latest + 1 \in Nat /\ "run" \in WorkerPcs
      BY <1>n DEF WorkerPcs
    <3> QED
      BY <1>1, <1>w, <3>1 DEF Begin
  <2>2. turn' \in [began : 0..MaxTurns, due : BOOLEAN, base : Nat, deltas : 0..MaxDeltas]
    BY <1>1, <1>t, <1>n, Bounds DEF Begin, TurnOK, DueFits
  <2> QED
    BY <1>1, <1>t, <2>1, <2>2 DEF Begin, QueuesOK, FlagsOK, TurnOK, BeatOK, FaultsOK
<1>2. ASSUME NEW kind \in Frames \ {"error"}, Submit(kind) PROVE Parts'
  <2> DEFINE event == [seq |-> worker.next, kind |-> kind, by |-> turn.began]
  <2>1. event \in Rows
    BY <1>t DEF Rows, WorkerRow, TurnOK
  <2>2. turn' \in [began : 0..MaxTurns, due : BOOLEAN, base : Nat, deltas : 0..MaxDeltas]
    BY SMTT(60), <1>2, <1>t, Bounds DEF Submit, TurnOK
  <2>3. durable' \in Seq(Rows) /\ Len(durable') <= QueueSize
    BY <1>2, <1>t, <2>1, RoomKeepsSize DEF Submit, QueuesOK
  <2>4. worker' \in WorkerRow
    <3>1. (IF Room(durable) THEN AfterPut(event) ELSE "put") \in WorkerPcs
      BY <1>a DEF WorkerPcs
    <3>2. worker' = [worker EXCEPT !.pc = IF Room(durable) THEN AfterPut(event) ELSE "put",
                                   !.next = @ + 1, !.event = event]
      BY <1>2 DEF Submit
    <3>3. worker.next + 1 \in Nat
      BY <1>t DEF WorkerRow
    <3> HIDE DEF event
    <3> QED
      BY <1>w, <2>1, <3>1, <3>2, <3>3
  <2> QED
    BY <1>2, <1>t, <2>2, <2>3, <2>4 DEF Submit, QueuesOK, FlagsOK, TurnOK, BeatOK, FaultsOK
<1>3. CASE PutWakes
  <2>1. durable' \in Seq(Rows) /\ Len(durable') <= QueueSize
    BY <1>3, <1>t, RoomKeepsSize DEF PutWakes, QueuesOK, WorkerRow
  <2>2. worker' \in WorkerRow
    BY <1>3, <1>t, <1>a DEF PutWakes, WorkerRow
  <2> QED
    BY <1>3, <1>t, <2>1, <2>2 DEF PutWakes, QueuesOK, FlagsOK, TurnOK, BeatOK, FaultsOK
<1>4. CASE EndIsDurable \/ StreamStops \/ Close
  <2>1. worker' \in WorkerRow
    BY <1>4, <1>p, IdleWorkerType DEF EndIsDurable, StreamStops, Close
  <2> QED
    BY <1>4, <1>t, <2>1 DEF EndIsDurable, StreamStops, Close, QueuesOK, FlagsOK, TurnOK, BeatOK, FaultsOK
<1>5. CASE SubmitLive
  <2>1. live' \in Seq(Rows) /\ Len(live') <= QueueSize
    BY <1>5, <1>t, RoomKeepsSize DEF SubmitLive, QueuesOK, WorkerRow
  <2>2. worker' \in WorkerRow
    <3>1. "close" \in WorkerPcs /\ "run" \in WorkerPcs
      BY DEF WorkerPcs
    <3>2. (worker.event.kind \in Ends) \in BOOLEAN
      OBVIOUS
    <3> QED
      BY <1>5, <1>w, <3>1, <3>2 DEF SubmitLive
  <2> QED
    BY <1>5, <1>t, <2>1, <2>2 DEF SubmitLive, QueuesOK, FlagsOK, TurnOK, BeatOK, FaultsOK
<1>6. CASE Collect
  <2>1. Head(durable) \in Rows /\ durable' \in Seq(Rows) /\ Len(durable') = Len(durable) - 1
    BY <1>6, <1>t, EventsOfTail DEF Collect, QueuesOK
  <2>2. batch' \in Seq(Rows) /\ Len(batch') = Len(batch) + 1
    BY <1>6, <1>t, <2>1, EventsOfAppend DEF Collect, QueuesOK
  <2>3. Len(durable') <= QueueSize /\ Len(batch') <= BatchSize
    BY <1>6, <1>t, <2>1, <2>2, Bounds, LenProperties DEF Collect, QueuesOK
  <2> QED
    BY <1>6, <1>t, <2>1, <2>2, <2>3 DEF Collect, QueuesOK, FlagsOK, TurnOK, BeatOK, FaultsOK
<1>7. CASE Persist
  <2>1. log' \subseteq Rows
    BY <1>7, <1>t, EventsAreRows DEF Persist, QueuesOK
  <2>2. QueuesOK'
    BY <1>7, <1>t, NoEvents, Bounds DEF Persist, QueuesOK
  <2> QED
    BY <1>7, <1>t, <2>1, <2>2 DEF Persist, FlagsOK, TurnOK, BeatOK, FaultsOK
<1>8. CASE PersistFails
  <2>1. QueuesOK'
    BY <1>8, <1>t, NoEvents, Bounds DEF PersistFails, QueuesOK
  <2> QED
    BY <1>8, <1>t, <2>1 DEF PersistFails, FlagsOK, TurnOK, BeatOK, FaultsOK
<1>9. CASE Publish
  <2>1. Head(live) \in Rows /\ live' \in Seq(Rows) /\ Len(live') = Len(live) - 1
    BY <1>9, <1>t, EventsOfTail DEF Publish, QueuesOK
  <2>2. QueuesOK'
    BY <1>9, <1>t, <2>1, Bounds, LenProperties DEF Publish, QueuesOK
  <2>3. reader' \in [Readers -> ReaderRow] /\ FaultsOK'
    BY <1>9, <1>t, <2>1, PublishedType DEF Publish
  <2> QED
    BY <1>9, <1>t, <2>2, <2>3 DEF Publish, FlagsOK, TurnOK, BeatOK
<1>10. CASE ReportReads
  <2>1. worker' \in WorkerRow
    <3>1. Latest + 1 \in Nat /\ "report_commit" \in WorkerPcs
      BY <1>n DEF WorkerPcs
    <3> QED
      BY <1>10, <1>w, <3>1 DEF ReportReads
  <2> QED
    BY <1>10, <1>t, <2>1 DEF ReportReads, QueuesOK, FlagsOK, TurnOK, BeatOK, FaultsOK
<1>11. CASE ReportCommits
  <2>1. ErrorRow(worker.next, turn.began) \in Rows
    BY <1>t, ErrorRowType DEF WorkerRow, TurnOK
  <2>2. log' \subseteq Rows /\ reader' \in [Readers -> ReaderRow] /\ FaultsOK'
    BY <1>11, <1>t, <2>1, AppendErrorType DEF ReportCommits
  <2> QED
    BY <1>11, <1>t, <2>2, IdleWorkerType DEF ReportCommits, QueuesOK, FlagsOK, TurnOK, BeatOK
<1>12. CASE Beat
  <2>1. CASE LeaseExpires
    <3>1. FaultsOK'
      BY <2>1, <1>t, Bounds DEF LeaseExpires, FaultsOK
    <3>2. BeatOK'
      BY <2>1, <1>t DEF LeaseExpires, BeatOK
    <3> QED
      BY <2>1, <1>t, <3>1, <3>2 DEF LeaseExpires, FanoutVars, QueuesOK, FlagsOK, TurnOK
  <2>2. CASE BeatReads
    BY <2>2, <1>t, <1>n DEF BeatReads, BeatOK, FanoutVars, QueuesOK, FlagsOK, TurnOK, FaultsOK
  <2>3. CASE BeatCommits
    <3>1. ErrorRow(beat.seq, 0) \in Rows
      BY <1>t, ErrorRowType, Bounds DEF BeatOK
    <3>2. log' \subseteq Rows /\ reader' \in [Readers -> ReaderRow] /\ FaultsOK'
      BY <2>3, <1>t, <3>1, AppendErrorType DEF BeatCommits
    <3> QED
      BY <2>3, <1>t, <3>2 DEF BeatCommits, BeatOK, FanoutVars, QueuesOK, FlagsOK, TurnOK
  <2> QED
    BY <1>12, <2>1, <2>2, <2>3 DEF Beat
<1>13. ASSUME NEW r \in Readers, Open(r) \/ Answer(r) PROVE Parts'
  <2>1. reader' \in [Readers -> ReaderRow]
    BY <1>13, <1>t, <1>n, SubscribeType DEF Open, Answer
  <2>2. TurnOK'
    BY <1>13, <1>t DEF Open, Answer, TurnOK
  <2> QED
    BY <1>13, <1>t, <2>1, <2>2 DEF Open, Answer, FanoutVars, QueuesOK, FlagsOK, BeatOK, FaultsOK
<1>14. ASSUME NEW r \in Readers, Replay(r) PROVE Parts'
  <2>1. Replayed(r) \subseteq Rows
    BY <1>t DEF Replayed, UpToEnd
  <2>2. reader' \in [Readers -> ReaderRow]
    BY SMTT(60), <1>14, <1>t, <2>1, ShowsType DEF Replay
  <2> QED
    BY <1>14, <1>t, <2>2 DEF Replay, FanoutVars, QueuesOK, FlagsOK, TurnOK, BeatOK, FaultsOK
<1>15. ASSUME NEW r \in Readers, Receive(r) PROVE Parts'
  <2> DEFINE event == Head(reader[r].inbox)
             gap   == IF event.kind \in Ends THEN Replayed(r) ELSE {}
             rows  == IF \E e \in gap : e.kind \in Ends THEN gap ELSE gap \cup {event}
             shown == Shows(r, rows)
  <2>1. event \in Rows /\ Tail(reader[r].inbox) \in Seq(Rows)
    BY <1>15, <1>t, EventsOfTail DEF Receive, ReaderRow
  <2>2. rows \subseteq Rows
    BY <1>t, <2>1 DEF Replayed, UpToEnd
  <2>3. shown \in ReaderRow
    BY <1>t, <2>2, ShowsType
  <2>i. shown.inbox = <<>> \/ shown.inbox = reader[r].inbox
    BY <1>t DEF Shows, ReaderRow
  <2>4. [reader[r] EXCEPT !.inbox = Tail(@)] \in ReaderRow
    BY <1>t, <2>1 DEF ReaderRow
  <2>c. shown.pc # "closed" => shown.inbox = reader[r].inbox
    BY <1>t DEF Shows, ReaderRow
  <2>5. [shown EXCEPT !.inbox = IF shown.pc = "closed" THEN <<>> ELSE Tail(@)] \in ReaderRow
    <3> HIDE DEF shown
    <3> QED
      BY <2>1, <2>3, <2>c, NoEvents DEF ReaderRow
  <2>6. \E row \in ReaderRow : reader' = [reader EXCEPT ![r] = row]
    <3>1. CASE event.seq <= reader[r].cursor
      BY <1>15, <2>4, <3>1 DEF Receive
    <3>2. CASE ~(event.seq <= reader[r].cursor)
      BY <1>15, <2>5, <3>2 DEF Receive
    <3> QED
      BY <3>1, <3>2
  <2> QED
    BY ZenonT(60), <1>15, <1>t, <2>6 DEF Receive, FanoutVars, QueuesOK, FlagsOK, TurnOK, BeatOK, FaultsOK
<1>16. CASE Crash
  <2>1. worker' \in WorkerRow
    BY <1>16, IdleWorkerType DEF Crash, WorkerRow, WorkerPcs
  <2>2. FaultsOK'
    BY <1>16, <1>t, Bounds DEF Crash, FaultsOK
  <2>3. QueuesOK'
    BY <1>16, NoEvents, Bounds DEF Crash, QueuesOK
  <2> QED
    BY <1>16, <1>t, <2>1, <2>2, <2>3 DEF Crash, FlagsOK, TurnOK, BeatOK
<1>17. CASE QuotaReached \/ UNCHANGED vars
  BY <1>17, <1>t DEF QuotaReached, vars, FanoutVars, QueuesOK, FlagsOK, TurnOK, BeatOK, FaultsOK
<1> HIDE DEF Parts
<1> QED
  BY <1>1, <1>2, <1>3, <1>4, <1>5, <1>6, <1>7, <1>8, <1>9, <1>10, <1>11, <1>12, <1>13, <1>14,
     <1>15, <1>16, <1>17 DEF Next, Work

\* Every reachable state of the stream has the declared types: the queues and batches
\* keep their sizes, the cursors are numbers of rows.
THEOREM StreamTypeCorrect == Spec => []TypeOK
<1>1. Init => TypeOK /\ DueFits
  BY StreamTypeInit, Bounds DEF Init, DueFits
<1>2. TypeOK /\ DueFits /\ [Next]_vars => (TypeOK /\ DueFits)'
  BY StreamTypeStep, DueFitsStep
<1> QED
  BY <1>1, <1>2, PTL DEF Spec
-----------------------------------------------------------------------------
(* An end is durable before anybody can see it. *)

IsEnd(e) == e.kind \in Ends

\* An end waits in front of the live queue until it is a row - or the loop has failed,
\* and then it never gets there; from there on it is a row wherever it goes.
EndWaits ==
    /\ worker.pc = "join" /\ ~failed /\ IsEnd(worker.event)
       => worker.event \in log \cup Events(durable) \cup Events(batch)
    /\ worker.pc = "publish" /\ IsEnd(worker.event) => worker.event \in log
    /\ \A e \in Events(live) : IsEnd(e) => e \in log

EndInv == TypeOK /\ DueFits /\ EndWaits /\ EndsAreDurable

\* Steps of the worker and of its loops that leave the live queue and the browsers alone.
LEMMA EndWaitsKept ==
    ASSUME EndWaits, EndsAreDurable, log \subseteq log', UNCHANGED <<live, reader>>,
           /\ worker.pc = "join" /\ ~failed /\ IsEnd(worker.event)
              => worker.event \in log \cup Events(durable) \cup Events(batch)
           => /\ worker'.pc = "join" /\ ~failed' /\ IsEnd(worker'.event)
                 => worker'.event \in log' \cup Events(durable') \cup Events(batch')
              /\ worker'.pc = "publish" /\ IsEnd(worker'.event) => worker'.event \in log'
    PROVE  EndWaits' /\ EndsAreDurable'
BY DEF EndWaits, EndsAreDurable, IsEnd

LEMMA PublishedIsDurable ==
    ASSUME reader \in [Readers -> ReaderRow], EndsAreDurable, NEW event \in Rows,
           NEW to \in SUBSET Subscribed, Published(event, to), log \subseteq log',
           IsEnd(event) => event \in log'
    PROVE  EndsAreDurable'
<1> SUFFICES ASSUME NEW r \in Readers, NEW e \in reader'[r].seen \cup Events(reader'[r].inbox), IsEnd(e)
             PROVE  e \in log'
  BY DEF EndsAreDurable, IsEnd
<1>1. CASE r \in to
  <2>1. reader'[r] = [reader[r] EXCEPT !.inbox = Append(@, event)]
    BY <1>1 DEF Published
  <2>2. reader[r].inbox \in Seq(Rows)
    BY DEF ReaderRow
  <2>3. reader'[r].seen = reader[r].seen /\ reader'[r].inbox = Append(reader[r].inbox, event)
    BY <2>1 DEF ReaderRow
  <2>4. e \in reader[r].seen \cup Events(reader[r].inbox) \cup {event}
    BY <2>2, <2>3, EventsOfAppend
  <2> QED
    BY <2>4 DEF EndsAreDurable, IsEnd
<1>2. CASE r \notin to
  <2>1. reader'[r] = reader[r]
    BY <1>2 DEF Published
  <2> QED
    BY <2>1 DEF EndsAreDurable, IsEnd
<1> QED
  BY <1>1, <1>2

\* append_event publishes what it has committed.
LEMMA AppendErrorIsDurable ==
    ASSUME reader \in [Readers -> ReaderRow], EndsAreDurable, NEW row \in Rows, AppendError(row)
    PROVE  EndsAreDurable' /\ log \subseteq log'
<1>1. CASE Refused({row})
  BY <1>1 DEF AppendError, EndsAreDurable
<1>2. CASE ~Refused({row})
  <2>1. PICK to \in SUBSET Subscribed : Published(row, to)
    BY <1>2 DEF AppendError
  <2>2. log' = log \cup {row}
    BY <1>2 DEF AppendError
  <2> QED
    BY <2>1, <2>2, PublishedIsDurable
<1> QED
  BY <1>1, <1>2

LEMMA EndInvStep == EndInv /\ [Next]_vars => EndWaits' /\ EndsAreDurable'
<1> SUFFICES ASSUME EndInv, [Next]_vars PROVE EndWaits' /\ EndsAreDurable'
  OBVIOUS
<1>t. /\ worker \in WorkerRow /\ QueuesOK /\ reader \in [Readers -> ReaderRow]
      /\ log \subseteq Rows /\ BeatOK /\ TurnOK
  BY TypeParts DEF EndInv
<1>i. EndWaits /\ EndsAreDurable
  BY DEF EndInv
<1>1. CASE Begin
  <2>1. worker'.pc = "run"
    BY <1>1 DEF Begin, IdleWorker
  <2> QED
    BY <1>1, <1>i, <2>1, EndWaitsKept DEF Begin
<1>a. ASSUME NEW event \in Rows, NEW q \in Seq(Rows), durable' = Append(q, event), UNCHANGED failed,
             worker'.pc = AfterPut(event), worker'.event = event
      PROVE  /\ worker'.pc = "join" => event \in Events(durable')
             /\ worker'.pc = "publish" => ~IsEnd(event)
  <2>1. event \in Events(durable')
    BY <1>a, EventsOfAppend
  <2> QED
    BY <1>a, <2>1 DEF AfterPut, IsEnd
<1>2. ASSUME NEW kind \in Frames \ {"error"}, Submit(kind)
      PROVE  EndWaits' /\ EndsAreDurable'
  <2> DEFINE event == [seq |-> worker.next, kind |-> kind, by |-> turn.began]
  <2>1. event \in Rows
    BY <1>t DEF Rows, WorkerRow, TurnOK
  <2>2. worker'.pc = (IF Room(durable) THEN AfterPut(event) ELSE "put") /\ worker'.event = event
    BY <1>2, <1>t DEF Submit, WorkerRow
  <2>3. durable' = (IF Room(durable) THEN Append(durable, event) ELSE durable)
    BY <1>2 DEF Submit
  <2>4. UNCHANGED <<log, live, reader, failed>>
    BY <1>2 DEF Submit
  <2>5. CASE Room(durable)
    <3>1. /\ worker'.pc = "join" => worker'.event \in Events(durable')
          /\ worker'.pc = "publish" => ~IsEnd(worker'.event)
      <4> HIDE DEF event
      <4> QED
        BY <1>a, <1>t, <2>1, <2>2, <2>3, <2>4, <2>5 DEF QueuesOK
    <3> QED
      BY <1>i, <2>4, <3>1, EndWaitsKept
  <2>6. CASE ~Room(durable)
    <3>1. worker'.pc = "put"
      BY <2>2, <2>6
    <3> QED
      BY <1>i, <2>4, <3>1, EndWaitsKept
  <2> QED
    BY <2>5, <2>6
<1>3. CASE PutWakes
  <2>1. worker.event \in Rows /\ worker'.pc = AfterPut(worker.event) /\ worker'.event = worker.event
    BY <1>3, <1>t DEF PutWakes, WorkerRow
  <2>2. durable' = Append(durable, worker.event) /\ UNCHANGED <<log, live, reader, failed>>
    BY <1>3 DEF PutWakes
  <2>3. /\ worker'.pc = "join" => worker'.event \in Events(durable')
        /\ worker'.pc = "publish" => ~IsEnd(worker'.event)
    BY <1>a, <1>t, <2>1, <2>2 DEF QueuesOK
  <2> QED
    BY <1>i, <2>2, <2>3, EndWaitsKept
<1>4. CASE EndIsDurable
  <2>1. durable = <<>> /\ batch = <<>> /\ worker.pc = "join" /\ UNCHANGED <<log, live, reader, failed>>
    BY <1>4 DEF EndIsDurable, Drained
  <2>2. worker'.event = worker.event /\ worker'.pc = (IF failed THEN "close" ELSE "publish")
    BY <1>4, <1>t DEF EndIsDurable, WorkerRow
  <2>3. worker'.pc = "publish" /\ IsEnd(worker.event) => worker.event \in log
    BY <1>i, <2>1, <2>2, NoEvents DEF EndWaits
  <2>4. worker'.pc # "join"
    BY <2>2
  <2> QED
    BY <1>i, <2>1, <2>2, <2>3, <2>4, EndWaitsKept
<1>5. CASE StreamStops \/ Close
  <2>1. worker'.pc \notin {"join", "publish"}
    BY <1>5, <1>t DEF StreamStops, Close, WorkerRow, IdleWorker
  <2> QED
    BY <1>5, <1>i, <2>1, EndWaitsKept DEF StreamStops, Close
<1>6. CASE SubmitLive
  <2>1. worker.event \in Rows /\ worker'.pc \in {"close", "run"}
    BY <1>6, <1>t DEF SubmitLive, WorkerRow
  <2>2. Events(live') = Events(live) \cup {worker.event}
    BY <1>6, <1>t, <2>1, EventsOfAppend DEF SubmitLive, QueuesOK
  <2> QED
    BY <1>6, <1>i, <2>1, <2>2 DEF SubmitLive, EndWaits, EndsAreDurable
<1>7. CASE Collect
  <2>1. Events(durable) = {Head(durable)} \cup Events(durable') /\ Head(durable) \in Rows
    BY <1>7, <1>t, EventsOfTail DEF Collect, QueuesOK
  <2>2. Events(batch') = Events(batch) \cup {Head(durable)}
    BY <1>7, <1>t, <2>1, EventsOfAppend DEF Collect, QueuesOK
  <2>3. Events(durable') \cup Events(batch') = Events(durable) \cup Events(batch)
    BY <2>1, <2>2
  <2> QED
    BY <1>7, <1>i, <2>3 DEF Collect, EndWaits, EndsAreDurable
<1>8. CASE Persist
  <2>1. log' = log \cup Events(batch) /\ Events(batch') = {}
    BY <1>8, NoEvents DEF Persist
  <2> QED
    BY <1>8, <1>i, <2>1 DEF Persist, EndWaits, EndsAreDurable
<1>9. CASE PersistFails
  BY <1>9, <1>i DEF PersistFails, EndWaits, EndsAreDurable
<1>10. CASE Publish
  <2>1. Head(live) \in Rows /\ Events(live) = {Head(live)} \cup Events(live')
    BY <1>10, <1>t, EventsOfTail DEF Publish, QueuesOK
  <2>2. EndsAreDurable'
    BY <1>10, <1>t, <1>i, <2>1, PublishedIsDurable DEF Publish, EndWaits
  <2>3. EndWaits'
    BY <1>10, <1>i, <2>1 DEF Publish, EndWaits
  <2> QED
    BY <2>2, <2>3
<1>11. CASE ReportReads
  <2>1. worker'.pc = "report_commit"
    BY <1>11, <1>t DEF ReportReads, WorkerRow
  <2> QED
    BY <1>11, <1>i, <2>1, EndWaitsKept DEF ReportReads
<1>12. CASE ReportCommits
  <2>1. ErrorRow(worker.next, turn.began) \in Rows
    BY <1>t, ErrorRowType DEF WorkerRow, TurnOK
  <2>2. EndsAreDurable' /\ log \subseteq log'
    BY <1>12, <1>t, <1>i, <2>1, AppendErrorIsDurable DEF ReportCommits
  <2>3. worker'.pc = "idle" /\ UNCHANGED live
    BY <1>12 DEF ReportCommits, IdleWorker
  <2> QED
    BY <1>i, <2>2, <2>3 DEF EndWaits
<1>13. CASE Beat
  <2>1. CASE LeaseExpires \/ BeatReads
    BY <2>1, <1>i DEF LeaseExpires, BeatReads, FanoutVars, EndWaits, EndsAreDurable
  <2>2. CASE BeatCommits
    <3>1. ErrorRow(beat.seq, 0) \in Rows
      BY <1>t, ErrorRowType, Bounds DEF BeatOK
    <3>2. EndsAreDurable' /\ log \subseteq log'
      BY <2>2, <1>t, <1>i, <3>1, AppendErrorIsDurable DEF BeatCommits
    <3> QED
      BY <2>2, <1>i, <3>2 DEF BeatCommits, FanoutVars, EndWaits
  <2> QED
    BY <1>13, <2>1, <2>2 DEF Beat
\* A browser sees rows, or what is in its inbox.
<1>s. ASSUME NEW r \in Readers, NEW row \in ReaderRow, reader' = [reader EXCEPT ![r] = row],
             row.seen \subseteq reader[r].seen \cup Events(reader[r].inbox) \cup log,
             Events(row.inbox) \subseteq Events(reader[r].inbox),
             UNCHANGED <<log, worker, durable, batch, failed, live>>
      PROVE  EndWaits' /\ EndsAreDurable'
  <2>1. EndsAreDurable'
    BY <1>s, <1>t, <1>i DEF EndsAreDurable
  <2> QED
    BY <1>s, <1>i, <2>1 DEF EndWaits
<1>14. ASSUME NEW r \in Readers, Open(r) \/ Answer(r) PROVE EndWaits' /\ EndsAreDurable'
  <2>1. reader[r].opens < MaxOpens /\ \E cursor \in Nat : Subscribe(r, cursor)
    BY <1>14, <1>t, LatestType DEF Open, Answer
  <2>2. PICK cursor \in Nat : Subscribe(r, cursor)
    BY <2>1
  <2> DEFINE row == [ClosedReader EXCEPT !.pc = "replay", !.start = cursor, !.cursor = cursor,
                                         !.opens = reader[r].opens + 1]
  <2>3. reader' = [reader EXCEPT ![r] = row] /\ row.seen = {} /\ row.inbox = <<>>
    BY <2>2 DEF Subscribe, ClosedReader
  <2>4. reader'[r] = row /\ reader' \in [Readers -> ReaderRow]
    BY <1>t, <2>1, <2>2, <2>3, SubscribeType
  <2>5. row \in ReaderRow
    BY <2>4
  <2> HIDE DEF row
  <2> QED
    BY <1>s, <1>14, <2>3, <2>5, NoEvents DEF Open, Answer, FanoutVars
<1>15. ASSUME NEW r \in Readers, NEW rows, rows \subseteq Rows
       PROVE  /\ Shows(r, rows) \in ReaderRow
              /\ Shows(r, rows).seen = reader[r].seen \cup rows
              /\ \/ Shows(r, rows).inbox = <<>>
                 \/ Shows(r, rows).inbox = reader[r].inbox /\ Shows(r, rows).pc = "live"
              /\ Shows(r, rows).inbox = <<>> \/ Shows(r, rows).pc # "closed"
  <2>1. Shows(r, rows) \in ReaderRow
    BY <1>t, <1>15, ShowsType
  <2> QED
    BY <1>t, <2>1 DEF Shows, ReaderRow
<1>16. ASSUME NEW r \in Readers, Replay(r) PROVE EndWaits' /\ EndsAreDurable'
  <2> DEFINE shown == Shows(r, Replayed(r))
  <2>1. Replayed(r) \subseteq log
    BY DEF Replayed, UpToEnd
  <2>2. Replayed(r) \subseteq Rows
    BY <1>t, <2>1
  <2>3. reader' = [reader EXCEPT ![r] = shown]
    BY <1>16 DEF Replay
  <2>4. /\ shown \in ReaderRow /\ shown.seen \subseteq reader[r].seen \cup log
        /\ shown.inbox = <<>> \/ shown.inbox = reader[r].inbox
    BY <1>15, <2>1, <2>2
  <2> HIDE DEF shown
  <2>5. Events(shown.inbox) \subseteq Events(reader[r].inbox)
    BY <2>4, NoEvents
  <2> QED
    BY <1>s, <1>16, <2>3, <2>4, <2>5 DEF Replay, FanoutVars
<1>17. ASSUME NEW r \in Readers, Receive(r) PROVE EndWaits' /\ EndsAreDurable'
  <2> DEFINE event == Head(reader[r].inbox)
             gap   == IF event.kind \in Ends THEN Replayed(r) ELSE {}
             rows  == IF \E e \in gap : e.kind \in Ends THEN gap ELSE gap \cup {event}
             shown == Shows(r, rows)
             rest  == [reader[r] EXCEPT !.inbox = Tail(@)]
             after == [shown EXCEPT !.inbox = IF shown.pc = "closed" THEN <<>> ELSE Tail(@)]
  <2>0. reader[r].inbox \in Seq(Rows) /\ reader[r].inbox # <<>>
    BY <1>17, <1>t DEF Receive, ReaderRow
  <2>1. /\ event \in Rows /\ Tail(reader[r].inbox) \in Seq(Rows)
        /\ Events(reader[r].inbox) = {event} \cup Events(Tail(reader[r].inbox))
    BY <2>0, EventsOfTail
  <2>2. rows \subseteq log \cup {event}
    BY DEF Replayed, UpToEnd
  <2>3. rows \subseteq Rows
    BY <1>t, <2>1, <2>2
  <2>4. /\ shown \in ReaderRow /\ shown.seen = reader[r].seen \cup rows
        /\ shown.inbox = <<>> \/ shown.inbox = reader[r].inbox
        /\ shown.pc # "closed" => shown.inbox = reader[r].inbox
    <3>1. shown.pc # "closed" => shown.inbox = reader[r].inbox
      BY <1>t DEF Shows, ReaderRow
    <3> HIDE DEF rows
    <3> QED
      BY <1>15, <2>3, <3>1
  <2>5. rest \in ReaderRow /\ rest.seen = reader[r].seen /\ rest.inbox = Tail(reader[r].inbox)
    BY <1>t, <2>1 DEF ReaderRow
  <2>6. /\ after \in ReaderRow /\ after.seen = reader[r].seen \cup rows
        /\ Events(after.inbox) \subseteq Events(reader[r].inbox)
    <3> HIDE DEF shown, rows, event
    <3>1. CASE shown.pc = "closed"
      BY <2>4, <3>1, NoEvents DEF ReaderRow
    <3>2. CASE shown.pc # "closed"
      BY <2>1, <2>4, <3>2 DEF ReaderRow
    <3> QED
      BY <3>1, <3>2
  <2>7. CASE event.seq <= reader[r].cursor
    <3>1. reader' = [reader EXCEPT ![r] = rest]
      BY SMTT(60), <1>17, <2>7 DEF Receive
    <3> HIDE DEF rest
    <3> QED
      BY <1>s, <1>17, <2>1, <2>5, <3>1 DEF Receive, FanoutVars
  <2>8. CASE ~(event.seq <= reader[r].cursor)
    <3>1. reader' = [reader EXCEPT ![r] = after]
      BY <1>17, <2>8 DEF Receive
    <3> HIDE DEF after, rows
    <3> QED
      BY ZenonT(60), <1>s, <1>17, <2>1, <2>2, <2>6, <3>1 DEF Receive, FanoutVars
  <2> QED
    BY <2>7, <2>8
<1>18. CASE Crash
  <2>1. worker'.pc = "crashed" /\ live' = <<>> /\ UNCHANGED <<log, reader>>
    BY <1>18 DEF Crash, IdleWorker
  <2> QED
    BY <1>i, <2>1, NoEvents DEF EndWaits, EndsAreDurable
<1>19. CASE QuotaReached \/ UNCHANGED vars
  BY <1>19, <1>i DEF QuotaReached, vars, FanoutVars, EndWaits, EndsAreDurable
<1> QED
  BY <1>1, <1>2, <1>3, <1>4, <1>5, <1>6, <1>7, <1>8, <1>9, <1>10, <1>11, <1>12, <1>13, <1>14,
     <1>16, <1>17, <1>18, <1>19 DEF Next, Work

\* An end that a browser has seen, or that Redis is about to show it, is in PostgreSQL:
\* no crash, expired lease, full quota or failed batch lets one out before it is a row.
THEOREM EndsDurable == Spec => []EndsAreDurable
<1>1. Init => EndInv
  <2> SUFFICES ASSUME Init PROVE EndInv
    OBVIOUS
  <2>1. TypeOK /\ DueFits
    BY StreamTypeInit, Bounds DEF Init, DueFits
  <2>2. EndWaits /\ EndsAreDurable
    BY NoEvents DEF Init, EndWaits, EndsAreDurable, IdleWorker, ClosedReader
  <2> QED
    BY <2>1, <2>2 DEF EndInv
<1>2. EndInv /\ [Next]_vars => EndInv'
  BY StreamTypeStep, DueFitsStep, EndInvStep DEF EndInv
<1>3. EndInv => EndsAreDurable
  BY DEF EndInv
<1> QED
  BY <1>1, <1>2, <1>3, PTL DEF Spec
-----------------------------------------------------------------------------
(* Numbers without holes. *)

Dense == {e.seq : e \in log} = 1..Latest
Unique == \A e, d \in log : e.seq = d.seq => e = d

\* The rows the fan-out has yet to write are numbered from First on, without a gap between
\* the batch, the queue and the event that waits for room; First is at most the number
\* behind the last row, so that a batch fits or is refused as a whole.
Active == {"run", "put", "join", "publish", "close"}
First == worker.next - Len(batch) - Len(durable) - (IF worker.pc = "put" THEN 1 ELSE 0)

Numbered == /\ First \in 1..Latest + 1
            /\ \A i \in 1..Len(batch) : batch[i].seq = First + i - 1
            /\ \A i \in 1..Len(durable) : durable[i].seq = First + Len(batch) + i - 1
            /\ worker.pc = "put" => worker.event.seq = worker.next - 1

Pending == /\ worker.pc \in Active /\ ~failed => Numbered
           /\ worker.pc \notin Active => durable = <<>> /\ batch = <<>>
           /\ worker.pc = "report_commit" => worker.next \in 1..Latest + 1
           /\ beat.pc = "commit" => beat.seq \in 1..Latest + 1

HoleInv == TypeOK /\ DueFits /\ Dense /\ Unique /\ Pending

LEMMA TopOfDense ==
    ASSUME NEW rows, rows \subseteq Rows, NEW n \in Nat, {e.seq : e \in rows} = 1..n
    PROVE  LastSeq(rows, 0) = n
<1> DEFINE top == {e.seq : e \in {d \in rows : \A f \in rows : f.seq <= d.seq}}
<1>1. \A e \in rows : e.seq \in 1..n
  OBVIOUS
<1>2. CASE n = 0
  <2>1. rows = {}
    BY <1>1, <1>2
  <2> QED
    BY <1>2, <2>1 DEF LastSeq
<1>3. CASE n # 0
  <2>1. PICK e \in rows : e.seq = n
    BY <1>3
  <2>2. \A f \in rows : f.seq <= e.seq
    BY <1>1, <2>1
  <2>3. n \in top
    BY <2>1, <2>2
  <2>4. \A m \in top : m = n
    <3> SUFFICES ASSUME NEW d \in rows, \A f \in rows : f.seq <= d.seq PROVE d.seq = n
      OBVIOUS
    <3>1. n <= d.seq /\ d.seq \in 1..n
      BY <1>1, <2>1
    <3> QED
      BY <3>1
  <2>5. top = {n}
    BY <2>3, <2>4
  <2> QED
    BY <2>5 DEF LastSeq
<1> QED
  BY <1>2, <1>3

LEMMA DenseCounts == ASSUME log \subseteq Rows, Dense, Unique PROVE NoHoles
<1> DEFINE n == Latest
           row == [i \in 1..n |-> CHOOSE e \in log : e.seq = i]
<1>1. n \in Nat
  BY LatestType
<1>2. \A i \in 1..n : row[i] \in log /\ row[i].seq = i
  BY DEF Dense
<1>3. \A e \in log : e.seq \in 1..n /\ row[e.seq] = e
  BY <1>2 DEF Dense, Unique
<1>4. row \in Bijection(1..n, log)
  <2> HIDE DEF n
  <2>1. row \in [1..n -> log] /\ DOMAIN row = 1..n
    BY <1>2
  <2>2. \A i, j \in 1..n : row[i] = row[j] => i = j
    BY <1>2
  <2>3. \A e \in log : \E i \in 1..n : row[i] = e
    BY <1>3
  <2> HIDE DEF row
  <2> QED
    BY <2>1, <2>2, <2>3 DEF Bijection, Injection, Surjection, IsInjective
<1>5. IsFiniteSet(1..n) /\ Cardinality(1..n) = n
  BY <1>1, FS_Interval
<1>6. Cardinality(log) = n
  BY <1>4, <1>5, FS_Bijection DEF ExistsBijection
<1> QED
  BY <1>6 DEF Dense, NoHoles

\* One row with a number that the log can take.
LEMMA AppendErrorFits ==
    ASSUME log \subseteq Rows, Dense, Unique, NEW row \in Rows, row.seq \in 1..Latest + 1, AppendError(row)
    PROVE  /\ Dense' /\ Unique' /\ Latest' \in Nat /\ Latest' >= Latest
           /\ \/ UNCHANGED log
              \/ log' = log \cup {row} /\ row.seq = Latest + 1 /\ Latest' = Latest + 1
<1>n. Latest \in Nat
  BY LatestType
<1>1. CASE Refused({row})
  <2>1. UNCHANGED log
    BY <1>1 DEF AppendError
  <2> QED
    BY <1>n, <2>1 DEF Dense, Unique, Latest
<1>2. CASE ~Refused({row})
  <2>1. log' = log \cup {row} /\ \A d \in log : d.seq # row.seq
    BY <1>2 DEF AppendError, Refused
  <2>2. row.seq \notin 1..Latest
    BY <2>1 DEF Dense
  <2>3. row.seq = Latest + 1
    BY <1>n, <2>2
  <2>4. {e.seq : e \in log'} = {e.seq : e \in log} \cup {row.seq}
    BY <2>1
  <2>5. {e.seq : e \in log'} = 1..Latest + 1
    BY <1>n, <2>3, <2>4 DEF Dense
  <2>6. Latest' = Latest + 1
    BY <1>n, <2>1, <2>5, TopOfDense DEF Latest
  <2> QED
    BY <1>n, <2>1, <2>3, <2>5, <2>6 DEF Dense, Unique
<1> QED
  BY <1>1, <1>2

\* A batch that is not refused continues the log.
LEMMA BatchFits ==
    ASSUME TypeOK, Dense, Unique, Pending, Persist
    PROVE  /\ Dense' /\ Unique' /\ Latest' = Latest + Len(batch) /\ Latest \in Nat
           /\ Numbered /\ First = Latest + 1
<1>t. /\ log \subseteq Rows /\ batch \in Seq(Rows) /\ batch # <<>>
  BY TypeParts DEF QueuesOK, Persist
<1>n. Latest \in Nat /\ Len(batch) \in Nat \ {0} /\ DOMAIN batch = 1..Len(batch)
  BY <1>t, LatestType, LenProperties, EmptySeq
<1>1. Numbered
  BY <1>t DEF Pending, Persist
<1>2. \A i \in 1..Len(batch) : batch[i].seq = First + i - 1
  BY <1>1 DEF Numbered
<1>3. \A i \in 1..Len(batch), d \in log : batch[i].seq # d.seq
  BY <1>n DEF Persist, Refused, Events
<1>f. First \in 1..Latest + 1
  BY <1>1 DEF Numbered
<1> HIDE DEF First
<1>4. batch[1].seq = First
  BY <1>n, <1>2, <1>f
<1>5. First \notin 1..Latest
  BY <1>n, <1>3, <1>4 DEF Dense
<1>6. First = Latest + 1
  BY <1>n, <1>5, <1>f
<1>7. \A i \in 1..Len(batch) : batch[i].seq = Latest + i
  BY <1>n, <1>2, <1>6
<1>8. log' = log \cup Events(batch) /\ log' \subseteq Rows
  BY <1>t, EventsAreRows DEF Persist
<1>9. \A e \in log' : e \in log \/ \E i \in 1..Len(batch) : e = batch[i]
  BY <1>n, <1>8 DEF Events
<1>10. {e.seq : e \in log'} = 1..Latest + Len(batch)
  <2>1. ASSUME NEW e \in log' PROVE e.seq \in 1..Latest + Len(batch)
    <3>1. CASE e \in log
      <4>1. e.seq \in 1..Latest
        BY <3>1 DEF Dense
      <4> QED
        BY <1>n, <4>1
    <3>2. CASE \E i \in 1..Len(batch) : e = batch[i]
      BY <1>n, <1>7, <3>2
    <3> QED
      BY <1>9, <3>1, <3>2
  <2>2. ASSUME NEW m \in 1..Latest + Len(batch) PROVE \E e \in log' : e.seq = m
    <3>1. CASE m <= Latest
      <4>1. m \in 1..Latest
        BY <1>n, <3>1
      <4> QED
        BY <1>8, <4>1 DEF Dense
    <3>2. CASE m > Latest
      <4>1. m - Latest \in 1..Len(batch)
        BY <1>n, <3>2
      <4>2. batch[m - Latest] \in log' /\ batch[m - Latest].seq = m
        BY <1>n, <1>7, <1>8, <4>1 DEF Events
      <4> QED
        BY <4>2
    <3> QED
      BY <1>n, <3>1, <3>2
  <2> QED
    BY <2>1, <2>2
<1>11. Latest' = Latest + Len(batch)
  BY <1>n, <1>8, <1>10, TopOfDense DEF Latest
<1>12. Unique'
  <2> SUFFICES ASSUME NEW e \in log', NEW d \in log', e.seq = d.seq PROVE e = d
    BY DEF Unique
  <2>1. CASE e \in log /\ d \in log
    BY <2>1 DEF Unique
  <2>2. CASE e \notin log /\ d \notin log
    BY <1>n, <1>7, <1>9, <2>2
  <2>3. CASE (e \in log) # (d \in log)
    BY <1>3, <1>9, <2>3
  <2> QED
    BY <2>1, <2>2, <2>3
<1> QED
  BY <1>n, <1>1, <1>6, <1>10, <1>11, <1>12 DEF Dense

LEMMA HoleStep == HoleInv /\ [Next]_vars => Dense' /\ Unique' /\ Pending'
<1> SUFFICES ASSUME HoleInv, [Next]_vars PROVE Dense' /\ Unique' /\ Pending'
  OBVIOUS
<1>t. /\ TypeOK /\ worker \in WorkerRow /\ QueuesOK /\ log \subseteq Rows /\ BeatOK /\ TurnOK
  BY TypeParts DEF HoleInv
<1>n. /\ Latest \in Nat /\ worker.next \in Nat
      /\ durable \in Seq(Rows) /\ batch \in Seq(Rows) /\ Len(durable) \in Nat /\ Len(batch) \in Nat
  BY <1>t, LatestType, LenProperties DEF WorkerRow, QueuesOK
<1>i. Dense /\ Unique /\ Pending
  BY DEF HoleInv
\* What leaves the log alone ...
<1>k. ASSUME UNCHANGED log PROVE Dense' /\ Unique' /\ Latest' = Latest
  BY <1>k, <1>i DEF Dense, Unique, Latest
\* ... and what leaves the numbers of the fan-out alone.
<1>m. ASSUME Latest' \in Nat, Latest' >= Latest, UNCHANGED <<durable, batch>>, worker'.next = worker.next,
             worker'.event = worker.event, (worker'.pc = "put") = (worker.pc = "put"), Numbered
      PROVE  Numbered'
  BY SMTT(60), <1>m, <1>n DEF Numbered, First
<1>1. CASE Begin
  <2>1. /\ durable = <<>> /\ batch = <<>> /\ UNCHANGED <<log, durable, batch, beat>>
        /\ worker'.pc = "run" /\ worker'.next = Latest + 1
    BY <1>1, <1>i DEF Begin, Pending, Active, IdleWorker
  <2>2. Numbered'
    BY <1>k, <1>n, <2>1, NoEvents DEF Numbered, First
  <2> QED
    BY <1>i, <1>k, <2>1, <2>2 DEF Pending, Active
<1>2. ASSUME NEW kind \in Frames \ {"error"}, Submit(kind)
      PROVE  Dense' /\ Unique' /\ Pending'
  <2> DEFINE event == [seq |-> worker.next, kind |-> kind, by |-> turn.began]
  <2>1. event \in Rows /\ event.seq = worker.next
    BY <1>t DEF Rows, WorkerRow, TurnOK
  <2>2. worker'.event = event /\ worker'.next = worker.next + 1
    BY <1>2, <1>t DEF Submit, WorkerRow
  <2>3. Numbered /\ worker.pc = "run" /\ UNCHANGED <<log, batch, failed, beat>> /\ ~failed
    BY <1>2, <1>i DEF Submit, Pending, Active
  <2>4. CASE Room(durable)
    <3>1. durable' = Append(durable, event) /\ worker'.pc = AfterPut(event)
      BY <1>2, <1>t, <2>4 DEF Submit, WorkerRow
    <3>2. worker'.pc \in Active \ {"put"}
      BY <3>1 DEF AfterPut, Active
    <3>3. /\ Len(durable') = Len(durable) + 1 /\ durable'[Len(durable) + 1] = event
          /\ \A j \in 1..Len(durable) : durable'[j] = durable[j]
      <4> HIDE DEF event
      <4> QED
        BY <1>n, <2>1, <3>1, AppendProperties
    <3>4. First' = First
      <4>1. First = worker.next - Len(batch) - Len(durable)
        BY <1>n, <2>3 DEF First
      <4>2. First' = worker'.next - Len(batch) - Len(durable')
        <5>1. worker'.pc # "put" /\ batch' = batch
          BY <2>3, <3>2
        <5>2. worker'.next \in Nat /\ Len(durable') \in Nat
          BY <1>n, <2>2, <3>3
        <5> QED
          BY <1>n, <5>1, <5>2 DEF First
      <4> QED
        BY <1>n, <2>2, <3>3, <4>1, <4>2
    <3>5. worker.next = First + Len(batch) + Len(durable) /\ First \in 1..Latest + 1
      BY <1>n, <2>3 DEF First, Numbered
    <3>6. ASSUME NEW j \in 1..Len(durable') PROVE durable'[j].seq = First + Len(batch) + j - 1
      <4>1. CASE j \in 1..Len(durable)
        BY <2>3, <3>3, <4>1 DEF Numbered
      <4>2. CASE j = Len(durable) + 1
        <5>1. durable'[j].seq = worker.next
          BY <2>1, <3>3, <4>2
        <5> HIDE DEF First
        <5> QED
          BY <1>n, <3>5, <4>2, <5>1
      <4> QED
        BY <1>n, <3>3, <4>1, <4>2
    <3>7. Numbered'
      BY <1>k, <2>3, <3>2, <3>4, <3>6 DEF Numbered
    <3> QED
      BY <1>i, <1>k, <2>3, <3>2, <3>7 DEF Pending, Active
  <2>5. CASE ~Room(durable)
    <3>1. durable' = durable /\ worker'.pc = "put"
      BY <1>2, <1>t, <2>5 DEF Submit, WorkerRow
    <3>2. First' = First /\ worker'.event.seq = worker'.next - 1
      BY <1>n, <2>1, <2>2, <2>3, <3>1 DEF First
    <3>3. Numbered'
      BY <1>k, <2>3, <3>1, <3>2 DEF Numbered
    <3> QED
      BY <1>i, <1>k, <2>3, <3>1, <3>3 DEF Pending, Active
  <2> QED
    BY <2>4, <2>5
<1>3. CASE PutWakes
  <2>1. /\ worker.event \in Rows /\ worker'.pc = AfterPut(worker.event) /\ worker'.next = worker.next
        /\ durable' = Append(durable, worker.event) /\ UNCHANGED <<log, batch, failed, beat>>
        /\ worker.pc = "put"
    BY <1>3, <1>t DEF PutWakes, WorkerRow
  <2>2. worker'.pc \in Active \ {"put"}
    BY <2>1 DEF AfterPut, Active
  <2>3. /\ Len(durable') = Len(durable) + 1 /\ durable'[Len(durable) + 1] = worker.event
        /\ \A j \in 1..Len(durable) : durable'[j] = durable[j]
    BY <1>n, <2>1, AppendProperties
  <2>4. CASE failed
    BY <1>i, <1>k, <2>1, <2>2, <2>4 DEF Pending, Active
  <2>5. CASE ~failed
    <3>1. Numbered
      BY <1>i, <2>1, <2>5 DEF Pending, Active
    <3>2. First' = First
      BY SMTT(60), <1>n, <2>1, <2>2, <2>3 DEF First
    <3>3. worker.event.seq = First + Len(batch) + Len(durable) /\ First \in 1..Latest + 1
      BY SMTT(60), <1>n, <2>1, <3>1 DEF First, Numbered
    <3>4. ASSUME NEW j \in 1..Len(durable') PROVE durable'[j].seq = First + Len(batch) + j - 1
      <4>1. CASE j \in 1..Len(durable)
        BY <2>3, <3>1, <4>1 DEF Numbered
      <4>2. CASE j = Len(durable) + 1
        <5> HIDE DEF First
        <5> QED
          BY <1>n, <2>3, <3>3, <4>2
      <4> QED
        BY <1>n, <2>3, <4>1, <4>2
    <3>5. Numbered'
      BY <1>k, <2>1, <2>2, <3>1, <3>2, <3>4 DEF Numbered
    <3> QED
      BY <1>i, <1>k, <2>1, <2>2, <3>5 DEF Pending, Active
  <2> QED
    BY <2>4, <2>5
<1>4. CASE EndIsDurable \/ StreamStops \/ SubmitLive
  <2>1. /\ worker.pc \in Active \ {"put"} /\ worker'.pc \in Active \ {"put"}
        /\ worker'.next = worker.next /\ worker'.event = worker.event
        /\ UNCHANGED <<log, durable, batch, failed, beat>>
    BY <1>4, <1>t DEF EndIsDurable, StreamStops, SubmitLive, WorkerRow, Active
  <2>2. Numbered => Numbered'
    BY <1>k, <1>m, <1>n, <2>1
  <2> QED
    BY <1>i, <1>k, <2>1, <2>2 DEF Pending, Active
<1>5. CASE Close
  <2>1. /\ durable = <<>> /\ batch = <<>> /\ UNCHANGED <<log, durable, batch, beat>>
        /\ worker'.pc \in {"idle", "report"}
    BY <1>5, <1>t DEF Close, Drained, WorkerRow, IdleWorker
  <2> QED
    BY <1>i, <1>k, <2>1 DEF Pending, Active
<1>6. CASE Collect
  <2>1. ~failed /\ durable # <<>> /\ UNCHANGED <<log, worker, failed, beat>>
    BY <1>6 DEF Collect
  <2>2. worker.pc \in Active /\ Numbered
    BY <1>i, <2>1 DEF Pending
  <2>3. /\ Head(durable) \in Rows /\ Head(durable) = durable[1] /\ Len(durable) \in Nat \ {0}
        /\ Len(durable') = Len(durable) - 1
        /\ \A j \in 1..Len(durable') : durable'[j] = durable[j + 1]
    BY <1>6, <1>n, <2>1, HeadTailProperties, EmptySeq DEF Collect
  <2>4. /\ Len(batch') = Len(batch) + 1 /\ batch'[Len(batch) + 1] = durable[1]
        /\ \A j \in 1..Len(batch) : batch'[j] = batch[j]
    BY <1>6, <1>n, <2>3, AppendProperties DEF Collect
  <2>5. First' = First /\ First \in Int
    <3>1. Len(batch') + Len(durable') = Len(batch) + Len(durable)
          /\ Len(batch') \in Nat /\ Len(durable') \in Nat
      BY <1>n, <2>3, <2>4
    <3>2. CASE worker.pc = "put"
      <4>1. First = worker.next - Len(batch) - Len(durable) - 1
        BY <3>2 DEF First
      <4>2. First' = worker.next - Len(batch') - Len(durable') - 1
        BY <2>1, <3>2 DEF First
      <4> QED
        BY SMTT(60), <1>n, <3>1, <4>1, <4>2
    <3>3. CASE worker.pc # "put"
      <4>1. First = worker.next - Len(batch) - Len(durable) - 0
        BY <3>3 DEF First
      <4>2. First' = worker.next - Len(batch') - Len(durable') - 0
        BY <2>1, <3>3 DEF First
      <4> QED
        BY <1>n, <3>1, <4>1, <4>2
    <3> QED
      BY <3>2, <3>3
  <2>6. durable[1].seq = First + Len(batch)
    <3>1. durable[1].seq = First + Len(batch) + 1 - 1
      BY <2>2, <2>3 DEF Numbered
    <3> HIDE DEF First
    <3> QED
      BY <1>n, <2>5, <3>1
  <2>7. ASSUME NEW j \in 1..Len(batch') PROVE batch'[j].seq = First + j - 1
    <3>1. CASE j \in 1..Len(batch)
      BY <2>2, <2>4, <3>1 DEF Numbered
    <3>2. CASE j = Len(batch) + 1
      <4> HIDE DEF First
      <4> QED
        BY <1>n, <2>4, <2>5, <2>6, <3>2
    <3> QED
      BY <1>n, <2>4, <3>1, <3>2
  <2>8. ASSUME NEW j \in 1..Len(durable') PROVE durable'[j].seq = First + Len(batch') + j - 1
    <3>1. j + 1 \in 1..Len(durable) /\ durable'[j] = durable[j + 1]
      BY <1>n, <2>3
    <3>2. durable[j + 1].seq = First + Len(batch) + (j + 1) - 1
      BY <2>2, <3>1 DEF Numbered
    <3> HIDE DEF First
    <3> QED
      BY <1>n, <2>4, <2>5, <3>1, <3>2
  <2>9. Numbered'
    BY <1>k, <2>1, <2>2, <2>5, <2>7, <2>8 DEF Numbered
  <2> QED
    BY <1>i, <1>k, <2>1, <2>2, <2>9 DEF Pending
<1>7. CASE Persist
  <2>1. /\ Dense' /\ Unique' /\ Latest' = Latest + Len(batch) /\ Numbered /\ First = Latest + 1
    BY <1>7, <1>t, <1>i, BatchFits
  <2>2. batch # <<>> /\ ~failed /\ batch' = <<>> /\ UNCHANGED <<worker, durable, failed, beat>>
    BY <1>7 DEF Persist
  <2>3. worker.pc \in Active
    BY <1>i, <2>2 DEF Pending
  <2>4. Len(batch') = 0 /\ First' = First + Len(batch) /\ Latest' \in Nat
    BY <1>n, <2>1, <2>2, NoEvents DEF First
  <2>5. First' \in 1..Latest' + 1
    <3> HIDE DEF First
    <3> QED
      BY <1>n, <2>1, <2>4
  <2>6. \A j \in 1..Len(durable') : durable'[j].seq = First' + Len(batch') + j - 1
    <3>1. \A j \in 1..Len(durable) : durable[j].seq = First + Len(batch) + j - 1
      BY <2>1 DEF Numbered
    <3> HIDE DEF First
    <3> QED
      BY <1>n, <2>1, <2>2, <2>4, <3>1
  <2>7. Numbered'
    BY <2>1, <2>2, <2>4, <2>5, <2>6 DEF Numbered
  <2> QED
    BY <1>i, <1>n, <2>1, <2>2, <2>3, <2>7 DEF Pending, Active
<1>8. CASE PersistFails
  <2>1. failed' = TRUE /\ batch' = <<>> /\ durable' = <<>> /\ UNCHANGED <<log, worker, beat>>
    BY <1>8 DEF PersistFails
  <2> QED
    BY <1>i, <1>k, <2>1 DEF Pending
<1>9. CASE Publish \/ QuotaReached \/ UNCHANGED vars \/ \E r \in Readers : Open(r) \/ Answer(r) \/ Replay(r) \/ Receive(r)
  <2>1. UNCHANGED <<log, worker, durable, batch, failed, beat>>
    BY <1>9 DEF Publish, QuotaReached, vars, Open, Answer, Replay, Receive, FanoutVars
  <2>2. Numbered => Numbered'
    BY <1>k, <1>m, <1>n, <2>1
  <2> QED
    BY SMTT(60), <1>i, <1>k, <2>1, <2>2 DEF Pending
<1>10. CASE ReportReads
  <2>1. /\ worker.pc = "report" /\ worker'.pc = "report_commit" /\ worker'.next = Latest + 1
        /\ UNCHANGED <<log, durable, batch, beat>>
    BY <1>10, <1>t DEF ReportReads, WorkerRow
  <2> QED
    BY <1>i, <1>k, <1>n, <2>1 DEF Pending, Active
<1>11. CASE ReportCommits
  <2>1. /\ worker.pc = "report_commit" /\ worker'.pc = "idle" /\ UNCHANGED <<durable, batch, beat>>
        /\ AppendError(ErrorRow(worker.next, turn.began))
    BY <1>11 DEF ReportCommits, IdleWorker
  <2>2. ErrorRow(worker.next, turn.began) \in Rows /\ ErrorRow(worker.next, turn.began).seq \in 1..Latest + 1
    BY <1>t, <1>i, <2>1, ErrorRowType DEF WorkerRow, TurnOK, Pending, ErrorRow
  <2>3. Dense' /\ Unique' /\ Latest' \in Nat /\ Latest' >= Latest
    BY <1>t, <1>i, <2>1, <2>2, AppendErrorFits
  <2> QED
    BY <1>i, <1>n, <2>1, <2>3 DEF Pending, Active
<1>12. CASE LeaseExpires \/ BeatReads
  <2>1. /\ UNCHANGED <<log, worker, durable, batch, failed>>
        /\ beat'.pc = "commit" => beat'.seq = Latest + 1
    BY <1>12, <1>t DEF LeaseExpires, BeatReads, FanoutVars, BeatOK
  <2>2. Numbered => Numbered'
    BY <1>k, <1>m, <1>n, <2>1
  <2> QED
    BY <1>i, <1>k, <1>n, <2>1, <2>2 DEF Pending
<1>13. CASE BeatCommits
  <2>1. /\ beat.pc = "commit" /\ beat'.pc = "idle" /\ UNCHANGED <<worker, durable, batch, failed>>
        /\ AppendError(ErrorRow(beat.seq, 0))
    BY <1>13 DEF BeatCommits, FanoutVars
  <2>2. ErrorRow(beat.seq, 0) \in Rows /\ ErrorRow(beat.seq, 0).seq \in 1..Latest + 1
    BY <1>t, <1>i, <2>1, ErrorRowType, Bounds DEF BeatOK, Pending, ErrorRow
  <2>3. Dense' /\ Unique' /\ Latest' \in Nat /\ Latest' >= Latest
    BY <1>t, <1>i, <2>1, <2>2, AppendErrorFits
  <2>4. Numbered => Numbered'
    BY <1>m, <1>n, <2>1, <2>3
  <2> QED
    BY <1>i, <1>n, <2>1, <2>3, <2>4 DEF Pending
<1>14. CASE Crash
  <2>1. /\ worker'.pc = "crashed" /\ durable' = <<>> /\ batch' = <<>> /\ UNCHANGED <<log, beat>>
    BY <1>14 DEF Crash, IdleWorker
  <2> QED
    BY <1>i, <1>k, <2>1 DEF Pending, Active
<1> QED
  BY <1>1, <1>2, <1>3, <1>4, <1>5, <1>6, <1>7, <1>8, <1>9, <1>10, <1>11, <1>12, <1>13, <1>14
  DEF Next, Work, Beat

LEMMA HoleInit == Init => HoleInv /\ Latest = 0
<1> SUFFICES ASSUME Init PROVE HoleInv /\ Latest = 0
  OBVIOUS
<1>1. TypeOK /\ DueFits /\ log = {} /\ log \subseteq Rows
  BY StreamTypeInit, Bounds DEF Init, DueFits
<1>2. {e.seq : e \in log} = 1..0
  BY <1>1
<1>3. Latest = 0
  BY <1>1, <1>2, TopOfDense DEF Latest
<1>4. Dense /\ Unique
  BY <1>1, <1>2, <1>3 DEF Dense, Unique
<1>5. Pending
  BY DEF Init, Pending, Active, IdleWorker
<1> QED
  BY <1>1, <1>3, <1>4, <1>5 DEF HoleInv

\* The rows are numbered 1, 2, 3, ... whatever is lost, refused or appended by somebody
\* else: a cursor that has seen number n has seen all rows up to n.
THEOREM NoHolesEver == Spec => []NoHoles
<1>1. Init => HoleInv
  BY HoleInit
<1>2. HoleInv /\ [Next]_vars => HoleInv'
  BY StreamTypeStep, DueFitsStep, HoleStep DEF HoleInv
<1>3. HoleInv => NoHoles
  BY TypeParts, DenseCounts DEF HoleInv
<1> QED
  BY <1>1, <1>2, <1>3, PTL DEF Spec
-----------------------------------------------------------------------------
(* The stream implements EventLog. *)

\* What the fan-out has yet to write is the current turn's, and an end is the last of it.
Owned == /\ \A e \in Events(batch) \cup Events(durable) :
                /\ e.by = turn.began
                /\ IsEnd(e) => e = worker.event /\ e.seq = worker.next - 1
         /\ worker.pc = "put" => worker.event.by = turn.began
         /\ worker.pc = "run" => ~IsEnd(worker.event)

\* As long as the fan-out can write, nothing behind the base of its turn has ended it.
Unended == First = Latest + 1 /\ (First < worker.next \/ ~IsEnd(worker.event)) => Resumable

Writing == worker.pc \in Active /\ ~failed => Owned /\ Unended

\* Later executions write behind earlier ones; only the beat writes as nobody (by = 0).
Aged == /\ turn.base <= Latest
        /\ \A e \in log : e.by <= turn.began
        /\ \A e, d \in log : e.kind \in Pauses /\ d.seq <= e.seq => d.by <= e.by

\* A turn is due at the beginning or because the last execution that wrote has paused.
LastPaused == \E e \in log : e.kind \in Pauses /\ \A d \in log : d.by <= e.by

Dues == /\ turn.began = 0 => worker.pc = "idle" /\ beat.pc = "idle" /\ log = {}
        /\ turn.due => worker.pc = "idle" /\ (turn.began = 0 \/ LastPaused)

ContractInv == HoleInv /\ Writing /\ Aged /\ Dues

\* What a step puts into the queues, and the number of the first row to write.
LEMMA FirstKept ==
    ASSUME TypeOK, (\E kind \in Frames \ {"error"} : Submit(kind)) \/ PutWakes \/ Collect
    PROVE  /\ First' = First
           /\ Events(batch') \cup Events(durable') \subseteq Events(batch) \cup Events(durable) \cup {worker'.event}
<1>t. worker \in WorkerRow /\ QueuesOK /\ TurnOK
  BY TypeParts
<1>n. /\ worker.next \in Nat /\ Len(durable) \in Nat /\ Len(batch) \in Nat
      /\ durable \in Seq(Rows) /\ batch \in Seq(Rows)
  BY <1>t, LenProperties DEF WorkerRow, QueuesOK
<1>1. ASSUME NEW kind \in Frames \ {"error"}, Submit(kind)
      PROVE  /\ First' = First
             /\ Events(batch') \cup Events(durable') \subseteq Events(batch) \cup Events(durable) \cup {worker'.event}
  <2> DEFINE event == [seq |-> worker.next, kind |-> kind, by |-> turn.began]
  <2>1. event \in Rows
    BY <1>t DEF Rows, WorkerRow, TurnOK
  <2>2. /\ worker'.event = event /\ worker'.next = worker.next + 1 /\ worker.pc = "run" /\ batch' = batch
        /\ IF Room(durable) THEN worker'.pc = AfterPut(event) /\ durable' = Append(durable, event)
                            ELSE worker'.pc = "put" /\ durable' = durable
    BY <1>1, <1>t DEF Submit, WorkerRow
  <2> HIDE DEF event
  <2>3. Events(Append(durable, event)) = Events(durable) \cup {event} /\ Len(Append(durable, event)) = Len(durable) + 1
    BY <1>n, <2>1, EventsOfAppend
  <2>4. AfterPut(event) # "put"
    BY DEF AfterPut
  <2>5. First' = First
    <3>1. CASE Room(durable)
      <4>1. worker'.next = worker.next + 1 /\ Len(batch') = Len(batch) /\ Len(durable') = Len(durable) + 1
            /\ worker'.pc # "put"
        BY <2>2, <2>3, <2>4, <3>1
      <4>2. First = worker.next - Len(batch) - Len(durable)
        BY <1>n, <2>2 DEF First
      <4>3. First' = worker'.next - Len(batch') - Len(durable')
        BY <1>n, <4>1 DEF First
      <4> QED
        BY <1>n, <4>1, <4>2, <4>3
    <3>2. CASE ~Room(durable)
      <4>1. worker'.next = worker.next + 1 /\ Len(batch') = Len(batch) /\ Len(durable') = Len(durable)
            /\ worker'.pc = "put"
        BY <2>2, <3>2
      <4>2. First = worker.next - Len(batch) - Len(durable)
        BY <1>n, <2>2 DEF First
      <4>3. First' = worker'.next - Len(batch') - Len(durable') - 1
        BY <1>n, <4>1 DEF First
      <4> QED
        BY <1>n, <4>1, <4>2, <4>3
    <3> QED
      BY <3>1, <3>2
  <2> QED
    BY <2>2, <2>3, <2>5
<1>2. CASE PutWakes
  <2>1. /\ worker.event \in Rows /\ worker'.event = worker.event /\ worker'.next = worker.next /\ worker.pc = "put"
        /\ worker'.pc = AfterPut(worker.event) /\ durable' = Append(durable, worker.event) /\ batch' = batch
    BY <1>2, <1>t DEF PutWakes, WorkerRow
  <2>2. /\ Events(durable') = Events(durable) \cup {worker.event} /\ Len(durable') = Len(durable) + 1
        /\ worker'.pc # "put"
    BY <1>n, <2>1, EventsOfAppend DEF AfterPut
  <2>3. Len(batch') = Len(batch)
    BY <2>1
  <2>4. First = worker.next - Len(batch) - Len(durable) - 1
    BY <2>1 DEF First
  <2>5. First' = worker'.next - Len(batch') - Len(durable')
    BY <1>n, <2>1, <2>2, <2>3 DEF First
  <2>6. First' = First
    BY <1>n, <2>1, <2>2, <2>3, <2>4, <2>5
  <2> QED
    BY <2>1, <2>2, <2>6
<1>3. CASE Collect
  <2>1. durable # <<>> /\ batch' = Append(batch, Head(durable)) /\ durable' = Tail(durable) /\ worker' = worker
    BY <1>3 DEF Collect
  <2>2. /\ Head(durable) \in Rows /\ Len(durable') = Len(durable) - 1
        /\ Events(durable) = {Head(durable)} \cup Events(durable')
    BY <1>n, <2>1, EventsOfTail
  <2>3. Events(batch') = Events(batch) \cup {Head(durable)} /\ Len(batch') = Len(batch) + 1
    BY <1>n, <2>1, <2>2, EventsOfAppend
  <2>4. Events(batch') \cup Events(durable') = Events(batch) \cup Events(durable)
    BY <2>2, <2>3
  <2>5. Len(batch') + Len(durable') = Len(batch) + Len(durable) /\ Len(batch') \in Nat /\ Len(durable') \in Nat
    BY <1>n, <2>2, <2>3
  <2>6. First' = First
    <3>1. CASE worker.pc = "put"
      <4>1. First = worker.next - Len(batch) - Len(durable) - 1
        BY <3>1 DEF First
      <4>2. First' = worker.next - Len(batch') - Len(durable') - 1
        BY <2>1, <3>1 DEF First
      <4> QED
        BY SMTT(60), <1>n, <2>5, <4>1, <4>2
    <3>2. CASE worker.pc # "put"
      <4>1. First = worker.next - Len(batch) - Len(durable) - 0
        BY <3>2 DEF First
      <4>2. First' = worker.next - Len(batch') - Len(durable') - 0
        BY <2>1, <3>2 DEF First
      <4> QED
        BY <1>n, <2>5, <4>1, <4>2
    <3> QED
      BY <3>1, <3>2
  <2> QED
    BY <2>4, <2>6
<1> QED
  BY <1>1, <1>2, <1>3
\* What Persist and AppendError add to the log.
LEMMA PersistAdds ==
    ASSUME TypeOK, Dense, Unique, Pending, Writing, Persist
    PROVE  /\ log' = log \cup Events(batch) /\ Events(batch) # {} /\ Owned /\ Resumable
           /\ \A e \in Events(batch) : /\ e \in Rows /\ e.by = turn.began /\ e.seq \in Latest + 1..Latest'
                                       /\ IsEnd(e) => e.seq = Latest'
<1>t. worker \in WorkerRow /\ QueuesOK
  BY TypeParts
<1>n. /\ worker.next \in Nat /\ batch \in Seq(Rows) /\ batch # <<>> /\ Len(batch) \in Nat \ {0}
      /\ Len(durable) \in Nat /\ DOMAIN batch = 1..Len(batch)
  BY <1>t, LenProperties, EmptySeq DEF WorkerRow, QueuesOK, Persist
<1>1. /\ Latest' = Latest + Len(batch) /\ Latest \in Nat /\ Numbered /\ First = Latest + 1
  BY BatchFits
<1>2. /\ worker.pc \in Active /\ ~failed /\ log' = log \cup Events(batch)
  BY <1>n DEF Persist, Pending
<1>3. Owned /\ Unended
  BY <1>2 DEF Writing
<1>4. worker.next >= First + Len(batch)
  BY <1>n DEF First
<1>5. Resumable
  BY <1>1, <1>3, <1>4, <1>n DEF Unended
<1>6. Events(batch) # {}
  <2>1. 1 \in DOMAIN batch
    BY <1>n
  <2> QED
    BY <2>1 DEF Events
<1>7. ASSUME NEW e \in Events(batch)
      PROVE  /\ e \in Rows /\ e.by = turn.began /\ e.seq \in Latest + 1..Latest'
             /\ IsEnd(e) => e.seq = Latest'
  <2>1. PICK i \in 1..Len(batch) : e = batch[i]
    BY <1>n DEF Events
  <2>2. e \in Rows /\ e.by = turn.began /\ (IsEnd(e) => e.seq = worker.next - 1)
    BY <1>3, <1>n, EventsAreRows DEF Owned
  <2>3. batch[i].seq = First + i - 1
    BY <1>1, <2>1 DEF Numbered
  <2> HIDE DEF First
  <2>4. e.seq = Latest + i
    BY SMTT(60), <1>1, <1>n, <2>1, <2>3
  <2> QED
    BY <1>1, <1>4, <1>n, <2>2, <2>4
<1> QED
  BY <1>2, <1>3, <1>5, <1>6, <1>7

LEMMA AgedStep == ContractInv /\ [Next]_vars => Aged'
<1> SUFFICES ASSUME ContractInv, [Next]_vars PROVE Aged'
  OBVIOUS
<1>t. /\ TypeOK /\ log \subseteq Rows /\ BeatOK /\ TurnOK /\ worker \in WorkerRow /\ Latest \in Nat
  BY TypeParts, LatestType DEF ContractInv, HoleInv
<1>i. Dense /\ Unique /\ Pending /\ Writing /\ Aged
  BY DEF ContractInv, HoleInv
<1>o. \A e \in log : e.seq \in 1..Latest /\ e.by \in Nat
  BY <1>t DEF Rows, Dense, HoleInv, ContractInv
<1>k. ASSUME UNCHANGED log, turn'.base = turn.base, turn'.began = turn.began PROVE Aged'
  <2>1. Latest' = Latest
    BY <1>k DEF Latest
  <2> QED
    BY <1>i, <1>k, <2>1 DEF Aged
<1>1. CASE Begin
  <2>1. UNCHANGED log /\ turn'.base = Latest /\ turn'.began = turn.began + 1 /\ Latest' = Latest
    BY <1>1, <1>t DEF Begin, TurnOK, Latest
  <2>2. \A e \in log : e.by <= turn.began + 1
    BY <1>i, <1>o, <1>t DEF Aged, TurnOK
  <2> QED
    BY <1>i, <1>t, <2>1, <2>2 DEF Aged
<1>2. CASE Persist
  <2>1. /\ log' = log \cup Events(batch) /\ UNCHANGED turn
        /\ \A e \in Events(batch) : e.by = turn.began /\ e.seq \in Latest + 1..Latest'
    BY <1>2, <1>t, <1>i, PersistAdds DEF Persist
  <2>2. Latest' \in Nat /\ Latest' >= Latest
    BY <1>2, <1>t, <1>i, BatchFits, LenProperties, TypeParts DEF QueuesOK
  <2>3. \A e \in log' : e.by <= turn.began
    BY <1>i, <1>t, <2>1 DEF Aged, TurnOK
  <2>4. ASSUME NEW e \in log', NEW d \in log', e.kind \in Pauses, d.seq <= e.seq PROVE d.by <= e.by
    <3>1. CASE e \in Events(batch)
      BY <2>1, <2>3, <3>1
    <3>2. CASE e \in log
      <4>1. d \in log
        BY <1>o, <1>t, <2>1, <2>2, <2>4, <3>2
      <4> QED
        BY <1>i, <2>4, <3>2, <4>1 DEF Aged
    <3> QED
      BY <2>1, <3>1, <3>2
  <2>5. turn'.base <= Latest'
    BY <1>i, <1>t, <2>1, <2>2 DEF Aged, TurnOK
  <2> QED
    BY <2>1, <2>3, <2>4, <2>5 DEF Aged
<1>3. ASSUME NEW row \in Rows, row.kind = "error", row.by <= turn.began, UNCHANGED turn,
             log' = log \cup {row}, row.seq = Latest + 1, Latest' = Latest + 1
      PROVE  Aged'
  <2>1. \A e \in log' : e.by <= turn.began
    BY <1>3, <1>i DEF Aged
  <2>2. ASSUME NEW e \in log', NEW d \in log', e.kind \in Pauses, d.seq <= e.seq PROVE d.by <= e.by
    <3>1. e \in log
      BY <1>3, <2>2 DEF Pauses
    <3>2. d \in log
      BY <1>3, <1>o, <1>t, <2>2, <3>1
    <3> QED
      BY <1>i, <2>2, <3>1, <3>2 DEF Aged
  <2> QED
    BY <1>3, <1>i, <1>t, <2>1, <2>2 DEF Aged, TurnOK
<1>4. CASE ReportCommits
  <2> DEFINE row == ErrorRow(worker.next, turn.began)
  <2>1. /\ AppendError(row) /\ UNCHANGED turn /\ worker.pc = "report_commit"
    BY <1>4 DEF ReportCommits
  <2>2. row \in Rows /\ row.seq \in 1..Latest + 1 /\ row.kind = "error" /\ row.by <= turn.began
    BY <1>t, <1>i, <2>1, ErrorRowType DEF WorkerRow, TurnOK, Pending, ErrorRow
  <2> HIDE DEF row
  <2> QED
    BY <1>t, <1>i, <1>k, <1>3, <2>1, <2>2, AppendErrorFits
<1>5. CASE BeatCommits
  <2> DEFINE row == ErrorRow(beat.seq, 0)
  <2>1. /\ AppendError(row) /\ UNCHANGED turn /\ beat.pc = "commit"
    BY <1>5 DEF BeatCommits
  <2>2. row \in Rows /\ row.seq \in 1..Latest + 1 /\ row.kind = "error" /\ row.by <= turn.began
    BY <1>t, <1>i, <2>1, ErrorRowType, Bounds DEF BeatOK, TurnOK, Pending, ErrorRow
  <2> HIDE DEF row
  <2> QED
    BY <1>t, <1>i, <1>k, <1>3, <2>1, <2>2, AppendErrorFits
<1>6. CASE (\E kind \in Frames \ {"error"} : Submit(kind)) \/ \E r \in Readers : Answer(r)
  <2>1. UNCHANGED log /\ turn'.base = turn.base /\ turn'.began = turn.began
    BY ZenonT(60), <1>6, <1>t DEF Submit, Answer, TurnOK
  <2> QED
    BY <1>k, <2>1
<1>7. CASE UNCHANGED <<log, turn>>
  BY <1>7, <1>k
<1> QED
  BY <1>1, <1>2, <1>4, <1>5, <1>6, <1>7 DEF Next, Work, Beat, PutWakes, EndIsDurable, SubmitLive, Close,
     Collect, PersistFails, Publish, ReportReads, StreamStops, LeaseExpires, BeatReads,
     Open, Replay, Receive, Crash, QuotaReached, vars

LEMMA DuesStep == ContractInv /\ [Next]_vars => Dues'
<1> SUFFICES ASSUME ContractInv, [Next]_vars PROVE Dues'
  OBVIOUS
<1>t. /\ TypeOK /\ log \subseteq Rows /\ BeatOK /\ TurnOK /\ worker \in WorkerRow
  BY TypeParts DEF ContractInv, HoleInv
<1>i. Unique /\ Pending /\ Aged /\ Dues
  BY DEF ContractInv, HoleInv
<1>1. CASE Begin
  <2>1. turn'.began = turn.began + 1 /\ turn'.due = FALSE
    BY <1>1, <1>t DEF Begin, TurnOK
  <2> QED
    BY <1>t, <2>1 DEF Dues, TurnOK
<1>2. ASSUME NEW r \in Readers, Answer(r) PROVE Dues'
  <2>1. /\ UNCHANGED <<log, worker, beat>> /\ turn'.began = turn.began /\ worker.pc = "idle" /\ Paused
    BY <1>2, <1>t DEF Answer, FanoutVars, TurnOK
  <2>2. PICK e \in log : e.seq = Latest /\ e.kind \in Pauses
    BY <2>1 DEF Paused
  <2>3. \A d \in log : d.seq <= Latest
    BY <1>t, LatestType DEF ContractInv, HoleInv, Dense
  <2>4. LastPaused
    BY <1>i, <2>2, <2>3 DEF LastPaused, Aged
  <2> QED
    BY <1>i, <2>1, <2>4 DEF Dues, LastPaused
\* All other steps leave turn.due and turn.began alone.
<1>3. ASSUME turn'.due = turn.due, turn'.began = turn.began, turn.began = 0 => UNCHANGED <<log, beat>>,
             turn.began = 0 \/ turn.due => worker'.pc = "idle", LastPaused => LastPaused'
      PROVE  Dues'
  BY <1>3, <1>i DEF Dues
<1>4. CASE Persist
  <2>1. worker.pc \in Active /\ UNCHANGED turn
    BY <1>4, <1>i DEF Persist, Pending
  <2> QED
    BY <1>i, <1>3, <2>1 DEF Dues, Active
<1>5. CASE BeatCommits
  <2>1. /\ AppendError(ErrorRow(beat.seq, 0)) /\ UNCHANGED <<turn, worker>> /\ beat.pc = "commit"
    BY <1>5 DEF BeatCommits, FanoutVars
  <2>2. turn.began # 0
    BY <1>i, <2>1 DEF Dues
  <2>3. log' = log \/ log' = log \cup {ErrorRow(beat.seq, 0)}
    BY <2>1 DEF AppendError
  <2>4. \A e \in log : 0 <= e.by
    BY <1>t DEF Rows
  <2>5. ErrorRow(beat.seq, 0).by = 0
    BY DEF ErrorRow
  <2>6. LastPaused => LastPaused'
    BY <2>3, <2>4, <2>5 DEF LastPaused
  <2> QED
    BY <1>i, <1>3, <2>1, <2>2, <2>6 DEF Dues
<1>6. CASE \/ \E kind \in Frames \ {"error"} : Submit(kind)
           \/ PutWakes \/ EndIsDurable \/ SubmitLive \/ StreamStops \/ Close
           \/ ReportReads \/ ReportCommits \/ Crash
  <2>1. worker.pc # "idle"
    BY <1>6 DEF Submit, PutWakes, EndIsDurable, SubmitLive, StreamStops, Close, ReportReads,
                ReportCommits, Crash
  <2>2. turn'.due = turn.due /\ turn'.began = turn.began
    BY <1>6, <1>t DEF Submit, PutWakes, EndIsDurable, SubmitLive, StreamStops, Close, ReportReads,
                ReportCommits, Crash, TurnOK
  <2> QED
    BY <1>i, <2>1, <2>2 DEF Dues
<1>7. CASE Collect \/ PersistFails \/ Publish \/ QuotaReached \/ UNCHANGED vars \/ BeatReads \/ LeaseExpires
           \/ \E r \in Readers : Open(r) \/ Replay(r) \/ Receive(r)
  <2>1. UNCHANGED <<log, worker, turn>> /\ (BeatReads \/ LeaseExpires \/ beat' = beat)
    BY <1>7 DEF Collect, PersistFails, Publish, QuotaReached, vars, BeatReads, LeaseExpires, Open, Replay,
                Receive, FanoutVars
  <2>2. turn.began = 0 => beat' = beat
    BY <1>i, <2>1 DEF Dues, BeatReads, LeaseExpires
  <2> QED
    BY <1>i, <1>3, <2>1, <2>2 DEF Dues, LastPaused
<1> QED
  BY <1>1, <1>2, <1>4, <1>5, <1>6, <1>7 DEF Next, Work, Beat
LEMMA WritingStep == ContractInv /\ [Next]_vars => Writing'
<1> SUFFICES ASSUME ContractInv, [Next]_vars PROVE Writing'
  OBVIOUS
<1>t. /\ TypeOK /\ log \subseteq Rows /\ BeatOK /\ TurnOK /\ worker \in WorkerRow /\ Latest \in Nat /\ QueuesOK
  BY TypeParts, LatestType DEF ContractInv, HoleInv
<1>n. /\ worker.next \in Nat /\ Len(durable) \in Nat /\ Len(batch) \in Nat
      /\ durable \in Seq(Rows) /\ batch \in Seq(Rows) /\ turn.base \in Nat
  BY <1>t, LenProperties DEF WorkerRow, QueuesOK, TurnOK
<1>i. Dense /\ Unique /\ Pending /\ Writing /\ Aged
  BY DEF ContractInv, HoleInv
\* What neither ends a stream nor adds to the log or to the queues.
<1>k. ASSUME Writing, worker.pc \in Active, ~failed, UNCHANGED <<log, durable, batch>>,
             worker'.next = worker.next, worker'.event = worker.event, worker.pc # "put", worker'.pc # "put",
             worker'.pc = "run" => worker.pc = "run" \/ ~IsEnd(worker.event),
             turn'.base = turn.base, turn'.began = turn.began
      PROVE  Writing'
  <2>1. First' = First /\ Latest' = Latest /\ (Resumable' <=> Resumable)
    BY <1>k DEF First, Latest, Resumable
  <2>2. Owned'
    BY <1>k DEF Owned, Writing
  <2>3. Unended'
    BY <1>k, <2>1 DEF Unended, Writing
  <2> QED
    BY <2>2, <2>3 DEF Writing
<1>1. CASE Begin
  <2>1. /\ durable' = <<>> /\ batch' = <<>> /\ UNCHANGED log /\ turn'.base = Latest
        /\ worker'.pc = "run" /\ worker'.event = NoEvent
    BY <1>1, <1>t, <1>i DEF Begin, Pending, Active, IdleWorker, TurnOK
  <2>2. Owned'
    BY <2>1, NoEvents DEF Owned, IsEnd, NoEvent, Ends
  <2>3. \A e \in log : ~(e.seq > Latest)
    BY <1>t, <1>i DEF Dense
  <2>4. Resumable'
    BY <2>1, <2>3 DEF Resumable
  <2> QED
    BY <2>2, <2>4 DEF Writing, Unended
<1>2. CASE (\E kind \in Frames \ {"error"} : Submit(kind)) \/ PutWakes
  <2>1. /\ First' = First
        /\ Events(batch') \cup Events(durable') \subseteq Events(batch) \cup Events(durable) \cup {worker'.event}
    BY <1>2, <1>t, FirstKept
  <2>2. /\ worker.pc \in Active /\ worker.pc \in {"run", "put"} /\ failed' = failed /\ UNCHANGED log
        /\ turn'.base = turn.base /\ turn'.began = turn.began
    BY ZenonT(60), <1>2, <1>t DEF Submit, PutWakes, Active, TurnOK
  <2>3. CASE failed
    BY <2>2, <2>3 DEF Writing
  <2>4. CASE ~failed
    <3>1. Owned /\ Unended /\ Numbered
      BY <1>i, <2>2, <2>4 DEF Writing, Pending
    <3>2. Latest' = Latest /\ (Resumable' <=> Resumable)
      BY <2>2 DEF Latest, Resumable
    <3>3. worker'.event.by = turn.began /\ worker'.event.seq = worker'.next - 1 /\ worker'.pc # "run"
      <4>1. CASE PutWakes
        BY <3>1, <4>1, <1>t DEF PutWakes, Owned, Numbered, AfterPut, WorkerRow
      <4>2. CASE \E kind \in Frames \ {"error"} : Submit(kind)
        BY <1>n, <1>t, <4>2 DEF Submit, AfterPut, WorkerRow
      <4> QED
        BY <1>2, <4>1, <4>2
    <3>4. \A e \in Events(batch) \cup Events(durable) : IsEnd(e) => e = worker'.event
      <4>1. CASE PutWakes
        BY <3>1, <4>1, <1>t DEF PutWakes, Owned, WorkerRow
      <4>2. CASE \E kind \in Frames \ {"error"} : Submit(kind)
        BY <3>1, <4>2 DEF Submit, Owned
      <4> QED
        BY <1>2, <4>1, <4>2
    <3>5. Owned'
      BY <2>1, <2>2, <3>1, <3>3, <3>4 DEF Owned
    <3>6. First = Latest + 1 => Resumable
      <4>1. CASE worker.pc = "run"
        BY <3>1, <4>1 DEF Unended, Owned
      <4>2. CASE worker.pc = "put"
        <5>1. First < worker.next
          BY <1>n, <4>2 DEF First
        <5> QED
          BY <3>1, <5>1 DEF Unended
      <4> QED
        BY <2>2, <4>1, <4>2
    <3> QED
      BY <2>1, <3>2, <3>5, <3>6 DEF Writing, Unended
  <2> QED
    BY <2>3, <2>4
<1>3. CASE EndIsDurable \/ SubmitLive
  <2>1. /\ worker.pc \in Active /\ worker.pc # "put" /\ worker'.pc # "put"
        /\ UNCHANGED <<log, durable, batch, failed, turn>>
        /\ worker'.next = worker.next /\ worker'.event = worker.event
        /\ worker'.pc = "run" => ~IsEnd(worker.event)
    BY <1>3, <1>t DEF EndIsDurable, SubmitLive, Active, WorkerRow, IsEnd
  <2> QED
    BY <1>i, <1>k, <2>1 DEF Writing
<1>4. CASE StreamStops
  <2>1. /\ worker.pc \in Active /\ worker.pc # "put" /\ worker'.pc = "close"
        /\ UNCHANGED <<log, durable, batch, failed, turn>>
        /\ worker'.next = worker.next /\ worker'.event = worker.event
    BY <1>4, <1>t DEF StreamStops, Active, WorkerRow
  <2> QED
    BY <1>i, <1>k, <2>1 DEF Writing
<1>5. CASE Collect
  <2>1. /\ First' = First
        /\ Events(batch') \cup Events(durable') \subseteq Events(batch) \cup Events(durable) \cup {worker'.event}
    BY <1>5, <1>t, FirstKept
  <2>2. UNCHANGED <<log, worker, failed, turn>> /\ durable # <<>> /\ batch' = Append(batch, Head(durable))
        /\ durable' = Tail(durable)
    BY <1>5 DEF Collect
  <2>3. Events(batch') \cup Events(durable') = Events(batch) \cup Events(durable)
    BY <1>n, <2>2, EventsOfTail, EventsOfAppend
  <2>4. Latest' = Latest /\ (Resumable' <=> Resumable)
    BY <2>2 DEF Latest, Resumable
  <2>5. Owned => Owned'
    BY <2>2, <2>3 DEF Owned
  <2>6. Unended => Unended'
    BY <2>1, <2>2, <2>4 DEF Unended
  <2> QED
    BY <1>i, <2>2, <2>5, <2>6 DEF Writing
<1>6. CASE Persist
  <2>1. /\ log' = log \cup Events(batch) /\ Owned /\ Resumable
        /\ \A e \in Events(batch) : e.seq \in Latest + 1..Latest' /\ (IsEnd(e) => e.seq = Latest')
    BY <1>6, <1>t, <1>i, PersistAdds
  <2>2. Latest' = Latest + Len(batch) /\ First = Latest + 1
    BY <1>6, <1>t, <1>i, BatchFits
  <2>3. batch' = <<>> /\ UNCHANGED <<worker, durable, failed, turn>>
    BY <1>6 DEF Persist
  <2>4. First' = Latest' + 1
    <3>1. First' = First + Len(batch)
      BY <1>n, <2>3, NoEvents DEF First
    <3> HIDE DEF First
    <3> QED
      BY <1>n, <1>t, <2>2, <3>1
  <2>5. Owned'
    BY <2>1, <2>3, NoEvents DEF Owned
  <2>6. ASSUME worker.next > Latest' + 1 \/ ~IsEnd(worker.event), NEW e \in Events(batch) PROVE ~IsEnd(e)
    <3>1. IsEnd(e) => e = worker.event /\ e.seq = worker.next - 1 /\ e.seq = Latest'
      BY <2>1 DEF Owned
    <3> QED
      BY <1>n, <2>2, <2>6, <3>1
  <2>7. Unended'
    <3> SUFFICES ASSUME worker.next > Latest' + 1 \/ ~IsEnd(worker.event) PROVE Resumable'
      BY <1>n, <2>2, <2>3, <2>4 DEF Unended
    <3> QED
      BY <2>1, <2>3, <2>6 DEF Resumable, IsEnd
  <2> QED
    BY <2>5, <2>7 DEF Writing
<1>7. CASE BeatCommits
  <2> DEFINE row == ErrorRow(beat.seq, 0)
  <2>1. /\ AppendError(row) /\ UNCHANGED <<worker, durable, batch, failed, turn>> /\ beat.pc = "commit"
    BY <1>7 DEF BeatCommits, FanoutVars
  <2>2. row \in Rows /\ row.seq \in 1..Latest + 1
    BY <1>t, <1>i, <2>1, ErrorRowType, Bounds DEF BeatOK, Pending, ErrorRow
  <2> HIDE DEF row
  <2>3. log' = log \/ Latest' = Latest + 1
    BY <1>t, <1>i, <2>1, <2>2, AppendErrorFits
  <2>4. worker.pc \in Active /\ ~failed => Owned /\ Unended /\ First \in 1..Latest + 1
    BY <1>i DEF Writing, Pending, Numbered
  <2>5. First' = First /\ (Owned => Owned')
    BY <2>1 DEF First, Owned
  <2>6. CASE log' = log
    <3>1. Latest' = Latest /\ (Resumable' <=> Resumable)
      BY <2>1, <2>6 DEF Latest, Resumable
    <3>2. Unended => Unended'
      BY <2>1, <2>5, <3>1 DEF Unended
    <3> QED
      BY <2>1, <2>4, <2>5, <3>2 DEF Writing
  <2>7. CASE Latest' = Latest + 1
    <3>1. First \in 1..Latest + 1 => First' # Latest' + 1
      BY <1>t, <2>5, <2>7
    <3>2. First \in 1..Latest + 1 => Unended'
      BY <3>1 DEF Unended
    <3> QED
      BY <2>1, <2>4, <2>5, <3>2 DEF Writing
  <2> QED
    BY <2>3, <2>6, <2>7
<1>8. CASE Close \/ ReportReads \/ ReportCommits \/ Crash
  <2>1. worker'.pc \in {"idle", "report", "report_commit", "crashed"}
    <3>1. CASE Close
      BY <3>1, <1>t DEF Close, IdleWorker, WorkerRow
    <3>2. CASE ReportReads
      BY <3>2, <1>t DEF ReportReads, WorkerRow
    <3>3. CASE ReportCommits \/ Crash
      BY <3>3 DEF ReportCommits, Crash, IdleWorker
    <3> QED
      BY <1>8, <3>1, <3>2, <3>3
  <2> QED
    BY <2>1 DEF Writing, Active
<1>10. CASE PersistFails
  BY <1>10 DEF PersistFails, Writing
<1>9. CASE Publish \/ QuotaReached \/ UNCHANGED vars \/ BeatReads \/ LeaseExpires
           \/ \E r \in Readers : Open(r) \/ Answer(r) \/ Replay(r) \/ Receive(r)
  <2>1. /\ UNCHANGED <<log, worker, durable, batch, failed>>
        /\ turn'.base = turn.base /\ turn'.began = turn.began
    BY <1>9, <1>t DEF Publish, QuotaReached, vars, BeatReads, LeaseExpires, Open, Answer, Replay, Receive,
                FanoutVars, TurnOK
  <2>2. First' = First /\ Latest' = Latest /\ (Resumable' <=> Resumable)
    BY <2>1 DEF First, Latest, Resumable
  <2> QED
    BY <1>i, <2>1, <2>2 DEF Writing, Owned, Unended
<1> QED
  BY <1>1, <1>2, <1>3, <1>4, <1>5, <1>6, <1>7, <1>8, <1>9, <1>10 DEF Next, Work, Beat
LEMMA ContractInvariant == Spec => []ContractInv
<1>1. Init => ContractInv
  <2> SUFFICES ASSUME Init PROVE ContractInv
    OBVIOUS
  <2>1. HoleInv /\ Latest = 0
    BY HoleInit
  <2>2. Writing /\ Aged /\ Dues
    BY <2>1 DEF Init, Writing, Active, IdleWorker, Aged, Dues
  <2> QED
    BY <2>1, <2>2 DEF ContractInv
<1>2. ContractInv /\ [Next]_vars => ContractInv'
  BY StreamTypeStep, DueFitsStep, HoleStep, WritingStep, AgedStep, DuesStep DEF ContractInv, HoleInv
<1> QED
  BY <1>1, <1>2, PTL DEF Spec

\* The number that EventLog chooses is the greatest one.
LEMMA ContractLatest ==
    ASSUME NEW rows, rows \subseteq Rows, NEW n \in Nat, \A e \in rows : e.seq <= n,
           IF rows = {} THEN n = 0 ELSE \E e \in rows : e.seq = n
    PROVE  Contract!Latest(rows) = n
<1>1. CASE rows = {}
  BY <1>1 DEF Contract!Latest
<1>2. CASE rows # {}
  <2> DEFINE seqs == {e.seq : e \in rows}
  <2>1. n \in seqs /\ (\A e \in rows : e.seq <= n) /\ \A m \in seqs : m \in Nat
    BY <1>2 DEF Rows
  <2>2. \A m \in seqs : (\A e \in rows : e.seq <= m) => m = n
    BY <2>1
  <2>3. Contract!Latest(rows) = CHOOSE m \in seqs : \A e \in rows : e.seq <= m
    BY <1>2 DEF Contract!Latest
  <2> HIDE DEF seqs
  <2> QED
    BY <2>1, <2>2, <2>3
<1> QED
  BY <1>1, <1>2

\* The rows of a batch take the next numbers, one each.
LEMMA BatchCounts ==
    ASSUME TypeOK, Dense, Unique, Pending, Persist
    PROVE  /\ {e.seq : e \in Events(batch)} = (Latest + 1)..(Latest + Len(batch))
           /\ \A e, d \in Events(batch) : e.seq = d.seq => e = d
<1>t. batch \in Seq(Rows)
  BY TypeParts DEF QueuesOK
<1>n. Len(batch) \in Nat /\ DOMAIN batch = 1..Len(batch) /\ Latest \in Nat
  BY <1>t, LenProperties, BatchFits
<1>1. Numbered /\ First = Latest + 1
  BY BatchFits
<1>2. \A i \in 1..Len(batch) : batch[i].seq = First + i - 1
  BY <1>1 DEF Numbered
<1> HIDE DEF First
<1>3. \A i \in 1..Len(batch) : batch[i].seq = Latest + i
  BY <1>n, <1>1, <1>2
<1>4. \A e \in Events(batch) : \E i \in 1..Len(batch) : e = batch[i] /\ e.seq = Latest + i
  BY <1>n, <1>3 DEF Events
<1>5. \A e \in Events(batch) : e.seq \in (Latest + 1)..(Latest + Len(batch))
  BY <1>n, <1>4
<1>6. ASSUME NEW m \in (Latest + 1)..(Latest + Len(batch)) PROVE \E e \in Events(batch) : e.seq = m
  <2>1. m - Latest \in 1..Len(batch)
    BY <1>n
  <2>2. batch[m - Latest] \in Events(batch) /\ batch[m - Latest].seq = m
    BY SMTT(60), <1>n, <1>3, <2>1 DEF Events
  <2> QED
    BY <2>2
<1>7. ASSUME NEW e \in Events(batch), NEW d \in Events(batch), e.seq = d.seq PROVE e = d
  <2>1. PICK i \in 1..Len(batch) : e = batch[i] /\ e.seq = Latest + i
    BY <1>4
  <2>2. PICK j \in 1..Len(batch) : d = batch[j] /\ d.seq = Latest + j
    BY <1>4
  <2>3. i = j
    BY <1>n, <1>7, <2>1, <2>2
  <2> QED
    BY <2>1, <2>2, <2>3
<1> QED
  BY <1>5, <1>6, <1>7

LEMMA ContractStep == ContractInv /\ [Next]_vars => [Contract!Next]_<<log, Resumable>>
<1> SUFFICES ASSUME ContractInv, [Next]_vars PROVE [Contract!Next]_<<log, Resumable>>
  OBVIOUS
<1>t. /\ TypeOK /\ log \subseteq Rows /\ BeatOK /\ TurnOK /\ worker \in WorkerRow /\ QueuesOK /\ Latest \in Nat
  BY TypeParts, LatestType DEF ContractInv, HoleInv
<1>i. Dense /\ Unique /\ Pending /\ Writing /\ Aged /\ Dues
  BY DEF ContractInv, HoleInv
<1>o. \A e \in log : e.seq \in 1..Latest
  BY <1>i DEF Dense
<1>l. Contract!Latest(log) = Latest
  <2>1. IF log = {} THEN Latest = 0 ELSE \E e \in log : e.seq = Latest
    <3>1. CASE log = {}
      <4>1. 1..Latest = {}
        BY <1>i, <3>1 DEF Dense
      <4> QED
        BY <1>t, <3>1, <4>1
    <3>2. CASE log # {}
      <4>1. Latest \in 1..Latest
        BY <1>o, <1>t, <3>2
      <4> QED
        BY <1>i, <3>2, <4>1 DEF Dense
    <3> QED
      BY <3>1, <3>2
  <2>2. \A e \in log : e.seq <= Latest
    BY <1>o, <1>t
  <2> QED
    BY <1>t, <2>1, <2>2, ContractLatest
\* Steps that the contract does not see.
<1>k. ASSUME UNCHANGED log, turn'.base = turn.base PROVE [Contract!Next]_<<log, Resumable>>
  <2>1. Resumable' = Resumable
    BY <1>k DEF Resumable
  <2> QED
    BY <1>k, <2>1
<1>1. CASE Begin
  <2>1. turn.due /\ UNCHANGED log /\ turn'.base = Latest
    BY <1>1, <1>t DEF Begin, TurnOK
  <2>2. \A e \in log : ~(e.seq > Latest)
    BY <1>o, <1>t
  <2>3. Resumable'
    BY <2>1, <2>2 DEF Resumable
  <2>4. CASE LastPaused
    <3>1. Contract!Resume
      BY <2>1, <2>3, <2>4 DEF Contract!Resume, LastPaused, Resumable
    <3> QED
      BY <3>1 DEF Contract!Next
  <2>5. CASE log = {}
    <3>1. Resumable
      BY <2>5 DEF Resumable
    <3>2. Resumable' = Resumable
      BY <2>3, <3>1 DEF Resumable
    <3> QED
      BY <2>1, <3>2
  <2> QED
    BY <1>i, <2>1, <2>4, <2>5 DEF Dues
<1>2. CASE Persist
  <2> DEFINE new == log' \ log
  <2>1. /\ log' = log \cup Events(batch) /\ Events(batch) # {} /\ Resumable
        /\ \A e \in Events(batch) : e \in Rows /\ e.seq \in Latest + 1..Latest' /\ (IsEnd(e) => e.seq = Latest')
    BY <1>2, <1>t, <1>i, PersistAdds
  <2>2. Latest' = Latest + Len(batch) /\ Len(batch) \in Nat
    BY <1>2, <1>t, <1>i, BatchFits, LenProperties DEF QueuesOK
  <2>3. /\ {e.seq : e \in Events(batch)} = (Latest + 1)..(Latest + Len(batch))
        /\ \A e, d \in Events(batch) : e.seq = d.seq => e = d
    BY <1>2, <1>t, <1>i, BatchCounts
  <2>4. new = Events(batch)
    <3>1. \A e \in Events(batch) : e \notin log
      BY <1>o, <1>t, <2>1, <2>2
    <3> QED
      BY <2>1, <3>1
  <2> HIDE DEF new
  <2>l. Latest' \in (Latest + 1)..(Latest + Len(batch))
    BY <1>t, <2>1, <2>2, <2>4
  <2>5. Contract!Latest(new) = Latest'
    <3>1. \A e \in new : e.seq <= Latest'
      BY <1>t, <2>1, <2>2, <2>4
    <3>2. \E e \in new : e.seq = Latest'
      BY <2>3, <2>4, <2>l
    <3> QED
      BY <1>t, <2>1, <2>2, <2>4, <3>1, <3>2, ContractLatest
  <2>6. Contract!Continues(new)
    <3>1. Contract!Latest(log \cup new) = Latest'
      <4>1. \A e \in log \cup new : e \in Rows /\ e.seq <= Latest'
        BY <1>o, <1>t, <2>1, <2>2, <2>4
      <4>2. \E e \in log \cup new : e.seq = Latest'
        BY <2>3, <2>4, <2>l
      <4> QED
        BY <1>t, <2>2, <4>1, <4>2, ContractLatest
    <3> QED
      BY <1>l, <2>2, <2>3, <2>4, <3>1 DEF Contract!Continues
  <2>7. \A e \in new : e.kind \in Ends => e \in Contract!Final(new)
    BY <2>1, <2>4, <2>5 DEF Contract!Final, IsEnd
  <2>8. log' = log \cup new
    BY <2>1, <2>4
  <2>9. turn'.base = turn.base /\ turn.base <= Latest /\ turn.base \in Nat
    BY <1>2, <1>i, <1>t DEF Persist, Aged, TurnOK
  <2>10. Resumable' <=> \A e \in new : e.kind \notin Ends
    <3>1. \A e \in new : e.seq > turn.base
      BY <1>t, <2>1, <2>4, <2>9
    <3> QED
      BY <2>1, <2>8, <2>9, <3>1 DEF Resumable
  <2>11. Contract!Final(new) \cap [seq : Int, kind : Ends, by : Int] = {} <=> \A e \in new : e.kind \notin Ends
    <3>1. Contract!Final(new) \subseteq new
      BY DEF Contract!Final
    <3>2. \A e \in new : e.kind \in Ends => e \in [seq : Int, kind : Ends, by : Int]
      BY <2>1, <2>4, Bounds DEF Rows
    <3>3. \A e \in [seq : Int, kind : Ends, by : Int] : e.kind \in Ends
      OBVIOUS
    <3> QED
      BY <2>7, <3>1, <3>2, <3>3
  <2>12. Resumable' = (Contract!Final(new) \cap [seq : Int, kind : Ends, by : Int] = {})
    BY <2>10, <2>11 DEF Resumable
  <2>13. Contract!Progress(new)
    BY <2>1, <2>4, <2>6, <2>7, <2>8, <2>12 DEF Contract!Progress
  <2> QED
    BY <2>13 DEF Contract!Next, new
<1>3. ASSUME NEW row \in Rows, row.kind = "error", row.seq \in 1..Latest + 1, AppendError(row), UNCHANGED turn
      PROVE  [Contract!Next]_<<log, Resumable>>
  <2>1. UNCHANGED log \/ (log' = log \cup {row} /\ row.seq = Latest + 1 /\ Latest' = Latest + 1)
    BY <1>3, <1>t, <1>i, AppendErrorFits
  <2>2. CASE UNCHANGED log
    BY <1>3, <1>k, <2>2
  <2>3. CASE log' = log \cup {row} /\ row.seq = Latest + 1
    <3> DEFINE new == log' \ log
    <3>1. new = {row}
      BY <1>o, <1>t, <2>3
    <3> HIDE DEF new
    <3>2. Contract!Latest(log \cup new) = Latest + 1
      <4>1. \A e \in log \cup new : e \in Rows /\ e.seq <= Latest + 1
        BY <1>3, <1>o, <1>t, <2>3, <3>1
      <4>2. \E e \in log \cup new : e.seq = Latest + 1
        BY <2>3, <3>1
      <4> QED
        BY <1>t, <4>1, <4>2, ContractLatest
    <3>3. {e.seq : e \in new} = {Latest + 1} /\ (Latest + 1)..(Latest + 1) = {Latest + 1}
      BY <1>t, <2>3, <3>1
    <3>4. Contract!Continues(new)
      BY <1>l, <3>1, <3>2, <3>3 DEF Contract!Continues
    <3>5. row.seq > turn.base /\ turn' = turn
      BY <1>3, <1>t, <1>i, <2>3 DEF Aged, TurnOK
    <3>6. Resumable' = FALSE
      BY <1>3, <2>3, <3>5 DEF Resumable, Ends
    <3>7. \A e \in new : e.kind \in Ends \ Pauses
      BY <1>3, <3>1 DEF Ends, Pauses
    <3>8. Contract!Report(new)
      BY <2>3, <3>1, <3>4, <3>6, <3>7 DEF Contract!Report
    <3> QED
      BY <3>8 DEF Contract!Next, new
  <2> QED
    BY <2>1, <2>2, <2>3
<1>4. CASE ReportCommits
  <2>1. AppendError(ErrorRow(worker.next, turn.began)) /\ UNCHANGED turn /\ worker.pc = "report_commit"
    BY <1>4 DEF ReportCommits
  <2>2. /\ ErrorRow(worker.next, turn.began) \in Rows /\ ErrorRow(worker.next, turn.began).kind = "error"
        /\ ErrorRow(worker.next, turn.began).seq \in 1..Latest + 1
    BY <1>t, <1>i, <2>1, ErrorRowType DEF WorkerRow, TurnOK, Pending, ErrorRow
  <2> QED
    BY <1>3, <2>1, <2>2
<1>5. CASE BeatCommits
  <2>1. AppendError(ErrorRow(beat.seq, 0)) /\ UNCHANGED turn /\ beat.pc = "commit"
    BY <1>5 DEF BeatCommits
  <2>2. /\ ErrorRow(beat.seq, 0) \in Rows /\ ErrorRow(beat.seq, 0).kind = "error"
        /\ ErrorRow(beat.seq, 0).seq \in 1..Latest + 1
    BY <1>t, <1>i, <2>1, ErrorRowType, Bounds DEF BeatOK, Pending, ErrorRow
  <2> QED
    BY <1>3, <2>1, <2>2
<1>6. CASE (\E kind \in Frames \ {"error"} : Submit(kind)) \/ \E r \in Readers : Answer(r)
  <2>1. UNCHANGED log /\ turn'.base = turn.base
    BY ZenonT(60), <1>6, <1>t DEF Submit, Answer, TurnOK
  <2> QED
    BY <1>k, <2>1
<1>7. CASE UNCHANGED <<log, turn>>
  BY <1>7, <1>k
<1> QED
  BY <1>1, <1>2, <1>4, <1>5, <1>6, <1>7 DEF Next, Work, Beat, PutWakes, EndIsDurable, SubmitLive, Close,
     Collect, PersistFails, Publish, ReportReads, StreamStops, LeaseExpires, BeatReads,
     Open, Replay, Receive, Crash, QuotaReached, vars

\* The event log keeps the contract of EventLog, whatever crashes, expires or is refused:
\* rows take the next numbers, a worker that has lost a number to an error writes nothing
\* any more, and only a pause that was answered lets anybody write behind an end.
THEOREM ContractFollowed == Spec => FollowsContract
<1>1. Init => Contract!Init
  BY DEF Init, Contract!Init, Resumable
<1>2. ContractInv /\ [Next]_vars => [Contract!Next]_<<log, Resumable>>
  BY ContractStep
<1> QED
  BY <1>1, <1>2, ContractInvariant, PTL DEF Spec, FollowsContract, Contract!Spec
=============================================================================
