------------------------------ MODULE EventLog ------------------------------
(***************************************************************************)
(* What the durable event log of one DeepSpace request promises to every   *)
(* reader that pages through it by sequence number: numbers without holes, *)
(* rows that never change, and no progress behind an end unless a pause    *)
(* was resumed.                                                            *)
(***************************************************************************)
EXTENDS Integers

CONSTANTS Frames, Ends, Pauses      \* kinds of frames; Pauses \subseteq Ends \subseteq Frames

VARIABLES log,          \* the rows: [seq, kind, by]
          resumable     \* TRUE: a resumed turn may write behind the pause

Latest(rows) == IF rows = {} THEN 0 ELSE CHOOSE n \in {e.seq : e \in rows} :
                                             \A e \in rows : e.seq <= n

Final(rows) == {e \in rows : e.seq = Latest(rows)}

\* The rows take the next numbers, one each.
Continues(new) == /\ {e.seq : e \in new} = (Latest(log) + 1)..Latest(log \cup new)
                  /\ \A e, d \in new : e.seq = d.seq => e = d

Init == log = {} /\ resumable = TRUE

\* One transaction of the worker: some frames, of which only the last one may
\* end the stream.
Progress(new) ==
    /\ resumable
    /\ new # {}
    /\ Continues(new)
    /\ \A e \in new : e.kind \in Ends => e \in Final(new)
    /\ log' = log \cup new
    /\ resumable' = (Final(new) \cap [seq : Int, kind : Ends, by : Int] = {})

\* Whoever finds the worker gone reports an error behind whatever is there.
Report(new) ==
    /\ \E row \in new : new = {row}
    /\ Continues(new)
    /\ \A e \in new : e.kind \in Ends \ Pauses
    /\ log' = log \cup new
    /\ resumable' = FALSE

\* Every pause is resumed at most once.
Resume == /\ \E e \in log : e.kind \in Pauses /\ \A d \in log : d.by <= e.by
          /\ resumable' = TRUE
          /\ UNCHANGED log

Next == \/ LET new == log' \ log IN Progress(new) \/ Report(new)
        \/ Resume

Spec == Init /\ [][Next]_<<log, resumable>>
=============================================================================
