----------------------------- MODULE MCDeepSpace ----------------------------
(***************************************************************************)
(* DeepSpaceProperties for TLC.  Requests, workers and clients are         *)
(* interchangeable model values: Init treats them alike and no action      *)
(* names one.                                                              *)
(***************************************************************************)
EXTENDS DeepSpaceProperties, TLC

Symmetry == Permutations(Requests) \cup Permutations(Workers) \cup Permutations(Clients)

\* TLC's symmetry reduction is unsound for a liveness property.  As a
\* CONSTRAINT, FirstComesFirst keeps, of the behaviours that differ only in the
\* names of the requests, those that enqueue First first.  (No fairness
\* condition asks for an enqueueing, so none is cut short; rows are never
\* deleted.)
First == CHOOSE r \in Requests : TRUE
FirstComesFirst == (\E r \in Requests : HasRow(r)) => HasRow(First)
=============================================================================
