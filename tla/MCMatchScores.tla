--------------------------- MODULE MCMatchScores ---------------------------
(***************************************************************************)
(* Every job is rated alike, and was created at the same time.             *)
(***************************************************************************)
EXTENDS MatchScores

CreatedAtOnce == [j \in Job |-> 0]
RatedAlike == [x \in Pair |-> 5]
=============================================================================
