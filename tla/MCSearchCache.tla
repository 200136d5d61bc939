--------------------------- MODULE MCSearchCache ---------------------------
(***************************************************************************)
(* Searches are alike, and so are queries and BPPs.                        *)
(***************************************************************************)
EXTENDS SearchCache, TLC

AllAlike == Permutations(Search) \cup Permutations(Query) \cup Permutations(Bpp)
=============================================================================
