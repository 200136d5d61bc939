--------------------------- MODULE MCPendingCalls ---------------------------
(***************************************************************************)
(* Three calls, two of them of one transaction: a confirm and a select     *)
(* share a transaction, another select has its own.                        *)
(***************************************************************************)
EXTENDS PendingCalls

CONSTANTS c1, c2, c3, t1, t2

Kinds == [c \in Call |-> IF c = c1 THEN "confirm" ELSE "select"]
Txns  == [c \in Call |-> IF c = c3 THEN t2 ELSE t1]
=============================================================================
