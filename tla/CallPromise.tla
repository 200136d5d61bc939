---------------------------- MODULE CallPromise ----------------------------
(***************************************************************************)
(* What a request to the Beckn network promises to the code that makes it: *)
(* it is begun once, it ends at most once, and it ends with a reply only   *)
(* when the BPP has answered this very call. An answer alone does not end  *)
(* it: the caller may have given up.                                       *)
(***************************************************************************)
CONSTANT Call

VARIABLES
    result,     \* "none" before the call, "waiting", then "reply" or "failed"
    answered    \* the calls the BPP has answered

vars == <<result, answered>>

TypeOK ==
    /\ result \in [Call -> {"none", "waiting", "reply", "failed"}]
    /\ answered \subseteq Call

Init ==
    /\ result = [c \in Call |-> "none"]
    /\ answered = {}

Become(c, from, to) ==
    /\ result[c] = from
    /\ result' = [result EXCEPT ![c] = to]
    /\ UNCHANGED answered

Begin(c) == Become(c, "none", "waiting")

\* The BPP answers a call that was made; the caller may have left already.
Answer(c) ==
    /\ result[c] # "none" /\ c \notin answered
    /\ answered' = answered \cup {c}
    /\ UNCHANGED result

Reply(c) == c \in answered /\ Become(c, "waiting", "reply")

Fail(c) == Become(c, "waiting", "failed")

Next == \E c \in Call : Begin(c) \/ Answer(c) \/ Reply(c) \/ Fail(c)

Spec == Init /\ [][Next]_vars
=============================================================================
