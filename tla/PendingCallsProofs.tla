-------------------------- MODULE PendingCallsProofs --------------------------
(***************************************************************************)
(* For every set of calls, whatever transactions they share: a caller is   *)
(* only ever given the answer to its own call, no answer is lost on the    *)
(* way to a caller that waits, only the entries of /select and /status     *)
(* calls and of clients that hang up stay in the map, and the calls        *)
(* implement CallPromise.                                                  *)
(*                                                                         *)
(* The argument: the message id makes keys unique, so that a key leads to  *)
(* the sender of its own call or to none (OwnKeys); hence a webhook holds, *)
(* and a channel carries, only answers to their own calls.                 *)
(***************************************************************************)
EXTENDS PendingCalls, TLAPS

\* What is under a key, in the hands of a webhook or in a channel belongs to the
\* call of the key, and nothing is there before the call is made.
OwnKeys ==
    /\ \A c \in Call : pending[KeyOf(c)] \in {c, NoCall} /\ chan[c] \in {c, NoCall}
    /\ \A w \in sending : w.to = w.of
    /\ orphan = {}
    /\ \A c \in Call : pc[c] = "idle" =>
         pending[KeyOf(c)] = NoCall /\ chan[c] = NoCall /\ \A w \in sending : w.to # c

\* An answer, wherever it is, was given by the BPP to a request it got.
Answered ==
    /\ \A c \in adapter : pc[c] # "idle"
    /\ answered \subseteq adapter /\ net \subseteq answered
    /\ \A w \in sending : w.of \in answered
    /\ \A c \in Call : chan[c] # NoCall => c \in answered

Inv == TypeOK /\ OwnKeys /\ Answered /\ OwnAnswerOnly /\ SenderAccounted /\ OnlyTheseLeak

\* The keys of two calls differ, and no bare transaction id is a key.
LEMMA KeysDiffer ==
    ASSUME NEW c \in Call, NEW d \in Call
    PROVE  /\ KeyOf(c) \in Key
           /\ KeyOf(c) = KeyOf(d) => c = d
           /\ TxnOf[c] # KeyOf(d)
    BY PendingCallsAssumption DEF KeyOf, Key

\* Removing a key empties it, and no other.
LEMMA WithoutIs ==
    ASSUME pending \in [Key -> Call \cup {NoCall}], NEW k
    PROVE  /\ Without(k) \in [Key -> Call \cup {NoCall}]
           /\ \A x \in Key : Without(k)[x] = IF x = k THEN NoCall ELSE pending[x]
    BY DEF Without

\* The invariant holds before the first call.
LEMMA InvInit == Init => Inv
    BY KeysDiffer DEF Init, Inv, TypeOK, OwnKeys, Answered, OwnAnswerOnly, SenderAccounted,
       OnlyTheseLeak, LeakedEntries

\* Every step keeps the invariant.
LEMMA InvStep == Inv /\ [Next]_vars => Inv'
<1> SUFFICES ASSUME Inv, [Next]_vars PROVE Inv'
    OBVIOUS
<1> USE KeysDiffer, PendingCallsAssumption DEF Inv
<1>1. ASSUME NEW c \in Call, Register(c) PROVE Inv'
    BY <1>1 DEF Register, TypeOK, OwnKeys, Answered, OwnAnswerOnly, SenderAccounted,
       OnlyTheseLeak, LeakedEntries, netVars
<1>2. ASSUME NEW c \in Call, PostArrives(c) PROVE Inv'
    BY <1>2 DEF PostArrives, TypeOK, OwnKeys, Answered, OwnAnswerOnly, SenderAccounted,
       OnlyTheseLeak, LeakedEntries, callerVars, mapVars
<1>3. ASSUME NEW c \in Call, PostReturns(c) PROVE Inv'
    BY <1>3 DEF PostReturns, TypeOK, OwnKeys, Answered, OwnAnswerOnly, SenderAccounted,
       OnlyTheseLeak, LeakedEntries, mapVars, netVars
<1>4. ASSUME NEW c \in Call, PostFails(c) PROVE Inv'
    BY <1>4, WithoutIs DEF PostFails, End, KeyRemoved, TypeOK, OwnKeys, Answered,
       OwnAnswerOnly, SenderAccounted, OnlyTheseLeak, LeakedEntries, netVars
<1>5. ASSUME NEW c \in Call, TakeReply(c) PROVE Inv'
    BY <1>5 DEF TakeReply, Ready, End, TypeOK, OwnKeys, Answered, OwnAnswerOnly,
       SenderAccounted, OnlyTheseLeak, LeakedEntries, mapVars, netVars
<1>6. ASSUME NEW c \in Call, Elapse(c) PROVE Inv'
    BY <1>6 DEF Elapse, Ready, TypeOK, OwnKeys, Answered, OwnAnswerOnly, SenderAccounted,
       OnlyTheseLeak, LeakedEntries, mapVars, netVars
<1>7. ASSUME NEW c \in Call, GiveUp(c) PROVE Inv'
    BY <1>7, WithoutIs DEF GiveUp, End, KeyRemoved, TypeOK, OwnKeys, Answered,
       OwnAnswerOnly, SenderAccounted, OnlyTheseLeak, LeakedEntries, netVars
<1>8. ASSUME NEW c \in Call, HangUp(c) PROVE Inv'
    BY <1>8 DEF HangUp, End, TypeOK, OwnKeys, Answered, OwnAnswerOnly, SenderAccounted,
       OnlyTheseLeak, LeakedEntries, mapVars, netVars
<1>9. ASSUME NEW c \in Call, BppAnswers(c) PROVE Inv'
    BY <1>9 DEF BppAnswers, TypeOK, OwnKeys, Answered, OwnAnswerOnly, SenderAccounted,
       OnlyTheseLeak, LeakedEntries, callerVars, mapVars
<1>10. ASSUME NEW m \in net, Webhook(m) PROVE Inv'
    <2>1. m \in Call /\ m \in answered
        BY DEF TypeOK, Answered
    <2>2. /\ pending' \in [Key -> Call \cup {NoCall}]
          /\ \A c \in Call : pending'[KeyOf(c)] = IF c = m THEN NoCall ELSE pending[KeyOf(c)]
        BY <1>10, <2>1, WithoutIs DEF Webhook, TypeOK
    <2>3. sending' = sending \cup (IF pending[KeyOf(m)] = NoCall THEN {} ELSE {[to |-> m, of |-> m]})
        BY <1>10, <2>1 DEF Webhook, OwnKeys
    <2>4. UNCHANGED <<pc, outcome, payload, chan, orphan, adapter, answered>>
        BY <1>10 DEF Webhook, callerVars
    <2>5. net' \subseteq net /\ dups' \in Nat
        BY <1>10 DEF Webhook, TypeOK
    <2>6. TypeOK'
        BY <2>1, <2>2, <2>3, <2>4, <2>5 DEF TypeOK
    <2>7. OwnKeys'
        BY <2>1, <2>2, <2>3, <2>4 DEF OwnKeys, TypeOK, Answered
    <2>8. Answered'
        BY <2>1, <2>3, <2>4, <2>5 DEF Answered
    <2>9. OwnAnswerOnly' /\ OnlyTheseLeak'
        BY <2>1, <2>2, <2>4 DEF OwnAnswerOnly, OnlyTheseLeak, LeakedEntries
    <2>10. SenderAccounted'
        <3> SUFFICES ASSUME NEW c \in Call, pc[c] \in {"posting", "waiting"}
                     PROVE  \/ /\ pending'[KeyOf(c)] = c /\ chan[c] = NoCall
                               /\ \A w \in sending' : w.to # c
                            \/ /\ pending'[KeyOf(c)] = NoCall
                               /\ chan[c] = NoCall <=> \E w \in sending' : w.to = c
            BY <2>4 DEF SenderAccounted
        <3>1. (\E w \in sending' : w.to = c) <=>
                \/ \E w \in sending : w.to = c
                \/ c = m /\ pending[KeyOf(m)] # NoCall
            <4>1. CASE pending[KeyOf(m)] = NoCall
                BY <2>3, <4>1
            <4>2. CASE pending[KeyOf(m)] # NoCall
                <5>1. sending' = sending \cup {[to |-> m, of |-> m]}
                    BY <2>3, <4>2
                <5>2. \A w \in sending' : w \in sending \/ w.to = m
                    BY <5>1
                <5>3. [to |-> m, of |-> m] \in sending' /\ [to |-> m, of |-> m].to = m
                    BY <5>1
                <5>4. sending \subseteq sending'
                    BY <5>1
                <5> QED
                    BY <5>2, <5>3, <5>4, <4>2
            <4> QED
                BY <4>1, <4>2
        <3>2. CASE c = m
            BY <2>1, <2>2, <3>1, <3>2 DEF SenderAccounted, OwnKeys
        <3>3. CASE c # m
            BY <2>2, <3>1, <3>3 DEF SenderAccounted
        <3> QED
            BY <3>2, <3>3
    <2> QED
        BY <2>6, <2>7, <2>8, <2>9, <2>10
<1>11. ASSUME NEW w \in sending, Deliver(w) PROVE Inv'
    BY <1>11 DEF Deliver, TypeOK, OwnKeys, Answered, OwnAnswerOnly, SenderAccounted,
       OnlyTheseLeak, LeakedEntries, callerVars, netVars
<1>12. CASE UNCHANGED vars
    BY <1>12 DEF vars, callerVars, mapVars, netVars, TypeOK, OwnKeys, Answered,
       OwnAnswerOnly, SenderAccounted, OnlyTheseLeak, LeakedEntries
<1> QED
    BY <1>1, <1>2, <1>3, <1>4, <1>5, <1>6, <1>7, <1>8, <1>9, <1>10, <1>11, <1>12
    DEF Next, CallerStep

\* The invariant holds in every state of every behaviour.
THEOREM InvAlways == Spec => []Inv
    BY InvInit, InvStep, PTL DEF Spec

-----------------------------------------------------------------------------
\* Every variable stays within its type.
THEOREM TypeCorrect == Spec => []TypeOK
    BY InvAlways, PTL DEF Inv

\* A caller is only ever given the answer to its own call, and never the 500 of a
\* sender that was dropped unused.
THEOREM OnlyOwnAnswers == Spec => []OwnAnswerOnly
    BY InvAlways, PTL DEF Inv

\* The answer to a caller that waits is always in exactly one place.
THEOREM NoAnswerLost == Spec => []SenderAccounted
    BY InvAlways, PTL DEF Inv

\* Nothing but failed /select and /status calls, and calls whose client hung up,
\* is left behind in the map.
THEOREM LeaksBounded == Spec => []OnlyTheseLeak
    BY InvAlways, PTL DEF Inv

-----------------------------------------------------------------------------
\* The map and the channels are empty of promises before the first call.
LEMMA PromiseInit == Init => Promise!Init
    BY DEF Init, Promise!Init, Result

\* Every step is a step of the promise, or none.
LEMMA PromiseStep == Inv /\ [Next]_vars => [Promise!Next]_(Promise!vars)
<1> SUFFICES ASSUME Inv, [Next]_vars PROVE [Promise!Next]_(Promise!vars)
    OBVIOUS
<1> USE PendingCallsAssumption DEF Inv
<1>1. ASSUME NEW c \in Call, Register(c) PROVE Promise!Begin(c)
    BY <1>1 DEF Register, netVars, Promise!Begin, Promise!Become, Result, TypeOK
<1>2. ASSUME NEW c \in Call, PostArrives(c) \/ PostReturns(c) \/ Elapse(c)
      PROVE UNCHANGED Promise!vars
    BY <1>2 DEF PostArrives, PostReturns, Elapse, callerVars, netVars, Promise!vars, Result,
       TypeOK
<1>3. ASSUME NEW c \in Call, PostFails(c) \/ GiveUp(c) \/ HangUp(c) PROVE Promise!Fail(c)
    <2>1. /\ pc[c] \notin {"idle", "ended"} /\ answered' = answered
          /\ pc' = [pc EXCEPT ![c] = "ended"]
          /\ \E how \in {"bad_gateway", "timeout", "gone"} : outcome' = [outcome EXCEPT ![c] = how]
        BY <1>3 DEF PostFails, GiveUp, HangUp, End, netVars
    <2>2. \A d \in Call : Result(d)' = IF d = c THEN "failed" ELSE Result(d)
        BY <2>1 DEF Result, TypeOK
    <2>3. Result(c) = "waiting"
        BY <2>1 DEF Result
    <2> QED
        BY <2>1, <2>2, <2>3 DEF Promise!Fail, Promise!Become
<1>4. ASSUME NEW c \in Call, TakeReply(c) PROVE Promise!Reply(c)
    BY <1>4 DEF TakeReply, Ready, End, netVars, Promise!Reply, Promise!Become, Result, TypeOK,
       Answered, OwnKeys
<1>5. ASSUME NEW c \in Call, BppAnswers(c) PROVE Promise!Answer(c)
    BY <1>5 DEF BppAnswers, callerVars, Promise!Answer, Result, TypeOK, Answered
<1>6. ASSUME NEW m \in net, Webhook(m) PROVE UNCHANGED Promise!vars
    BY <1>6 DEF Webhook, callerVars, Promise!vars, Result
<1>7. ASSUME NEW w \in sending, Deliver(w) PROVE UNCHANGED Promise!vars
    BY <1>7 DEF Deliver, callerVars, netVars, Promise!vars, Result
<1>8. CASE UNCHANGED vars
    BY <1>8 DEF vars, callerVars, netVars, Promise!vars, Result
<1> QED
    BY <1>1, <1>2, <1>3, <1>4, <1>5, <1>6, <1>7, <1>8 DEF Next, CallerStep, Promise!Next

\* The calls implement the promise: each is begun once, ends at most once, and
\* with a reply only when the BPP has answered it.
THEOREM CallsKeepPromise == Spec => KeepsPromise
    BY InvAlways, PromiseInit, PromiseStep, PTL DEF Spec, KeepsPromise, Promise!Spec
=============================================================================
