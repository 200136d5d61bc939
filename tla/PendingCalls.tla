---------------------------- MODULE PendingCalls ----------------------------
(***************************************************************************)
(* The synchronous API over the asynchronous network: /select, /status and *)
(* the init and confirm calls of an application.                           *)
(*                                                                         *)
(* A caller makes a oneshot channel, puts its sender into the map          *)
(* pending_searches under "transaction:message", posts the request to the  *)
(* adapter, and waits ten seconds for the receiver. The webhook of the     *)
(* answer (on_select, on_status, on_init, on_confirm) takes the sender out *)
(* of the map and sends. Callbacks come twice, late, before the post       *)
(* returns, or never; the client may hang up and its future is dropped.    *)
(***************************************************************************)
EXTENDS Naturals, FiniteSets

CONSTANTS
    Call,       \* calls; a call is named by its message id, a fresh uuid
    Kind,       \* Kind[c]: "select", "status", "init" or "confirm"
    TxnOf,      \* TxnOf[c]: the transaction of the call, which calls may share
    MaxDups,    \* bound: callbacks delivered once more
    NoCall      \* no call

ASSUME PendingCallsAssumption ==
    /\ Kind \in [Call -> {"select", "status", "init", "confirm"}]
    /\ MaxDups \in Nat
    /\ NoCall \notin Call
    /\ \A c, d \in Call : TxnOf[c] # <<TxnOf[d], d>>  \* a bare id is no key

VARIABLES
    pc,         \* where the future of each call stands
    outcome,    \* how the call ended
    payload,    \* the call whose answer the caller was given
    pending,    \* pending_searches: the call whose sender is under a key
    chan,       \* the value in the oneshot channel of a call
    orphan,     \* calls whose sender was dropped unused
    sending,    \* webhooks that took the sender of `to` for the answer to `of`
    adapter,    \* requests the adapter has got
    answered,   \* requests the BPP has answered
    net,        \* callbacks on their way, named by the call they answer
    dups        \* callbacks delivered once more                      (bound)

callerVars == <<pc, outcome, payload>>
mapVars    == <<pending, chan, orphan, sending>>
netVars    == <<adapter, answered, net, dups>>

vars == <<callerVars, mapVars, netVars>>

-----------------------------------------------------------------------------
\* Mutant: the key leaves the message id out.
KeyByTxn(c) == TxnOf[c]

\* unique_key: format!("{}:{}", transaction_id, message_id)
KeyOf(c) == <<TxnOf[c], c>>

Key == {KeyOf(c) : c \in Call}

Applying(c) == Kind[c] \in {"init", "confirm"}

\* Mutant: every caller cleans up as /select and /status do.
KeyRemovedByTxn(c) == TxnOf[c]

\* What a caller removes when it gives up: its key in job_apply.rs, and the
\* bare transaction id, which is no key of the map, in select.rs and status.rs.
KeyRemoved(c) == IF Applying(c) THEN KeyOf(c) ELSE TxnOf[c]

Without(k) == [x \in Key |-> IF x = k THEN NoCall ELSE pending[x]]

TypeOK ==
    /\ pc \in [Call -> {"idle", "posting", "waiting", "elapsed", "ended"}]
    /\ outcome \in [Call -> {"none", "reply", "bad_gateway", "timeout",
                             "recv_error", "gone"}]
    /\ payload \in [Call -> Call \cup {NoCall}]
    /\ pending \in [Key -> Call \cup {NoCall}]
    /\ chan \in [Call -> Call \cup {NoCall}]
    /\ orphan \subseteq Call
    /\ sending \subseteq [to : Call, of : Call]
    /\ adapter \subseteq Call /\ answered \subseteq Call /\ net \subseteq Call
    /\ dups \in Nat

Init ==
    /\ pc = [c \in Call |-> "idle"]
    /\ outcome = [c \in Call |-> "none"]
    /\ payload = [c \in Call |-> NoCall]
    /\ pending = [k \in Key |-> NoCall]
    /\ chan = [c \in Call |-> NoCall]
    /\ orphan = {} /\ sending = {}
    /\ adapter = {} /\ answered = {} /\ net = {} /\ dups = 0

-----------------------------------------------------------------------------
(* The caller *)

End(c, from, how, what) ==
    /\ pc[c] = from
    /\ pc' = [pc EXCEPT ![c] = "ended"]
    /\ outcome' = [outcome EXCEPT ![c] = how]
    /\ payload' = [payload EXCEPT ![c] = what]

\* Mutant: the sender goes under the bare transaction id.
RegisterByTxn(c) ==
    /\ pc[c] = "idle"
    /\ pc' = [pc EXCEPT ![c] = "posting"]
    /\ pending' = [k \in Key \cup {TxnOf[c]} |-> IF k = TxnOf[c] THEN c ELSE pending[k]]
    /\ UNCHANGED <<outcome, payload, chan, orphan, sending, netVars>>

\* Mutant: a call that timed out is made again under its message id.
RegisterAgain(c) ==
    /\ pc[c] = "idle" \/ outcome[c] = "timeout"
    /\ pc' = [pc EXCEPT ![c] = "posting"]
    /\ pending' = [pending EXCEPT ![KeyOf(c)] = c]
    /\ orphan' = orphan \cup ({pending[KeyOf(c)]} \ {NoCall})
    /\ UNCHANGED <<outcome, payload, chan, sending, netVars>>

\* channel() and insert: a sender already under the key is dropped.
Register(c) ==
    /\ pc[c] = "idle"
    /\ pc' = [pc EXCEPT ![c] = "posting"]
    /\ pending' = [pending EXCEPT ![KeyOf(c)] = c]
    /\ orphan' = orphan \cup ({pending[KeyOf(c)]} \ {NoCall})
    /\ UNCHANGED <<outcome, payload, chan, sending, netVars>>

\* The request reaches the adapter; post_json has yet to return.
PostArrives(c) ==
    /\ pc[c] = "posting" /\ c \notin adapter
    /\ adapter' = adapter \cup {c}
    /\ UNCHANGED <<callerVars, mapVars, answered, net, dups>>

\* post_json returns Ok: the caller waits on its receiver.
PostReturns(c) ==
    /\ pc[c] = "posting" /\ c \in adapter
    /\ pc' = [pc EXCEPT ![c] = "waiting"]
    /\ UNCHANGED <<outcome, payload, mapVars, netVars>>

\* post_json returns Err, perhaps after the adapter has got the request.
PostFails(c) ==
    /\ End(c, "posting", "bad_gateway", NoCall)
    /\ pending' = Without(KeyRemoved(c))
    /\ UNCHANGED <<chan, orphan, sending, netVars>>

\* timeout(10 s, rx) finds the receiver ready: it has a value, Ok(Ok(payload)),
\* or its sender was dropped without one, Ok(Err(_)).
Ready(c) == ~(chan[c] = NoCall /\ c \notin orphan)

TakeReply(c) ==
    /\ Ready(c)
    /\ End(c, "waiting", IF chan[c] = NoCall THEN "recv_error" ELSE "reply", chan[c])
    /\ UNCHANGED <<mapVars, netVars>>

\* Mutant: rx.await without the timer.
ElapseNever(c) ==
    /\ pc[c] = "waiting" /\ Ready(c)
    /\ pc' = [pc EXCEPT ![c] = "elapsed"]
    /\ UNCHANGED <<outcome, payload, mapVars, netVars>>

\* timeout polls the receiver, finds nothing, and the ten seconds are over. A
\* value that a webhook sends from here on is lost.
Elapse(c) ==
    /\ pc[c] = "waiting" /\ ~Ready(c)
    /\ pc' = [pc EXCEPT ![c] = "elapsed"]
    /\ UNCHANGED <<outcome, payload, mapVars, netVars>>

GiveUp(c) ==
    /\ End(c, "elapsed", "timeout", NoCall)
    /\ pending' = Without(KeyRemoved(c))
    /\ UNCHANGED <<chan, orphan, sending, netVars>>

\* The client hangs up: axum drops the future at its await, and nothing takes
\* the entry out of the map.
HangUp(c) ==
    /\ \E at \in {"posting", "waiting"} : End(c, at, "gone", NoCall)
    /\ UNCHANGED <<mapVars, netVars>>

-----------------------------------------------------------------------------
(* The BPP and the webhooks *)

\* The BPP answers a request the adapter has got.                   (external)
BppAnswers(c) ==
    /\ c \in adapter \ answered
    /\ answered' = answered \cup {c}
    /\ net' = net \cup {c}
    /\ UNCHANGED <<callerVars, mapVars, adapter, dups>>

\* handle_on_*: pending_searches.remove(unique_key); a callback nobody waits
\* for is acknowledged and dropped. The network may deliver a callback again.
Webhook(m) ==
    /\ m \in net
    /\ \/ net' = net \ {m} /\ dups' = dups
       \/ net' = net /\ dups < MaxDups /\ dups' = dups + 1
    /\ sending' = sending \cup [to : {pending[KeyOf(m)]} \ {NoCall}, of : {m}]
    /\ pending' = Without(KeyOf(m))
    /\ UNCHANGED <<callerVars, chan, orphan, adapter, answered>>

\* Mutant: the sender goes out of scope without sending.
DeliverNothing(w) ==
    /\ sending' = sending \ {w}
    /\ orphan' = orphan \cup {w.to}
    /\ UNCHANGED <<callerVars, pending, chan, netVars>>

\* sender.send(payload): lost when the receiver is gone.
Deliver(w) ==
    /\ sending' = sending \ {w}
    /\ chan' = IF pc[w.to] = "ended" THEN chan ELSE [chan EXCEPT ![w.to] = w.of]
    /\ UNCHANGED <<callerVars, pending, orphan, netVars>>

-----------------------------------------------------------------------------
CallerStep(c) ==
    \/ Register(c) \/ PostArrives(c) \/ PostReturns(c) \/ PostFails(c)
    \/ TakeReply(c) \/ Elapse(c) \/ GiveUp(c) \/ HangUp(c)

Next ==
    \/ \E c \in Call : CallerStep(c) \/ BppAnswers(c)
    \/ \E m \in net : Webhook(m)
    \/ \E w \in sending : Deliver(w)

Spec == Init /\ [][Next]_vars

\* tokio's timer fires and the future it wakes is polled. Nothing is assumed of
\* the post (its HTTP client has no timeout), the BPP or the network.
FairSpec ==
    /\ Spec
    /\ \A c \in Call : WF_vars(TakeReply(c) \/ Elapse(c)) /\ WF_vars(GiveUp(c))

-----------------------------------------------------------------------------
(* Properties *)

\* A caller is never given the answer to another call, whatever calls of the
\* same transaction are under way, and its own sender is never dropped unused:
\* the 500 of "Internal error receiving" cannot happen (job_apply.rs:193-198).
OwnAnswerOnly ==
    \A c \in Call :
        /\ outcome[c] = "reply" => payload[c] = c
        /\ outcome[c] # "recv_error"

\* The entries of calls that have ended stay in the map for ever: no more of
\* them than /select and /status calls that failed, and calls whose client
\* hung up. An application that fails or times out leaves none.
LeakedEntries == {c \in Call : pc[c] = "ended" /\ pending[KeyOf(c)] = c}

OnlyTheseLeak ==
    \A c \in LeakedEntries : outcome[c] = "gone" \/ (~Applying(c) /\ outcome[c] # "reply")

\* An answer whose sender was taken while the caller waits is not lost to a
\* second callback or to the clean-up of another call: the sender is in the
\* map, in the hands of one webhook, or its value is in the channel.
SenderAccounted ==
    \A c \in Call : pc[c] \in {"posting", "waiting"} =>
        \/ pending[KeyOf(c)] = c /\ chan[c] = NoCall /\ \A w \in sending : w.to # c
        \/ pending[KeyOf(c)] = NoCall /\
             (chan[c] = NoCall <=> \E w \in sending : w.to = c)

\* A call whose post was accepted ends, by its answer or by the timer.
WaitingEnds ==
    \A c \in Call : (pc[c] = "waiting") ~> (pc[c] = "ended")

\* The calls keep the promise the code above them relies on.
Result(c) ==
    CASE pc[c] = "idle" -> "none"
      [] pc[c] = "ended" -> IF outcome[c] = "reply" THEN "reply" ELSE "failed"
      [] OTHER -> "waiting"

Promise == INSTANCE CallPromise WITH result <- [c \in Call |-> Result(c)]

KeepsPromise == Promise!Spec
=============================================================================
