---------------------------- MODULE SearchCache ----------------------------
(***************************************************************************)
(* The first version of the search (services/search.rs: handle_search and  *)
(* handle_on_search), with everything it keeps in Redis under a time to    *)
(* live.                                                                   *)
(*                                                                         *)
(* A search returns what is cached for its query, and has the BPPs asked   *)
(* anew unless that was done a short while ago. Their answers come later,  *)
(* to the webhook: the transaction leads back to the query, under which    *)
(* the answer is cached for the searches to come. Searches and answers     *)
(* overlap at every await.                                                 *)
(***************************************************************************)
EXTENDS Naturals, FiniteSets

CONSTANTS
    Search,       \* calls of the search, each with a transaction id of its own
    Query, Bpp,
    TxnTtl,       \* life of the mapping of a transaction to its query
    ThrottleTtl,  \* life of the mark that a query was called
    ResultTtl,    \* life of a cached answer
    MaxTime,      \* bound: the clock
    MaxAnswers,   \* bound: answers of the BPPs
    MaxTroubles   \* bound: failing calls and restarts

ASSUME SearchCacheAssumption ==
    {TxnTtl, ThrottleTtl, ResultTtl, MaxTime, MaxAnswers, MaxTroubles} \subseteq Nat

VARIABLES
    now,       \* the clock
    query,     \* the query of each search: a hash of its message
    pc,        \* where each search stands
    found,     \* the cached answers it returns
    txnKey,    \* txn_to_query: when the key of each search's transaction expires
    lastCall,  \* last_call: when the key of each query expires
    result,    \* search: the answers cached, and when they expire
    asked,     \* searches whose call reached the BPPs
    storing,   \* answers led back to a query, and about to be cached
    answers, troubles,  \* (bounds)
    \* History variables: no action reads them.
    mappedAt,  \* when a search stored its mapping
    calledAt,  \* when it marked its query as called
    raced,     \* searches that were past the check when another one set the mark
    dropped,   \* searches an answer to which was dropped
    unlucky    \* searches that met a trouble

redisVars == <<txnKey, lastCall, result>>
ghostVars == <<mappedAt, calledAt, raced, dropped, unlucky>>

vars == <<now, query, pc, found, redisVars, asked, storing, answers, troubles, ghostVars>>

\* An answer of a BPP to a search, and the query it is cached under.
Answer == [txn : Search, bpp : Bpp, query : Query]

Never == MaxTime + 1

TypeOK ==
    /\ now \in 0..MaxTime
    /\ query \in [Search -> Query]
    /\ pc \in [Search -> {"new", "scanned", "mapped", "call", "done"}]
    /\ found \in [Search -> SUBSET (Search \X Bpp)]
    /\ txnKey \in [Search -> 0..(now + TxnTtl)]
    /\ lastCall \in [Query -> 0..(now + ThrottleTtl)]
    /\ result \in [Query \X Bpp -> SUBSET [txn : Search, expires : 0..(now + ResultTtl)]]
    /\ \A x \in Query \X Bpp : Cardinality(result[x]) <= 1
    /\ asked \subseteq {s \in Search : pc[s] = "done"}
    /\ storing \subseteq Answer
    /\ answers \in Nat /\ troubles \in Nat
    /\ mappedAt \in [Search -> 0..Never] /\ calledAt \in [Search -> 0..Never]
    /\ raced \subseteq Search /\ dropped \subseteq asked /\ unlucky \subseteq Search

Init ==
    /\ now = 0
    /\ query \in [Search -> Query]
    /\ pc = [s \in Search |-> "new"] /\ found = [s \in Search |-> {}]
    /\ txnKey = [s \in Search |-> 0] /\ lastCall = [q \in Query |-> 0]
    /\ result = [x \in Query \X Bpp |-> {}]
    /\ asked = {} /\ storing = {} /\ answers = 0 /\ troubles = 0
    /\ mappedAt = [s \in Search |-> Never] /\ calledAt = [s \in Search |-> Never]
    /\ raced = {} /\ dropped = {} /\ unlucky = {}

-----------------------------------------------------------------------------
Goto(s, to) == pc' = [pc EXCEPT ![s] = to]

Trouble(S) ==
    /\ troubles < MaxTroubles /\ troubles' = troubles + 1
    /\ unlucky' = unlucky \cup S

\* No trouble.
Smooth == UNCHANGED <<troubles, unlucky>>

\* A key is gone when its time has come.
Alive(expires) == now < expires

\* Mutant: the key of a cached answer is made without the query.
ResultKeyOfBpp(q, b) == <<CHOOSE x \in Query : TRUE, b>>

\* search:{query_hash}:{bpp_id}
ResultKey(q, b) == <<q, b>>

\* What is cached under the keys search:{q}:*.
Cached(q) ==
    {x \in Search \X Bpp :
        \E y \in result[ResultKey(q, x[2])] : y.txn = x[1] /\ Alive(y.expires)}

Tick ==
    /\ now < MaxTime /\ now' = now + 1
    /\ UNCHANGED <<query, pc, found, redisVars, asked, storing, answers, troubles, ghostVars>>

-----------------------------------------------------------------------------
(* A search.                                                               *)

\* The keys of the query are scanned, and read; SCAN may name a key twice, and its
\* answer is then returned twice, which a set does not tell.
Scan(s) ==
    /\ pc[s] = "new" /\ Goto(s, "scanned")
    /\ found' = [found EXCEPT ![s] = Cached(query[s])]
    /\ Smooth
    /\ UNCHANGED <<now, query, redisVars, asked, storing, answers, mappedAt, calledAt,
                   raced, dropped>>

\* Without a connection the search goes on with nothing; a failing scan ends it.
ScanFails(s) ==
    /\ pc[s] = "new" /\ Trouble({s})
    /\ \E to \in {"scanned", "done"} : Goto(s, to)
    /\ UNCHANGED <<now, query, found, redisVars, asked, storing, answers, mappedAt, calledAt,
                   raced, dropped>>

\* Mutant: the mapping is stored with the time to live of the throttle.
MapTxnBriefly(s) ==
    /\ pc[s] = "scanned" /\ Goto(s, "mapped")
    /\ mappedAt' = [mappedAt EXCEPT ![s] = now]
    /\ txnKey' = [txnKey EXCEPT ![s] = now + ThrottleTtl]
    /\ Smooth
    /\ UNCHANGED <<now, query, found, lastCall, result, asked, storing, answers, calledAt,
                   raced, dropped>>

\* The transaction is mapped to the query before the call.
MapTxn(s) ==
    /\ pc[s] = "scanned" /\ Goto(s, "mapped")
    /\ mappedAt' = [mappedAt EXCEPT ![s] = now]
    /\ txnKey' = [txnKey EXCEPT ![s] = now + TxnTtl]
    /\ Smooth
    /\ UNCHANGED <<now, query, found, lastCall, result, asked, storing, answers, calledAt,
                   raced, dropped>>

\* A failing write is logged.
MapTxnFails(s) ==
    /\ pc[s] = "scanned" /\ Goto(s, "mapped")
    /\ Trouble({s})
    /\ UNCHANGED <<now, query, found, redisVars, asked, storing, answers, mappedAt, calledAt,
                   raced, dropped>>

\* Mutant: a query is throttled only when there is something to return.
CheckThrottleFound(s) ==
    /\ pc[s] = "mapped"
    /\ Goto(s, IF Alive(lastCall[query[s]]) /\ found[s] # {} THEN "done" ELSE "call")
    /\ Smooth
    /\ UNCHANGED <<now, query, found, redisVars, asked, storing, answers, mappedAt, calledAt,
                   raced, dropped>>

\* A query that was called a short while ago is not called again.
CheckThrottle(s) ==
    /\ pc[s] = "mapped"
    /\ Goto(s, IF Alive(lastCall[query[s]]) THEN "done" ELSE "call")
    /\ Smooth
    /\ UNCHANGED <<now, query, found, redisVars, asked, storing, answers, mappedAt, calledAt,
                   raced, dropped>>

\* Without an answer from Redis the query is called.
CheckThrottleFails(s) ==
    /\ pc[s] = "mapped" /\ Goto(s, "call")
    /\ Trouble({s})
    /\ UNCHANGED <<now, query, found, redisVars, asked, storing, answers, mappedAt, calledAt,
                   raced, dropped>>

\* The search is over: the call runs by itself.
Leave(s) ==
    /\ pc[s] = "call" /\ Goto(s, "done")
    /\ calledAt' = [calledAt EXCEPT ![s] = now]
    /\ raced' = raced \cup {t \in Search \ {s} : pc[t] = "call" /\ query[t] = query[s]}
    /\ UNCHANGED <<now, query, found, txnKey, result, storing, answers, mappedAt, dropped>>

SetThrottle(q) == lastCall' = [lastCall EXCEPT ![q] = now + ThrottleTtl]

Call(s) ==
    /\ Leave(s) /\ SetThrottle(query[s])
    /\ asked' = asked \cup {s}
    /\ Smooth

\* The mark is not set, or the call does not get through.
CallFails(s) ==
    /\ Leave(s) /\ Trouble({s})
    /\ \/ asked' = asked \cup {s} /\ UNCHANGED lastCall
       \/ SetThrottle(query[s]) /\ UNCHANGED asked

SearchStep(s) ==
    \/ Scan(s) \/ MapTxn(s) \/ CheckThrottle(s) \/ Call(s)
    \/ ScanFails(s) \/ MapTxnFails(s) \/ CheckThrottleFails(s) \/ CallFails(s)

-----------------------------------------------------------------------------
(* An answer. An answer without a BPP, and one to a transaction that is     *)
(* not known, change nothing.                                               *)

\* A BPP answers a call, at any time and perhaps again; the answer is dropped if
\* its transaction leads to no query any more.
OnSearch(s, b) ==
    /\ s \in asked
    /\ answers < MaxAnswers /\ answers' = answers + 1
    /\ storing' = storing \cup
           {a \in {[txn |-> s, bpp |-> b, query |-> query[s]]} : Alive(txnKey[s])}
    /\ dropped' = IF Alive(txnKey[s]) THEN dropped ELSE dropped \cup {s}
    /\ Smooth
    /\ UNCHANGED <<now, query, pc, found, redisVars, asked, mappedAt, calledAt, raced>>

\* Mutant: an answer is cached without a time to live.
StoreResultForever(a) ==
    /\ a \in storing /\ storing' = storing \ {a}
    /\ result' = [result EXCEPT ![ResultKey(a.query, a.bpp)] =
                      {[txn |-> a.txn, expires |-> MaxTime + ResultTtl + 1]}]
    /\ Smooth
    /\ UNCHANGED <<now, query, pc, found, txnKey, lastCall, asked, answers, mappedAt, calledAt,
                   raced, dropped>>

\* The answer takes the place of the one before.
StoreResult(a) ==
    /\ a \in storing /\ storing' = storing \ {a}
    /\ result' = [result EXCEPT ![ResultKey(a.query, a.bpp)] =
                      {[txn |-> a.txn, expires |-> now + ResultTtl]}]
    /\ Smooth
    /\ UNCHANGED <<now, query, pc, found, txnKey, lastCall, asked, answers, mappedAt, calledAt,
                   raced, dropped>>

\* Redis fails on either of the two commands.
AnswerFails(s) ==
    /\ \/ \E a \in storing : a.txn = s /\ storing' = storing \ {a} /\ UNCHANGED answers
       \/ /\ s \in asked
          /\ answers < MaxAnswers /\ answers' = answers + 1
          /\ UNCHANGED storing
    /\ dropped' = dropped \cup {s}
    /\ Trouble({s})
    /\ UNCHANGED <<now, query, pc, found, redisVars, asked, mappedAt, calledAt, raced>>

\* The process restarts: Redis keeps what it has.
Restart ==
    /\ Trouble({s \in Search : pc[s] # "new"})
    /\ pc' = [s \in Search |-> IF pc[s] = "new" THEN "new" ELSE "done"]
    /\ storing' = {}
    /\ UNCHANGED <<now, query, found, redisVars, asked, answers, mappedAt, calledAt, raced,
                   dropped>>

Next ==
    \/ Tick
    \/ \E s \in Search : SearchStep(s) \/ AnswerFails(s)
    \/ \E s \in Search, b \in Bpp : OnSearch(s, b)
    \/ \E a \in Answer : StoreResult(a)
    \/ Restart

Spec == Init /\ [][Next]_vars

-----------------------------------------------------------------------------
\* A search returns answers to its own query, though they were asked for by other
\* searches: an answer is cached under the query its transaction is mapped to
\* (services/search.rs:45-96, 186-199).
ResultsOwnQuery ==
    \A s \in Search : \A x \in found[s] : query[x[1]] = query[s]

\* s marked the query as called before t did.
Before(s, t) ==
    /\ query[s] = query[t] /\ calledAt[t] # Never
    /\ calledAt[s] < calledAt[t] \/ (calledAt[s] = calledAt[t] /\ s \notin raced)

\* Two calls for one query are at least the throttle apart (config/example.yaml:
\* 81-84), unless the later one was past the check when another one set the mark,
\* or a trouble was met (services/search.rs:111-141).
ThrottledUnlessRaced ==
    \A s, t \in Search :
        s # t /\ Before(s, t) /\ t \notin raced /\ {s, t} \cap unlucky = {}
            => calledAt[s] + ThrottleTtl <= calledAt[t]

\* An answer is dropped only if it comes later than the mapping was to live: the
\* mapping is there before anyone can answer (services/search.rs:89-96, 148-153,
\* 188-218).
DroppedOnlyLate ==
    \A s \in dropped \ unlucky : mappedAt[s] + TxnTtl <= now
=============================================================================
