-------------------------- MODULE SearchCacheProofs --------------------------
(***************************************************************************)
(* The search cache, for any number of searches, queries and BPPs, any     *)
(* times to live and any number of troubles.                               *)
(***************************************************************************)
EXTENDS SearchCache, FiniteSetTheorems, TLAPS

\* What is about to be cached answers a search that was asked, under its query.
StoringAsked == \A a \in storing : a.txn \in asked /\ a.query = query[a.txn]

\* A key of a cached answer is made of the query of the search it answers, and holds
\* one answer.
ResultsUnderQuery ==
    \A q \in Query, b \in Bpp :
        /\ \A y \in result[ResultKey(q, b)] : query[y.txn] = q
        /\ \A y, z \in result[ResultKey(q, b)] : y = z

\* The strengthening of ThrottledUnlessRaced: a search that called is over, its mark
\* is there for as long as it is to be, and a search past the check has none before it
\* that is too recent.
Called(s) == calledAt[s] # Never

CallsMarked ==
    \A s \in Search : Called(s) =>
        /\ calledAt[s] <= now /\ pc[s] = "done"
        /\ s \notin unlucky => calledAt[s] + ThrottleTtl <= lastCall[query[s]]

CallersClear ==
    \A s, t \in Search :
        Called(s) /\ pc[t] = "call" /\ query[s] = query[t]
        /\ t \notin raced /\ {s, t} \cap unlucky = {}
            => calledAt[s] + ThrottleTtl <= now

\* The strengthening of DroppedOnlyLate: a search that is past the mapping has it.
Mapped ==
    \A s \in Search \ unlucky :
        pc[s] \in {"mapped", "call"} \/ s \in asked => txnKey[s] = mappedAt[s] + TxnTtl

\* The times and lifetimes are numbers, and Never is after them all.
LEMMA Constants ==
    /\ now \in 0..MaxTime => now \in Nat /\ now # Never /\ now < Never
    /\ TxnTtl \in Nat /\ ThrottleTtl \in Nat /\ ResultTtl \in Nat /\ MaxTime \in Nat
    /\ Never \in Nat
  BY SearchCacheAssumption DEF Never

-----------------------------------------------------------------------------
\* A step of one search, as far as the type invariant goes.
LEMMA SearchStepTyped ==
    ASSUME TypeOK, StoringAsked, NEW s \in Search, SearchStep(s)
    PROVE  TypeOK' /\ StoringAsked'
<1> USE DEF Goto, Trouble, Smooth, redisVars
<1>1. CASE Scan(s)
  <2>1. Cached(query[s]) \subseteq Search \X Bpp
    BY DEF Cached
  <2> QED
    BY <1>1, <2>1 DEF Scan, TypeOK, StoringAsked
<1>2. CASE ScanFails(s)
  BY <1>2 DEF ScanFails, TypeOK, StoringAsked
<1>3. CASE MapTxn(s)
  <2>1. now \in 0..Never /\ now + TxnTtl \in 0..(now + TxnTtl)
    BY Constants DEF TypeOK
  <2>2. txnKey' \in [Search -> 0..(now' + TxnTtl)] /\ mappedAt' \in [Search -> 0..Never]
    BY <1>3, <2>1 DEF MapTxn, TypeOK
  <2> QED
    BY <1>3, <2>2 DEF MapTxn, TypeOK, StoringAsked
<1>4. CASE MapTxnFails(s)
  BY <1>4 DEF MapTxnFails, TypeOK, StoringAsked
<1>5. CASE CheckThrottle(s)
  BY <1>5 DEF CheckThrottle, TypeOK, StoringAsked
<1>6. CASE CheckThrottleFails(s)
  BY <1>6 DEF CheckThrottleFails, TypeOK, StoringAsked
<1>7. CASE Call(s) \/ CallFails(s)
  <2>1. now \in 0..Never /\ now + ThrottleTtl \in 0..(now + ThrottleTtl)
    BY Constants DEF TypeOK
  <2>2. lastCall' \in [Query -> 0..(now' + ThrottleTtl)] /\ calledAt' \in [Search -> 0..Never]
    BY <1>7, <2>1 DEF Call, CallFails, Leave, SetThrottle, TypeOK
  <2>3. /\ pc' = [pc EXCEPT ![s] = "done"] /\ asked \subseteq asked' /\ asked' \subseteq asked \cup {s}
        /\ raced' \subseteq Search /\ unlucky' \subseteq Search /\ troubles' \in Nat
        /\ UNCHANGED <<now, query, found, txnKey, result, storing, answers, mappedAt, dropped>>
    BY <1>7 DEF Call, CallFails, Leave, TypeOK
  <2> QED
    BY <2>2, <2>3 DEF TypeOK, StoringAsked
<1> QED
  BY <1>1, <1>2, <1>3, <1>4, <1>5, <1>6, <1>7 DEF SearchStep

\* Every step keeps the types, and what is stored is the answer to what was asked.
LEMMA TypeInductive ==
    TypeOK /\ StoringAsked /\ [Next]_vars => TypeOK' /\ StoringAsked'
<1> SUFFICES ASSUME TypeOK, StoringAsked, [Next]_vars PROVE TypeOK' /\ StoringAsked'
  OBVIOUS
<1>1. CASE Tick
  <2>1. /\ now' \in 0..MaxTime /\ now' = now + 1
        /\ \A e \in Nat : e <= now + TxnTtl => e <= now' + TxnTtl
        /\ \A e \in Nat : e <= now + ThrottleTtl => e <= now' + ThrottleTtl
        /\ \A e \in Nat : e <= now + ResultTtl => e <= now' + ResultTtl
    BY <1>1, Constants DEF Tick, TypeOK
  <2>2. /\ 0..(now + TxnTtl) \subseteq 0..(now' + TxnTtl)
        /\ 0..(now + ThrottleTtl) \subseteq 0..(now' + ThrottleTtl)
        /\ 0..(now + ResultTtl) \subseteq 0..(now' + ResultTtl)
    BY <2>1, Constants DEF TypeOK
  <2>3. /\ txnKey' \in [Search -> 0..(now' + TxnTtl)]
        /\ lastCall' \in [Query -> 0..(now' + ThrottleTtl)]
    BY <1>1, <2>2 DEF Tick, TypeOK, redisVars
  <2>4. [txn : Search, expires : 0..(now + ResultTtl)]
            \subseteq [txn : Search, expires : 0..(now' + ResultTtl)]
    BY <2>2
  <2>5. result' \in [Query \X Bpp -> SUBSET [txn : Search, expires : 0..(now' + ResultTtl)]]
    BY <1>1, <2>4 DEF Tick, TypeOK, redisVars
  <2> QED
    BY <1>1, <2>1, <2>3, <2>5 DEF Tick, TypeOK, StoringAsked, redisVars, ghostVars
<1>2. ASSUME NEW s \in Search, SearchStep(s) PROVE TypeOK' /\ StoringAsked'
  BY <1>2, SearchStepTyped
<1>3. ASSUME NEW s \in Search, AnswerFails(s) PROVE TypeOK' /\ StoringAsked'
  <2>1. s \in asked /\ storing' \subseteq storing /\ answers' \in Nat /\ troubles' \in Nat
    BY <1>3 DEF AnswerFails, Trouble, TypeOK, StoringAsked
  <2> QED
    BY <1>3, <2>1 DEF AnswerFails, Trouble, TypeOK, StoringAsked, redisVars
<1>4. ASSUME NEW s \in Search, NEW b \in Bpp, OnSearch(s, b) PROVE TypeOK' /\ StoringAsked'
  <2>1. /\ storing' \subseteq storing \cup {[txn |-> s, bpp |-> b, query |-> query[s]]}
        /\ dropped' \subseteq dropped \cup {s} /\ s \in asked /\ answers' \in Nat
        /\ UNCHANGED <<now, query, pc, found, redisVars, asked, mappedAt, calledAt, raced,
                       troubles, unlucky>>
    BY <1>4 DEF OnSearch, Smooth, TypeOK
  <2>2. [txn |-> s, bpp |-> b, query |-> query[s]] \in Answer
    BY DEF Answer, TypeOK
  <2>3. storing' \subseteq Answer
    BY <2>1, <2>2 DEF TypeOK
  <2> QED
    BY <2>1, <2>3 DEF TypeOK, StoringAsked, redisVars
<1>5. ASSUME NEW a \in Answer, StoreResult(a) PROVE TypeOK' /\ StoringAsked'
  <2> DEFINE new == {[txn |-> a.txn, expires |-> now + ResultTtl]}
             key == ResultKey(a.query, a.bpp)
  <2>1. /\ storing' \subseteq storing /\ result' = [result EXCEPT ![key] = new]
        /\ UNCHANGED <<now, query, pc, found, txnKey, lastCall, asked, answers, mappedAt,
                       calledAt, raced, dropped, troubles, unlucky>>
    BY <1>5 DEF StoreResult, Smooth
  <2>2. now + ResultTtl \in 0..(now + ResultTtl)
    BY Constants DEF TypeOK
  <2>3. key \in Query \X Bpp /\ new \subseteq [txn : Search, expires : 0..(now + ResultTtl)]
    BY <2>2 DEF Answer, ResultKey
  <2>4. Cardinality(new) <= 1
    <3>1. Cardinality(new) = 1
      BY FS_Singleton
    <3> QED
      BY <3>1
  <2> HIDE DEF new, key
  <2>5. result' \in [Query \X Bpp -> SUBSET [txn : Search, expires : 0..(now + ResultTtl)]]
    BY <2>1, <2>3 DEF TypeOK
  <2>6. \A x \in Query \X Bpp : Cardinality(result'[x]) <= 1
    BY <2>1, <2>3, <2>4 DEF TypeOK
  <2> QED
    BY <2>1, <2>5, <2>6 DEF TypeOK, StoringAsked
<1>6. CASE Restart
  BY <1>6 DEF Restart, Trouble, TypeOK, StoringAsked, redisVars
<1>7. CASE UNCHANGED vars
  BY <1>7 DEF vars, redisVars, ghostVars, TypeOK, StoringAsked
<1> QED
  BY <1>1, <1>2, <1>3, <1>4, <1>5, <1>6, <1>7 DEF Next

\* And they hold when the service starts.
LEMMA TypeInit == Init => TypeOK /\ StoringAsked
<1> SUFFICES ASSUME Init PROVE TypeOK /\ StoringAsked
  OBVIOUS
<1>1. 0 \in 0..MaxTime /\ Never \in 0..Never
  BY Constants
<1>2. 0 \in 0..(now + TxnTtl) /\ 0 \in 0..(now + ThrottleTtl)
  BY Constants DEF Init
<1>3. \A x \in Query \X Bpp : result[x] = {} /\ Cardinality(result[x]) <= 1
  BY FS_EmptySet DEF Init
<1>4. /\ txnKey \in [Search -> 0..(now + TxnTtl)]
      /\ lastCall \in [Query -> 0..(now + ThrottleTtl)]
      /\ mappedAt \in [Search -> 0..Never] /\ calledAt \in [Search -> 0..Never]
  BY <1>1, <1>2 DEF Init
<1> QED
  BY <1>1, <1>3, <1>4 DEF Init, TypeOK, StoringAsked

\* The type invariant: no key outlives its time to live, and a key holds one answer
\* (services/search.rs:89-96, 137-140, 199-204).
THEOREM TypeCorrect == Spec => []TypeOK
<1> QED
  BY TypeInit, TypeInductive, PTL DEF Spec

\* An answer about to be cached belongs to a search that was asked.
LEMMA AnswersKnown == Spec => []StoringAsked
<1> QED
  BY TypeInit, TypeInductive, PTL DEF Spec

-----------------------------------------------------------------------------
\* A search returns answers to its own query (services/search.rs:45-87, 186-199).
THEOREM OwnResults == Spec => []ResultsOwnQuery
<1> DEFINE IInv == ResultsOwnQuery /\ ResultsUnderQuery
<1>1. Init => IInv
  BY DEF Init, ResultsOwnQuery, ResultsUnderQuery, ResultKey
<1>2. TypeOK /\ StoringAsked /\ IInv /\ [Next]_vars => IInv'
  <2> SUFFICES ASSUME TypeOK, StoringAsked, ResultsOwnQuery, ResultsUnderQuery, [Next]_vars
               PROVE  IInv'
    OBVIOUS
  <2> USE DEF ResultsOwnQuery, ResultsUnderQuery
  <2>1. CASE UNCHANGED <<query, found, result>>
    BY <2>1 DEF ResultKey
  <2>2. ASSUME NEW s \in Search, Scan(s) PROVE IInv'
    <3>1. /\ found' = [found EXCEPT ![s] = Cached(query[s])]
          /\ UNCHANGED <<query, result>> /\ found \in [Search -> SUBSET (Search \X Bpp)]
          /\ query[s] \in Query
      BY <2>2 DEF Scan, redisVars, TypeOK
    <3>2. \A x \in Cached(query[s]) :
              /\ x = <<x[1], x[2]>> /\ x[2] \in Bpp
              /\ \E y \in result[ResultKey(query[s], x[2])] : y.txn = x[1]
      BY DEF Cached
    <3>3. \A x \in Cached(query[s]) : query[x[1]] = query[s]
      BY <3>1, <3>2
    <3>4. \A t \in Search : found'[t] = IF t = s THEN Cached(query[s]) ELSE found[t]
      BY <3>1
    <3>5. ResultsOwnQuery'
      BY <3>1, <3>3, <3>4
    <3> QED
      BY <3>1, <3>5 DEF ResultKey
  <2>3. ASSUME NEW a \in Answer, StoreResult(a) PROVE IInv'
    <3> DEFINE new == {[txn |-> a.txn, expires |-> now + ResultTtl]}
    <3>1. /\ result' = [result EXCEPT ![ResultKey(a.query, a.bpp)] = new]
          /\ UNCHANGED <<query, found>> /\ query[a.txn] = a.query
      BY <2>3 DEF StoreResult, StoringAsked
    <3>2. ASSUME NEW q \in Query, NEW b \in Bpp
          PROVE  result'[ResultKey(q, b)] =
                     IF q = a.query /\ b = a.bpp THEN new ELSE result[ResultKey(q, b)]
      BY <3>1 DEF TypeOK, ResultKey
    <3>3. (\A y \in new : query[y.txn] = a.query) /\ (\A y, z \in new : y = z)
      BY <3>1
    <3> HIDE DEF new
    <3> QED
      BY <3>1, <3>2, <3>3
  <2>4. ASSUME NEW s \in Search, SearchStep(s), ~Scan(s) PROVE UNCHANGED <<query, found, result>>
    <3>1. CASE ScanFails(s) \/ MapTxn(s) \/ MapTxnFails(s)
      BY <3>1 DEF ScanFails, MapTxn, MapTxnFails, redisVars
    <3>2. CASE CheckThrottle(s) \/ CheckThrottleFails(s)
      BY <3>2 DEF CheckThrottle, CheckThrottleFails, redisVars
    <3>3. CASE Call(s) \/ CallFails(s)
      BY <3>3 DEF Call, CallFails, Leave
    <3> QED
      BY <2>4, <3>1, <3>2, <3>3 DEF SearchStep
  <2>5. ASSUME NEW s \in Search, AnswerFails(s) PROVE UNCHANGED <<query, found, result>>
    BY <2>5 DEF AnswerFails, redisVars
  <2>6. ASSUME NEW s \in Search, NEW b \in Bpp, OnSearch(s, b)
        PROVE UNCHANGED <<query, found, result>>
    BY <2>6 DEF OnSearch, redisVars
  <2>7. Tick \/ Restart \/ UNCHANGED vars => UNCHANGED <<query, found, result>>
    BY DEF Tick, Restart, vars, redisVars
  <2> HIDE DEF IInv
  <2> QED
    BY <2>1, <2>2, <2>3, <2>4, <2>5, <2>6, <2>7 DEF Next
<1> QED
  BY <1>1, <1>2, TypeCorrect, AnswersKnown, PTL DEF Spec

-----------------------------------------------------------------------------
\* A step of one search, as far as the throttle goes.
LEMMA SearchStepThrottled ==
    ASSUME TypeOK, CallsMarked, CallersClear, ThrottledUnlessRaced,
           NEW s \in Search, SearchStep(s)
    PROVE  (CallsMarked /\ CallersClear /\ ThrottledUnlessRaced)'
<1> USE DEF Called, Before
<1>1. CASE Scan(s) \/ ScanFails(s) \/ MapTxn(s) \/ MapTxnFails(s) \/ CheckThrottleFails(s)
  <2> DEFINE Goes == \/ pc' = [pc EXCEPT ![s] = "scanned"]
                     \/ pc' = [pc EXCEPT ![s] = "mapped"]
                     \/ pc' = [pc EXCEPT ![s] = "done"]
                     \/ pc' = [pc EXCEPT ![s] = "call"] /\ s \in unlucky'
             Rest == /\ UNCHANGED <<now, query, lastCall, calledAt, raced>>
                     /\ unlucky \subseteq unlucky' /\ pc[s] # "done"
  <2>1. Goes /\ Rest
    <3> USE DEF Goto, Trouble, Smooth, redisVars
    <3>1. CASE Scan(s)
      BY <3>1 DEF Scan
    <3>2. CASE ScanFails(s)
      BY <3>2 DEF ScanFails
    <3>3. CASE MapTxn(s)
      BY <3>3 DEF MapTxn
    <3>4. CASE MapTxnFails(s)
      BY <3>4 DEF MapTxnFails
    <3>5. CASE CheckThrottleFails(s)
      BY <3>5 DEF CheckThrottleFails
    <3> QED
      BY <1>1, <3>1, <3>2, <3>3, <3>4, <3>5
  <2>2. ~Called(s)
    BY <2>1 DEF CallsMarked
  <2>3. CallsMarked'
    BY <2>1, <2>2 DEF CallsMarked, TypeOK
  <2>4. CallersClear'
    BY <2>1, <2>2 DEF CallersClear, TypeOK
  <2> QED
    BY <2>1, <2>3, <2>4 DEF ThrottledUnlessRaced
<1>2. CASE CheckThrottle(s)
  <2>1. /\ UNCHANGED <<now, query, lastCall, calledAt, raced, unlucky>> /\ pc[s] # "done"
        /\ \/ pc' = [pc EXCEPT ![s] = "done"]
           \/ pc' = [pc EXCEPT ![s] = "call"] /\ ~(now < lastCall[query[s]])
    BY <1>2 DEF CheckThrottle, Goto, Smooth, Alive, redisVars
  <2>2. ~Called(s)
    BY <2>1 DEF CallsMarked
  <2>3. CallsMarked'
    BY <2>1, <2>2 DEF CallsMarked, TypeOK
  <2>4. ASSUME NEW t \in Search, Called(t), query[t] = query[s], t \notin unlucky,
               ~(now < lastCall[query[s]])
        PROVE  calledAt[t] + ThrottleTtl <= now
    <3>1. calledAt[t] + ThrottleTtl <= lastCall[query[s]]
      BY <2>4 DEF CallsMarked
    <3>2. calledAt[t] \in Nat /\ lastCall[query[s]] \in Nat /\ now \in Nat /\ ThrottleTtl \in Nat
      BY Constants DEF TypeOK
    <3> QED
      BY <2>4, <3>1, <3>2
  <2>5. CallersClear'
    BY <2>1, <2>2, <2>4 DEF CallersClear, TypeOK
  <2> QED
    BY <2>1, <2>3, <2>5 DEF ThrottledUnlessRaced
<1>3. CASE Call(s) \/ CallFails(s)
  <2>1. /\ UNCHANGED <<now, query>> /\ pc[s] = "call"
        /\ pc' = [pc EXCEPT ![s] = "done"] /\ calledAt' = [calledAt EXCEPT ![s] = now]
        /\ raced' = raced \cup {t \in Search \ {s} : pc[t] = "call" /\ query[t] = query[s]}
        /\ unlucky \subseteq unlucky'
        /\ \/ lastCall' = [lastCall EXCEPT ![query[s]] = now + ThrottleTtl]
           \/ lastCall' = lastCall /\ s \in unlucky'
    BY <1>3 DEF Call, CallFails, Leave, SetThrottle, Goto, Trouble, Smooth
  <2>2. /\ now \in Nat /\ ThrottleTtl \in Nat /\ now # Never
        /\ \A t \in Search : calledAt[t] \in Nat /\ query[t] \in Query /\ lastCall[query[t]] \in Nat
        /\ pc \in [Search -> {"new", "scanned", "mapped", "call", "done"}]
        /\ calledAt \in [Search -> 0..Never] /\ lastCall \in [Query -> Nat]
    BY Constants DEF TypeOK
  <2>3. ~Called(s)
    BY <2>1 DEF CallsMarked
  <2>4. CallsMarked'
    <3> SUFFICES ASSUME NEW t \in Search, Called(t)'
                 PROVE  /\ calledAt'[t] <= now /\ pc'[t] = "done"
                        /\ t \notin unlucky' => calledAt'[t] + ThrottleTtl <= lastCall'[query[t]]
      BY <2>1 DEF CallsMarked
    <3>1. CASE t = s
      BY <3>1, <2>1, <2>2
    <3>2. CASE t # s
      <4>1. /\ calledAt'[t] = calledAt[t] /\ pc'[t] = pc[t] /\ Called(t)
        BY <3>2, <2>1, <2>2
      <4>2. /\ calledAt[t] <= now /\ pc[t] = "done"
            /\ t \notin unlucky => calledAt[t] + ThrottleTtl <= lastCall[query[t]]
        BY <4>1 DEF CallsMarked
      <4>3. lastCall'[query[t]] = lastCall[query[t]] \/ lastCall'[query[t]] = now + ThrottleTtl
        BY <2>1, <2>2
      <4>4. calledAt[t] + ThrottleTtl <= now + ThrottleTtl
        BY <4>2, <2>2
      <4> QED
        BY <4>1, <4>2, <4>3, <4>4, <2>1
    <3> QED
      BY <3>1, <3>2
  <2>5. CallersClear'
    <3> SUFFICES ASSUME NEW t \in Search, NEW v \in Search, Called(t)', pc'[v] = "call",
                        query[t] = query[v], v \notin raced', {t, v} \cap unlucky' = {}
                 PROVE  calledAt'[t] + ThrottleTtl <= now
      BY <2>1 DEF CallersClear
    <3>1. v # s /\ pc[v] = "call"
      BY <2>1, <2>2
    <3>2. t # s
      BY <2>1, <3>1
    <3>3. calledAt'[t] = calledAt[t] /\ Called(t)
      BY <2>1, <2>2, <3>2
    <3>4. v \notin raced /\ {t, v} \cap unlucky = {}
      BY <2>1
    <3> QED
      BY <3>1, <3>3, <3>4 DEF CallersClear
  <2>6. ThrottledUnlessRaced'
    <3> SUFFICES ASSUME NEW t \in Search, NEW v \in Search, t # v, Before(t, v)',
                        v \notin raced', {t, v} \cap unlucky' = {}
                 PROVE  calledAt'[t] + ThrottleTtl <= calledAt'[v]
      BY DEF ThrottledUnlessRaced
    <3>1. v \notin raced /\ {t, v} \cap unlucky = {} /\ (t \in raced => t \in raced')
      BY <2>1
    <3>2. CASE t # s /\ v # s
      <4>1. calledAt'[t] = calledAt[t] /\ calledAt'[v] = calledAt[v]
        BY <3>2, <2>1, <2>2
      <4>2. Before(t, v)
        BY <3>1, <4>1, <2>1
      <4> QED
        BY <3>1, <4>1, <4>2 DEF ThrottledUnlessRaced
    <3>3. CASE v = s
      <4>1. calledAt'[t] = calledAt[t] /\ calledAt'[v] = now
        BY <3>3, <2>1, <2>2
      <4>2. calledAt[t] <= now /\ query[t] = query[v]
        BY <4>1, <2>1, <2>2
      <4>3. Called(t)
        BY <4>2, Constants DEF TypeOK
      <4>4. calledAt[t] + ThrottleTtl <= now
        BY <3>1, <3>3, <4>2, <4>3, <2>1 DEF CallersClear
      <4> QED
        BY <4>1, <4>4
    <3>4. CASE t = s
      <4>1. calledAt'[v] = calledAt[v] /\ calledAt'[t] = now
        BY <3>4, <2>1, <2>2
      <4>2. Called(v) /\ query[v] = query[t] /\ now <= calledAt[v]
        BY <4>1, <2>1, <2>2
      <4>3. calledAt[v] <= now
        BY <4>2 DEF CallsMarked
      <4>4. calledAt[v] = now /\ t \notin raced
        BY <4>1, <4>2, <4>3, <3>1, <2>1, <2>2
      <4>5. calledAt[v] + ThrottleTtl <= now
        BY <3>1, <3>4, <4>2, <4>4, <2>1 DEF CallersClear
      <4> QED
        BY <4>1, <4>4, <4>5
    <3> QED
      BY <3>2, <3>3, <3>4
  <2> QED
    BY <2>4, <2>5, <2>6
<1> QED
  BY <1>1, <1>2, <1>3 DEF SearchStep

\* Two calls for one query are at least the throttle apart, unless the later one was
\* past the check when another one set the mark, or a trouble was met
\* (services/search.rs:111-141).
THEOREM Throttled == Spec => []ThrottledUnlessRaced
<1> DEFINE IInv == CallsMarked /\ CallersClear /\ ThrottledUnlessRaced
<1>1. Init => IInv
  BY DEF Init, CallsMarked, CallersClear, ThrottledUnlessRaced, Called, Before
<1>2. TypeOK /\ IInv /\ [Next]_vars => IInv'
  <2> SUFFICES ASSUME TypeOK, CallsMarked, CallersClear, ThrottledUnlessRaced, [Next]_vars
               PROVE  IInv'
    OBVIOUS
  <2> USE DEF Called, Before
  <2>1. CASE Tick
    <3>1. /\ now' = now + 1 /\ UNCHANGED <<query, pc, lastCall, calledAt, raced, unlucky>>
          /\ now \in Nat /\ \A s \in Search : calledAt[s] \in Nat
          /\ ThrottleTtl \in Nat
      BY <2>1, Constants DEF Tick, TypeOK, redisVars, ghostVars
    <3>2. CallsMarked'
      BY <3>1 DEF CallsMarked
    <3>3. CallersClear'
      BY <3>1 DEF CallersClear
    <3> QED
      BY <3>1, <3>2, <3>3 DEF ThrottledUnlessRaced
  <2>2. ASSUME NEW s \in Search, SearchStep(s) PROVE IInv'
    BY <2>2, SearchStepThrottled
  <2>3. CASE /\ UNCHANGED <<now, query, lastCall, calledAt, raced>>
             /\ unlucky \subseteq unlucky'
             /\ \A s \in Search : pc'[s] = pc[s] \/ pc'[s] = "done"
    BY <2>3 DEF CallsMarked, CallersClear, ThrottledUnlessRaced
  <2>4. ASSUME NEW s \in Search, AnswerFails(s) PROVE IInv'
    BY <2>3, <2>4 DEF AnswerFails, Trouble, redisVars
  <2>5. ASSUME NEW s \in Search, NEW b \in Bpp, OnSearch(s, b) PROVE IInv'
    BY <2>3, <2>5 DEF OnSearch, Smooth, redisVars
  <2>6. ASSUME NEW a \in Answer, StoreResult(a) PROVE IInv'
    BY <2>3, <2>6 DEF StoreResult, Smooth
  <2>7. CASE Restart
    <3>1. \A s \in Search : pc'[s] = pc[s] \/ pc'[s] = "done"
      BY <2>7 DEF Restart
    <3> QED
      BY <2>3, <2>7, <3>1 DEF Restart, Trouble, redisVars
  <2>8. CASE UNCHANGED vars
    BY <2>3, <2>8 DEF vars, redisVars, ghostVars
  <2> QED
    BY <2>1, <2>2, <2>4, <2>5, <2>6, <2>7, <2>8 DEF Next
<1> QED
  BY <1>1, <1>2, TypeCorrect, PTL DEF Spec

-----------------------------------------------------------------------------
\* An answer is dropped only if it comes later than the mapping was to live
\* (services/search.rs:89-96, 148-153, 188-218).
THEOREM DroppedLate == Spec => []DroppedOnlyLate
<1> DEFINE IInv == DroppedOnlyLate /\ Mapped
<1>1. Init => IInv
  BY DEF Init, DroppedOnlyLate, Mapped
<1>2. TypeOK /\ IInv /\ [Next]_vars => IInv'
  <2> SUFFICES ASSUME TypeOK, DroppedOnlyLate, Mapped, [Next]_vars PROVE IInv'
    OBVIOUS
  <2> USE DEF Goto, Trouble, Smooth, redisVars, DroppedOnlyLate, Mapped
  <2>1. CASE Tick
    <3>1. /\ now' = now + 1 /\ now \in Nat /\ TxnTtl \in Nat
          /\ \A s \in dropped : mappedAt[s] \in Nat
          /\ UNCHANGED <<pc, txnKey, asked, mappedAt, dropped, unlucky>>
      BY <2>1, Constants DEF Tick, TypeOK, ghostVars
    <3> QED
      BY <3>1
  <2>2. ASSUME NEW s \in Search, MapTxn(s) PROVE IInv'
    <3>1. s \notin asked /\ s \notin dropped
      BY <2>2 DEF MapTxn, TypeOK
    <3> QED
      BY <2>2, <3>1 DEF MapTxn, TypeOK
  <2>3. ASSUME NEW s \in Search,
               \/ Scan(s) \/ ScanFails(s) \/ MapTxnFails(s)
               \/ CheckThrottle(s) \/ CheckThrottleFails(s)
        PROVE  IInv'
    <3>1. /\ UNCHANGED <<now, txnKey, asked, mappedAt, dropped>> /\ unlucky \subseteq unlucky'
          /\ \E to \in {"scanned", "mapped", "call", "done"} :
                 /\ pc' = [pc EXCEPT ![s] = to]
                 /\ to \in {"mapped", "call"} => pc[s] = "mapped" \/ s \in unlucky'
      BY <2>3 DEF Scan, ScanFails, MapTxnFails, CheckThrottle, CheckThrottleFails
    <3> QED
      BY <3>1 DEF TypeOK
  <2>4. ASSUME NEW s \in Search, Call(s) \/ CallFails(s) PROVE IInv'
    <3>1. /\ UNCHANGED <<now, txnKey, mappedAt, dropped>> /\ unlucky \subseteq unlucky'
          /\ pc' = [pc EXCEPT ![s] = "done"] /\ asked' \subseteq asked \cup {s}
          /\ pc[s] = "call"
      BY <2>4 DEF Call, CallFails, Leave
    <3> QED
      BY <3>1 DEF TypeOK
  <2>5. ASSUME NEW s \in Search, NEW b \in Bpp, OnSearch(s, b) PROVE IInv'
    <3>1. /\ UNCHANGED <<now, pc, txnKey, asked, mappedAt, unlucky>> /\ s \in asked
          /\ dropped' = dropped \/ (dropped' = dropped \cup {s} /\ ~(now < txnKey[s]))
      BY <2>5 DEF OnSearch, Alive
    <3>2. s \notin unlucky /\ ~(now < txnKey[s]) => mappedAt[s] + TxnTtl <= now
      <4>1. now \in Nat /\ txnKey[s] \in Nat
        BY Constants DEF TypeOK
      <4> QED
        BY <3>1, <4>1
    <3> QED
      BY <3>1, <3>2
  <2>6. ASSUME NEW s \in Search, AnswerFails(s) PROVE IInv'
    BY <2>6 DEF AnswerFails
  <2>7. ASSUME NEW a \in Answer, StoreResult(a) PROVE IInv'
    BY <2>7 DEF StoreResult
  <2>8. CASE Restart
    BY <2>8 DEF Restart
  <2>9. CASE UNCHANGED vars
    BY <2>9 DEF vars, ghostVars
  <2> QED
    BY <2>1, <2>2, <2>3, <2>4, <2>5, <2>6, <2>7, <2>8, <2>9 DEF Next, SearchStep
<1> QED
  BY <1>1, <1>2, TypeCorrect, PTL DEF Spec
=============================================================================
