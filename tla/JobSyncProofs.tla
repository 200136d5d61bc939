--------------------------- MODULE JobSyncProofs ---------------------------
(***************************************************************************)
(* Theorems about JobSync for every number of BPPs, jobs, refreshes,       *)
(* handlers, duplicates, faults and catalogue changes.                     *)
(***************************************************************************)
EXTENDS JobSync, FiniteSetTheorems, TLAPS

\* The number of pages is a natural number.
LEMMA TotalPagesType ==
    ASSUME NEW total \in Nat
    PROVE  TotalPages(total) \in Nat
BY JobSyncAssumption, SMTT(30) DEF TotalPages

\* The jobs a BPP lists are finitely many.
LEMMA ListingFinite ==
    ASSUME NEW b \in Bpp
    PROVE  IsFiniteSet(Listing(b)) /\ Cardinality(Listing(b)) \in Nat
<1>1. Listing(b) \in SUBSET Job
    BY DEF Listing, JobsOf
<1>2. IsFiniteSet(Listing(b))
    BY <1>1, JobSyncAssumption, FS_Subset
<1>3. QED
    BY <1>2, FS_CardinalityType
\* A handler that runs works on a callback of some run.
LEMMA RunningHandler ==
    ASSUME TypeOK, NEW h \in Handler, pc[h] # "idle"
    PROVE  /\ msg[h].run \in Run /\ msg[h].run[1] \in 0..MaxTxn /\ msg[h].run[2] \in Bpp
           /\ msg[h].page \in Nat /\ msg[h].total \in Nat /\ msg[h].jobs \subseteq Job
<1>1. msg[h] \in OnSearch
    BY DEF TypeOK
<1>2. QED
    BY <1>1, JobSyncAssumption DEF OnSearch, Run, Txn

-----------------------------------------------------------------------------
\* Every reachable state has the types TypeOK gives it.
THEOREM TypeCorrect == Spec => []TypeOK
<1>1. Init => TypeOK
    BY JobSyncAssumption DEF Init, TypeOK
<1>2. TypeOK /\ [Next]_vars => TypeOK'
  <2> SUFFICES ASSUME TypeOK, [Next]_vars
               PROVE  TypeOK'
      OBVIOUS
  <2> USE JobSyncAssumption DEF TypeOK
  <2>1. CASE StartRefresh
    <3>1. [run : {started + 1} \X Bpp, page : {1}] \subseteq Search
        BY <2>1 DEF StartRefresh, Search, Run, Txn
    <3>2. QED
        BY <2>1, <3>1 DEF StartRefresh, bppVars, tableVars, redisVars, procVars
  <2>2. ASSUME NEW s \in asked, Answer(s)
        PROVE  TypeOK'
    <3> DEFINE b == s.run[2]
               m == [run |-> s.run, page |-> s.page, jobs |-> PageOf(Listing(b), s.page),
                     total |-> Cardinality(Listing(b))]
    <3>1. s.run \in Run /\ s.page \in Nat /\ b \in Bpp
        BY DEF Search, Run
    <3>2. Cardinality(Listing(b)) \in Nat
        BY <3>1, ListingFinite
    <3>3. PageOf(Listing(b), s.page) \subseteq Job
        BY DEF PageOf, Listing, JobsOf
    <3>4. m \in OnSearch
        BY <3>1, <3>2, <3>3 DEF OnSearch
    <3>5. net' \subseteq OnSearch /\ asked' \subseteq Search
        BY <2>2, <3>4 DEF Answer
    <3>6. QED
        BY <2>2, <3>5 DEF Answer, bppVars, tableVars, redisVars, procVars, ghostVars
  <2>3. ASSUME NEW s \in asked, LoseSearch(s)
        PROVE  TypeOK'
      BY <2>3 DEF LoseSearch, Fault, Search, bppVars, tableVars, redisVars, procVars
  <2>4. ASSUME NEW m \in net, LoseCallback(m)
        PROVE  TypeOK'
      BY <2>4 DEF LoseCallback, Fault, OnSearch, bppVars, tableVars, redisVars, procVars
  <2>5. ASSUME NEW j \in Job, ChangeCatalogue(j)
        PROVE  TypeOK'
      BY <2>5 DEF ChangeCatalogue, StartedRuns, netVars, tableVars, redisVars, procVars
  <2>6. ASSUME NEW r \in Run, ExpireKeys(r)
        PROVE  TypeOK'
      BY <2>6 DEF ExpireKeys, Fault, bppVars, netVars, tableVars, procVars
  <2>7. ASSUME NEW h \in Handler, NEW m \in net, Receive(h, m)
        PROVE  TypeOK'
      BY <2>7 DEF Receive, bppVars, tableVars, redisVars, ghostVars
  <2>8. ASSUME NEW h \in Handler, StoreJobs(h)
        PROVE  TypeOK'
    <3>1. pc[h] # "idle"
        BY <2>8 DEF StoreJobs, Goto
    <3>2. QED
        BY <2>8, <3>1, RunningHandler DEF StoreJobs, Goto, AfterStore, OtherRuns, StartedRuns,
           bppVars, netVars, redisVars
  <2>9. ASSUME NEW h \in Handler, StoreFails(h)
        PROVE  TypeOK'
    <3>1. pc[h] # "idle"
        BY <2>9 DEF StoreFails, Goto
    <3>2. QED
        BY <2>9, <3>1, RunningHandler DEF StoreFails, Goto, AfterStore, Fault, bppVars, netVars, tableVars,
           redisVars
  <2>10. ASSUME NEW h \in Handler, RecordPage(h)
         PROVE  TypeOK'
    <3>1. pc[h] # "idle"
        BY <2>10 DEF RecordPage, Goto
    <3>2. QED
        BY <2>10, <3>1, RunningHandler DEF RecordPage, Goto, bppVars, netVars, tableVars
  <2>11. ASSUME NEW h \in Handler, pc[h] = "read", NEW last \in received[msg[h].run],
                ReadPages(h, last)
         PROVE  TypeOK'
    <3>1. received[msg[h].run] \in SUBSET Nat
        BY <2>11 DEF OnSearch
    <3>2. QED
        BY <2>11, <3>1 DEF ReadPages, Goto, AfterPaging, bppVars, netVars, tableVars,
           redisVars, ghostVars
  <2>12. ASSUME NEW h \in Handler, NEW last \in got[h], Trigger(h, last)
         PROVE  TypeOK'
    <3>1. last + 1 \in Nat /\ msg[h].run \in Run
        BY <2>12 DEF Trigger, Goto, OnSearch
    <3>2. QED
        BY <2>12, <3>1 DEF Trigger, Goto, AfterPaging, bppVars, netVars, tableVars, ghostVars
  <2>13. ASSUME NEW h \in Handler, NEW last \in got[h], SendNext(h, last)
         PROVE  TypeOK'
    <3>1. [run |-> msg[h].run, page |-> last + 1] \in Search /\ msg[h].run \in Run
        BY <2>13 DEF SendNext, Goto, OnSearch, Search
    <3>2. QED
        BY <2>13, <3>1 DEF SendNext, Goto, AfterPaging, Post, Fault, bppVars, tableVars,
           redisVars
  <2>14. ASSUME NEW h \in Handler, Deactivate(h)
         PROVE  TypeOK'
    <3>1. pc[h] # "idle"
        BY <2>14 DEF Deactivate, Goto
    <3>2. StaleJobs(msg[h].run) \in SUBSET Job /\ OtherRuns(msg[h].run) \in SUBSET Run
        BY DEF StaleJobs, OtherRuns, StartedRuns
    <3>3. pc' = [pc EXCEPT ![h] = "purge"] /\ msg' = msg
        BY <2>14 DEF Deactivate, Goto
    <3>4. /\ active' \subseteq Job /\ dirty' \subseteq Run
          /\ stale' \in [Handler -> SUBSET Job] /\ faults' \in [Run -> Nat]
      <4>1. msg[h].run \in Run
          BY <3>1, RunningHandler
      <4>2. CASE Fault(msg[h].run) /\ UNCHANGED <<active, stale, dirty>>
          BY <4>1, <4>2 DEF Fault
      <4>3. CASE /\ active' = active \ StaleJobs(msg[h].run)
                 /\ stale' = [stale EXCEPT ![h] = StaleJobs(msg[h].run)]
                 /\ faults' = faults
                 /\ dirty' = dirty \cup OtherRuns(msg[h].run)
          BY <3>2, <4>3
      <4>4. QED
          BY <2>14, <4>2, <4>3 DEF Deactivate
    <3>5. QED
        BY <2>14, <3>1, <3>3, <3>4 DEF Deactivate, bppVars, netVars, redisVars
  <2>15. ASSUME NEW h \in Handler, NEW j \in Job, Purge(h, j)
         PROVE  TypeOK'
    <3>1. pc[h] # "idle"
        BY <2>15 DEF Purge
    <3>2. stale' \in [Handler -> SUBSET Job]
        BY <2>15 DEF Purge
    <3>3. index' \subseteq Job /\ faults' \in [Run -> Nat]
      <4>1. msg[h].run \in Run
          BY <3>1, RunningHandler
      <4>2. CASE index' = index \ {j} /\ faults' = faults
          BY <4>2
      <4>3. CASE index' = index /\ Fault(msg[h].run)
          BY <4>1, <4>3 DEF Fault
      <4>4. QED
          BY <2>15, <4>2, <4>3 DEF Purge
    <3>4. QED
        BY <2>15, <3>1, <3>2, <3>3 DEF Purge, bppVars, netVars, redisVars
  <2>16. ASSUME NEW h \in Handler, Finish(h)
         PROVE  TypeOK'
    <3>1. pc[h] # "idle"
        BY <2>16 DEF Finish, Goto
    <3>2. QED
        BY <2>16, <3>1, RunningHandler DEF Finish, Goto, bppVars, netVars, tableVars, redisVars, ghostVars
  <2>17. ASSUME NEW h \in Handler, HandlerStops(h)
         PROVE  TypeOK'
    <3>1. pc[h] # "idle"
        BY <2>17 DEF HandlerStops
    <3>2. QED
        BY <2>17, <3>1, RunningHandler DEF HandlerStops, Goto, Fault, bppVars, netVars,
           tableVars, redisVars
  <2>18. CASE UNCHANGED vars
      BY <2>18 DEF vars, bppVars, netVars, tableVars, redisVars, procVars, ghostVars
  <2>19. QED
      BY <2>1, <2>2, <2>3, <2>4, <2>5, <2>6, <2>7, <2>8, <2>9, <2>10, <2>11, <2>12, <2>13,
         <2>14, <2>15, <2>16, <2>17, <2>18 DEF Next, HandlerStep
<1>3. QED
    BY <1>1, <1>2, PTL DEF Spec
-----------------------------------------------------------------------------
(* The clean-up starts only when every page has been seen *)

\* A handler that keeps its callback keeps the order of its page, whatever
\* pages other handlers record.
LEMMA SeenGrows ==
    ASSUME TypeOK, NEW r \in Run, NEW p \in Nat, InOrder(r, p),
           seen[r] \subseteq seen'[r]
    PROVE  InOrder(r, p)'
BY DEF InOrder

\* An action that only moves one handler on, and records nothing, keeps the
\* pages in order when it respects what that handler has to respect.
LEMMA HandlerMoves ==
    ASSUME TypeOK, PagesInOrder, NEW h \in Handler, NEW to,
           pc[h] # "idle", Goto(h, pc[h], to),
           UNCHANGED <<received, seen, net>>,
           \A s \in asked' : s \in asked \/ InOrder(s.run, s.page),
           \A k \in Handler \ {h} : got'[k] = got[k],
           to \in {"trigger", "send", "deactivate"} =>
               got'[h] \subseteq seen[msg[h].run] /\ IsFiniteSet(got'[h]),
           to = "deactivate" => Cardinality(got'[h]) = TotalPages(msg[h].total)
    PROVE  PagesInOrder'
<1>1. /\ pc' \in [Handler -> {pc[k] : k \in Handler} \cup {to}]
      /\ pc'[h] = to
      /\ \A k \in Handler \ {h} : pc'[k] = pc[k] /\ msg'[k] = msg[k]
      /\ to # "idle" => msg'[h] = msg[h]
    BY DEF Goto, TypeOK
<1>2. (\A r \in Run : NoHole(seen[r]))' /\ (\A m \in net : InOrder(m.run, m.page))'
    BY DEF PagesInOrder, NoHole, InOrder
<1>3. (\A r \in Run : received[r] \subseteq seen[r] /\ IsFiniteSet(received[r]))'
    BY DEF PagesInOrder
<1>4. (\A s \in asked : InOrder(s.run, s.page))'
    BY DEF PagesInOrder, InOrder
<1>5. (\A k \in Handler : pc[k] # "idle" => InOrder(msg[k].run, msg[k].page))'
    BY <1>1 DEF PagesInOrder, InOrder
<1>6. (\A k \in Handler : pc[k] \in {"trigger", "send", "deactivate"} =>
         got[k] \subseteq seen[msg[k].run] /\ IsFiniteSet(got[k]))'
    BY <1>1 DEF PagesInOrder
<1>7. (\A k \in Handler : pc[k] = "deactivate" =>
         Cardinality(got[k]) = TotalPages(msg[k].total))'
    BY <1>1 DEF PagesInOrder, TotalPages
<1>8. QED
    BY <1>2, <1>3, <1>4, <1>5, <1>6, <1>7 DEF PagesInOrder

\* The pages of every run are in order, initially and after every step.
LEMMA PagesInOrderInit == Init => PagesInOrder
BY FS_EmptySet DEF Init, PagesInOrder, NoHole, InOrder

\* Every step keeps the pages in order.
LEMMA PagesInOrderStep == TypeOK /\ TypeOK' /\ PagesInOrder /\ [Next]_vars => PagesInOrder'
<1> SUFFICES ASSUME TypeOK, TypeOK', PagesInOrder, [Next]_vars
             PROVE  PagesInOrder'
    OBVIOUS
<1>1. CASE StartRefresh
    BY <1>1 DEF StartRefresh, PagesInOrder, NoHole, InOrder, redisVars, procVars
<1>2. ASSUME NEW s \in asked, Answer(s)
      PROVE  PagesInOrder'
    BY <1>2 DEF Answer, PagesInOrder, NoHole, InOrder, redisVars, procVars, ghostVars
<1>3. ASSUME NEW s \in asked, LoseSearch(s)
      PROVE  PagesInOrder'
    BY <1>3 DEF LoseSearch, PagesInOrder, NoHole, InOrder, redisVars, procVars
<1>4. ASSUME NEW m \in net, LoseCallback(m)
      PROVE  PagesInOrder'
    BY <1>4 DEF LoseCallback, PagesInOrder, NoHole, InOrder, redisVars, procVars
<1>5. ASSUME NEW j \in Job, ChangeCatalogue(j)
      PROVE  PagesInOrder'
    BY <1>5 DEF ChangeCatalogue, PagesInOrder, NoHole, InOrder, netVars, redisVars, procVars
<1>6. ASSUME NEW r \in Run, ExpireKeys(r)
      PROVE  PagesInOrder'
    BY <1>6, FS_EmptySet DEF ExpireKeys, TypeOK, PagesInOrder, NoHole, InOrder, netVars,
       procVars
<1>7. ASSUME NEW h \in Handler, NEW m \in net, Receive(h, m)
      PROVE  PagesInOrder'
    BY <1>7 DEF Receive, TypeOK, PagesInOrder, NoHole, InOrder, redisVars, ghostVars
<1>8. ASSUME NEW h \in Handler, StoreJobs(h) \/ StoreFails(h)
      PROVE  PagesInOrder'
    BY <1>8, HandlerMoves DEF StoreJobs, StoreFails, Goto, AfterStore, netVars, redisVars
<1>9. ASSUME NEW h \in Handler, RecordPage(h)
      PROVE  PagesInOrder'
  <2> DEFINE r == msg[h].run
             p == msg[h].page
  <2>1. pc[h] # "idle" /\ r \in Run /\ p \in Nat /\ InOrder(r, p)
      BY <1>9, RunningHandler DEF RecordPage, Goto, PagesInOrder
  <2>2. /\ seen' = [seen EXCEPT ![r] = @ \cup {p}]
        /\ received' = [received EXCEPT ![r] = @ \cup {p}]
        /\ pc' = [pc EXCEPT ![h] = "read"] /\ UNCHANGED <<asked, net, msg, got>>
      BY <1>9 DEF RecordPage, Goto, netVars
  <2>3. \A q \in Run : seen[q] \subseteq seen'[q]
      BY <2>1, <2>2 DEF TypeOK
  <2>4. (\A q \in Run : NoHole(seen[q]))'
    <3>1. NoHole(seen[r] \cup {p})
      <4>1. NoHole(seen[r]) /\ seen[r] \subseteq Nat
          BY <2>1 DEF PagesInOrder, TypeOK
      <4>2. p >= 1 /\ 1..p \subseteq seen[r] \cup {p}
          BY <2>1, <4>1 DEF InOrder, NoHole
      <4>3. QED
          BY <4>1, <4>2 DEF NoHole
    <3>2. QED
        BY <2>1, <2>2, <3>1 DEF PagesInOrder, TypeOK
  <2>5. (\A q \in Run : received[q] \subseteq seen[q] /\ IsFiniteSet(received[q]))'
    <3>1. IsFiniteSet(received[r] \cup {p})
        BY <2>1, FS_AddElement DEF PagesInOrder
    <3>2. QED
        BY <2>1, <2>2, <3>1 DEF PagesInOrder, TypeOK
  <2>6. (\A s \in asked : InOrder(s.run, s.page))'
      BY <2>2, <2>3, SeenGrows DEF PagesInOrder, TypeOK, Search
  <2>7. (\A m \in net : InOrder(m.run, m.page))'
      BY <2>2, <2>3, SeenGrows DEF PagesInOrder, TypeOK, OnSearch
  <2>8. (\A k \in Handler : pc[k] # "idle" => InOrder(msg[k].run, msg[k].page))'
    <3>1. ASSUME NEW k \in Handler, pc[k] # "idle"
          PROVE  InOrder(msg[k].run, msg[k].page)'
        BY <2>2, <2>3, <3>1, SeenGrows, RunningHandler DEF PagesInOrder
    <3>2. QED
        BY <2>1, <2>2, <3>1 DEF TypeOK
  <2>9. (\A k \in Handler : pc[k] \in {"trigger", "send", "deactivate"} =>
           got[k] \subseteq seen[msg[k].run] /\ IsFiniteSet(got[k]))'
    <3>1. ASSUME NEW k \in Handler, pc[k] \in {"trigger", "send", "deactivate"}
          PROVE  (got[k] \subseteq seen[msg[k].run] /\ IsFiniteSet(got[k]))'
        BY <2>2, <2>3, <3>1, RunningHandler DEF PagesInOrder
    <3>2. QED
        BY <2>2, <3>1 DEF TypeOK
  <2>10. (\A k \in Handler : pc[k] = "deactivate" =>
            Cardinality(got[k]) = TotalPages(msg[k].total))'
      BY <2>2 DEF PagesInOrder, TypeOK, TotalPages
  <2>11. QED
      BY <2>4, <2>5, <2>6, <2>7, <2>8, <2>9, <2>10 DEF PagesInOrder
<1>10. ASSUME NEW h \in Handler, pc[h] = "read", NEW last \in received[msg[h].run],
              ReadPages(h, last)
       PROVE  PagesInOrder'
  <2> DEFINE to == IF last + 1 <= TotalPages(msg[h].total) THEN "trigger"
                   ELSE AfterPaging(h, received[msg[h].run])
  <2>1. Goto(h, pc[h], to) /\ UNCHANGED <<received, seen, asked, net>>
      BY <1>10 DEF ReadPages, Goto, netVars, redisVars, ghostVars
  <2>2. \A k \in Handler \ {h} : got'[k] = got[k]
      BY <1>10 DEF ReadPages, TypeOK
  <2>3. to # "idle" => got'[h] = received[msg[h].run]
      BY <1>10, <2>1 DEF ReadPages, Goto, TypeOK
  <2>4. /\ received[msg[h].run] \subseteq seen[msg[h].run]
        /\ IsFiniteSet(received[msg[h].run])
      BY <1>10, RunningHandler DEF PagesInOrder
  <2>5. to = "deactivate" =>
            Cardinality(received[msg[h].run]) = TotalPages(msg[h].total)
      BY DEF AfterPaging
  <2> HIDE DEF to
  <2>6. QED
      BY <1>10, <2>1, <2>2, <2>3, <2>4, <2>5, HandlerMoves
<1>11. ASSUME NEW h \in Handler, NEW last \in got[h], Trigger(h, last)
       PROVE  PagesInOrder'
  <2> DEFINE to == IF last + 1 \notin triggered[msg[h].run] THEN "send"
                   ELSE AfterPaging(h, got[h])
  <2>1. pc[h] = "trigger" /\ Goto(h, pc[h], to) /\ UNCHANGED <<received, seen, asked, net>>
      BY <1>11 DEF Trigger, Goto, netVars, ghostVars
  <2>2. \A k \in Handler \ {h} : got'[k] = got[k]
      BY <1>11 DEF Trigger, TypeOK
  <2>3. to # "idle" => got'[h] = got[h]
      BY <1>11, <2>1 DEF Trigger, Goto, TypeOK
  <2>4. got[h] \subseteq seen[msg[h].run] /\ IsFiniteSet(got[h])
      BY <2>1 DEF PagesInOrder
  <2>5. to = "deactivate" => Cardinality(got[h]) = TotalPages(msg[h].total)
      BY DEF AfterPaging
  <2> HIDE DEF to
  <2>6. QED
      BY <2>1, <2>2, <2>3, <2>4, <2>5, HandlerMoves
<1>12. ASSUME NEW h \in Handler, NEW last \in got[h], SendNext(h, last)
       PROVE  PagesInOrder'
  <2> DEFINE to == AfterPaging(h, got[h])
             s == [run |-> msg[h].run, page |-> last + 1]
  <2>1. pc[h] = "send" /\ Goto(h, pc[h], to) /\ UNCHANGED <<received, seen, net>>
      BY <1>12 DEF SendNext, Goto, redisVars
  <2>2. \A k \in Handler \ {h} : got'[k] = got[k]
      BY <1>12 DEF SendNext, TypeOK
  <2>3. to # "idle" => got'[h] = got[h]
      BY <1>12, <2>1 DEF SendNext, Goto, TypeOK
  <2>4. got[h] \subseteq seen[msg[h].run] /\ IsFiniteSet(got[h])
      BY <2>1 DEF PagesInOrder
  <2>5. to = "deactivate" => Cardinality(got[h]) = TotalPages(msg[h].total)
      BY DEF AfterPaging
  <2>6. \A q \in asked' : q \in asked \/ InOrder(q.run, q.page)
    <3>1. asked' \subseteq asked \cup {s}
        BY <1>12 DEF SendNext
    <3>2. last \in Nat /\ last >= 1 /\ last \in seen[msg[h].run]
        BY <2>1, <2>4, RunningHandler DEF PagesInOrder, NoHole, TypeOK
    <3>3. InOrder(s.run, s.page)
        BY <3>2 DEF InOrder
    <3>4. QED
        BY <3>1, <3>3
  <2> HIDE DEF to
  <2>7. QED
      BY <2>1, <2>2, <2>3, <2>4, <2>5, <2>6, HandlerMoves
<1>13. ASSUME NEW h \in Handler, Deactivate(h)
       PROVE  PagesInOrder'
    BY <1>13, HandlerMoves DEF Deactivate, Goto, netVars, redisVars
<1>14. ASSUME NEW h \in Handler, NEW j \in Job, Purge(h, j)
       PROVE  PagesInOrder'
    BY <1>14 DEF Purge, PagesInOrder, NoHole, InOrder, netVars, redisVars
<1>15. ASSUME NEW h \in Handler, Finish(h) \/ HandlerStops(h)
       PROVE  PagesInOrder'
  <2>1. /\ pc[h] # "idle" /\ Goto(h, pc[h], "idle")
        /\ UNCHANGED <<received, seen, asked, net>>
      BY <1>15 DEF Finish, HandlerStops, Goto, netVars, redisVars, ghostVars
  <2>2. \A k \in Handler \ {h} : got'[k] = got[k]
      BY <1>15 DEF Finish, HandlerStops, TypeOK
  <2>3. QED
      BY <2>1, <2>2, HandlerMoves
<1>16. CASE UNCHANGED vars
    BY <1>16 DEF vars, PagesInOrder, NoHole, InOrder, netVars, redisVars, procVars, ghostVars
<1>17. QED
    BY <1>1, <1>2, <1>3, <1>4, <1>5, <1>6, <1>7, <1>8, <1>9, <1>10, <1>11, <1>12, <1>13,
       <1>14, <1>15, <1>16 DEF Next, HandlerStep

\* The count of pages a handler has read tells which pages they are: when a set
\* of pages has no hole, as many of its members as n show that 1..n are in it.
LEMMA CountCoversPages ==
    ASSUME NEW S \in SUBSET Nat, NoHole(S), NEW T \in SUBSET S, IsFiniteSet(T)
    PROVE  1..Cardinality(T) \subseteq S
<1> SUFFICES ASSUME NEW p \in 1..Cardinality(T), p \notin S
             PROVE  FALSE
    OBVIOUS
<1>1. Cardinality(T) \in Nat /\ p \in Nat /\ p >= 1
    BY FS_CardinalityType
<1>2. \A q \in S : q >= 1 /\ q < p
    BY <1>1 DEF NoHole
<1>3. T \in SUBSET (1..(p - 1))
    BY <1>1, <1>2
<1>4. IsFiniteSet(1..(p - 1)) /\ Cardinality(1..(p - 1)) = p - 1
  <2>1. 1 \in Int /\ p - 1 \in Int /\ (1 > p - 1 => p - 1 = 0) /\ (p - 1) - 1 + 1 = p - 1
      BY <1>1
  <2>2. QED
      BY <2>1, FS_Interval
<1>5. Cardinality(T) <= p - 1
    BY <1>3, <1>4, FS_Subset
<1>6. QED
    BY <1>1, <1>5

\* The pages of a run are recorded in order: at all times.
THEOREM PagesAlwaysInOrder == Spec => []PagesInOrder
BY PagesInOrderInit, PagesInOrderStep, TypeCorrect, PTL DEF Spec

\* Counting the recorded pages is enough to know that all are.
LEMMA CleanUpSeesPages == TypeOK /\ PagesInOrder => CleanUpSeesEveryPage
<1> SUFFICES ASSUME TypeOK, PagesInOrder, NEW h \in Handler, pc[h] = "deactivate"
             PROVE  1..TotalPages(msg[h].total) \subseteq seen[msg[h].run]
    BY DEF CleanUpSeesEveryPage
<1>1. msg[h].run \in Run
    BY RunningHandler
<1>2. /\ seen[msg[h].run] \in SUBSET Nat /\ NoHole(seen[msg[h].run])
      /\ got[h] \in SUBSET seen[msg[h].run] /\ IsFiniteSet(got[h])
      /\ Cardinality(got[h]) = TotalPages(msg[h].total)
    BY <1>1 DEF PagesInOrder, TypeOK
<1>3. QED
    BY <1>2, CountCoversPages

\* deactivate_stale_jobs runs only when all pages the callback announces have
\* been recorded: counting them is enough, whatever the network and the other
\* handlers do.
THEOREM CleanUpComplete == Spec => []CleanUpSeesEveryPage
BY CleanUpSeesPages, TypeCorrect, PagesAlwaysInOrder, PTL

-----------------------------------------------------------------------------
(* No page is asked for twice while the keys of its run live *)

\* At first nothing was posted.
LEMMA TriggersHeldInit == Init => TriggersHeld /\ PageAskedOnce
BY DEF Init, TriggersHeld, PageAskedOnce, Sending

\* An action that posts nothing and touches no key keeps TriggersHeld when no
\* handler comes to "send" by it.
LEMMA NothingPosted ==
    ASSUME TypeOK, TypeOK', TriggersHeld, PageAskedOnce,
           UNCHANGED <<posted, reposted, expired>>,
           \A r \in Run : triggered[r] \subseteq triggered'[r],
           \A h \in Handler : pc'[h] = "send" =>
               pc[h] = "send" /\ UNCHANGED <<got[h], msg[h]>>
    PROVE  TriggersHeld' /\ PageAskedOnce'
<1>1. PageAskedOnce'
    BY DEF PageAskedOnce
<1>2. \A h \in Handler : \A last \in got'[h] : Sending(h, last)' =>
        Sending(h, last) /\ last \in got[h] /\ msg'[h].run = msg[h].run
    BY DEF Sending, IsLast
<1>3. (\A s \in posted \ [run : expired, page : Nat] :
         s.page = 1 \/ s.page \in triggered[s.run])'
    BY DEF TriggersHeld, TypeOK, Search
<1>4. (\A h \in Handler : \A last \in got[h] :
         Sending(h, last) /\ msg[h].run \notin expired =>
             last + 1 \in triggered[msg[h].run] /\ NextSearch(h, last) \notin posted)'
  <2> SUFFICES ASSUME NEW h \in Handler, NEW last \in got'[h], Sending(h, last)',
                      msg'[h].run \notin expired
               PROVE  last + 1 \in triggered'[msg'[h].run] /\ NextSearch(h, last)' \notin posted
      OBVIOUS
  <2>1. Sending(h, last) /\ last \in got[h] /\ msg'[h].run = msg[h].run
      BY <1>2
  <2>2. msg[h].run \in Run
      BY <2>1, RunningHandler DEF Sending
  <2>3. QED
      BY <2>1, <2>2 DEF TriggersHeld, NextSearch
<1>5. (\A h, k \in Handler : \A last \in got[h] \cap got[k] :
         Sending(h, last) /\ Sending(k, last) /\ msg[h].run = msg[k].run =>
             h = k \/ msg[h].run \in expired)'
    BY <1>2 DEF TriggersHeld
<1>6. QED
    BY <1>1, <1>3, <1>4, <1>5 DEF TriggersHeld

\* Every step keeps the trigger keys of what was posted.
LEMMA TriggersHeldStep ==
    ASSUME TypeOK, TypeOK', PagesInOrder, TriggersHeld, PageAskedOnce, [Next]_vars
    PROVE  TriggersHeld' /\ PageAskedOnce'
<1>1. CASE StartRefresh
  <2> DEFINE firsts == [run : {started + 1} \X Bpp, page : {1}]
  <2>1. /\ posted' = posted \cup firsts
        /\ UNCHANGED <<reposted, expired, triggered, pc, msg, got>>
      BY <1>1 DEF StartRefresh, redisVars, procVars
  <2>2. \A s \in firsts : s.page = 1
      OBVIOUS
  <2>3. ASSUME NEW h \in Handler, NEW last \in got[h], Sending(h, last)
        PROVE  NextSearch(h, last) \notin firsts
    <3>1. last \in Nat /\ last >= 1
        BY <2>3, RunningHandler DEF Sending, PagesInOrder, NoHole, TypeOK
    <3>2. NextSearch(h, last).page # 1
        BY <3>1 DEF NextSearch
    <3>3. QED
        BY <2>2, <3>2
  <2> HIDE DEF firsts
  <2>4. QED
      BY <2>1, <2>2, <2>3 DEF TriggersHeld, PageAskedOnce, Sending, NextSearch
<1>2. ASSUME NEW r \in Run, ExpireKeys(r)
      PROVE  TriggersHeld' /\ PageAskedOnce'
  <2>1. /\ triggered' = [triggered EXCEPT ![r] = {}] /\ expired' = expired \cup {r}
        /\ UNCHANGED <<posted, reposted, pc, msg, got>>
      BY <1>2 DEF ExpireKeys, procVars
  <2>2. PageAskedOnce'
      BY <2>1 DEF PageAskedOnce
  <2>3. (\A s \in posted \ [run : expired, page : Nat] :
           s.page = 1 \/ s.page \in triggered[s.run])'
      BY <2>1 DEF TriggersHeld, TypeOK, Search
  <2>4. (\A h \in Handler : \A last \in got[h] :
           Sending(h, last) /\ msg[h].run \notin expired =>
               last + 1 \in triggered[msg[h].run] /\ NextSearch(h, last) \notin posted)'
    <3> SUFFICES ASSUME NEW h \in Handler, NEW last \in got[h], Sending(h, last),
                        msg[h].run \notin expired'
                 PROVE  last + 1 \in triggered'[msg[h].run] /\ NextSearch(h, last) \notin posted
        BY <2>1 DEF Sending, NextSearch
    <3>1. msg[h].run \in Run /\ msg[h].run # r /\ msg[h].run \notin expired
        BY <2>1, RunningHandler DEF Sending
    <3>2. QED
        BY <2>1, <3>1 DEF TriggersHeld, TypeOK
  <2>5. (\A h, k \in Handler : \A last \in got[h] \cap got[k] :
           Sending(h, last) /\ Sending(k, last) /\ msg[h].run = msg[k].run =>
               h = k \/ msg[h].run \in expired)'
      BY <2>1 DEF TriggersHeld, Sending
  <2>6. QED
      BY <2>2, <2>3, <2>4, <2>5 DEF TriggersHeld
<1>3. ASSUME NEW h \in Handler, NEW last \in got[h], Trigger(h, last)
      PROVE  TriggersHeld' /\ PageAskedOnce'
  <2> DEFINE r == msg[h].run
             p == last + 1
  <2>1. /\ pc[h] = "trigger" /\ r \in Run /\ last \in Nat /\ IsLast(got[h], last)
        /\ triggered' = [triggered EXCEPT ![r] = @ \cup {p}]
        /\ UNCHANGED <<posted, reposted, expired>>
      BY <1>3, RunningHandler DEF Trigger, Goto, ghostVars, TypeOK
  <2>2. \A q \in Run : triggered[q] \subseteq triggered'[q]
      BY <2>1 DEF TypeOK
  <2>3. \A k \in Handler \ {h} : pc'[k] = pc[k] /\ msg'[k] = msg[k] /\ got'[k] = got[k]
      BY <1>3 DEF Trigger, Goto, TypeOK
  <2>4. CASE pc'[h] # "send"
      BY <2>1, <2>2, <2>3, <2>4, NothingPosted
  <2>5. CASE pc'[h] = "send"
    <3>1. p \notin triggered[r] /\ msg'[h] = msg[h] /\ got'[h] = got[h]
        BY <1>3, <2>5 DEF Trigger, Goto, AfterPaging, TypeOK
    <3>2. \A q \in got[h] : Sending(h, q)' => q = last
        BY <2>1, <3>1 DEF Sending, IsLast, TypeOK
    <3>3. (\A s \in posted \ [run : expired, page : Nat] :
             s.page = 1 \/ s.page \in triggered[s.run])'
        BY <2>1, <2>2 DEF TriggersHeld, TypeOK, Search
    <3>4. (\A k \in Handler : \A q \in got[k] :
             Sending(k, q) /\ msg[k].run \notin expired =>
                 q + 1 \in triggered[msg[k].run] /\ NextSearch(k, q) \notin posted)'
      <4> SUFFICES ASSUME NEW k \in Handler, NEW q \in got'[k], Sending(k, q)',
                          msg'[k].run \notin expired'
                   PROVE  /\ q + 1 \in triggered'[msg'[k].run]
                          /\ NextSearch(k, q)' \notin posted'
          OBVIOUS
      <4>1. CASE k = h
        <5>1. q = last /\ msg'[k].run = r /\ r \notin expired
            BY <2>1, <3>1, <3>2, <4>1
        <5>2. p \in triggered'[r]
            BY <2>1 DEF TypeOK
        <5>3. last >= 1 /\ p # 1
            BY <2>1, <4>1 DEF PagesInOrder, NoHole
        <5>4. [run |-> r, page |-> p] \notin posted
          <6>1. ASSUME [run |-> r, page |-> p] \in posted
                PROVE  FALSE
            <7>1. [run |-> r, page |-> p] \notin [run : expired, page : Nat]
                BY <5>1
            <7>2. QED
                BY <3>1, <5>3, <6>1, <7>1 DEF TriggersHeld
          <6>2. QED
              BY <6>1
        <5>5. QED
            BY <2>1, <4>1, <5>1, <5>2, <5>4 DEF NextSearch
      <4>2. CASE k # h
        <5>1. Sending(k, q) /\ q \in got[k] /\ msg'[k] = msg[k] /\ msg[k].run \notin expired
            BY <2>1, <2>3, <4>2 DEF Sending
        <5>2. msg[k].run \in Run
            BY <5>1, RunningHandler DEF Sending
        <5>3. QED
            BY <2>1, <2>2, <5>1, <5>2 DEF TriggersHeld, NextSearch
      <4>3. QED
          BY <4>1, <4>2
    <3>5. (\A k, l \in Handler : \A q \in got[k] \cap got[l] :
             Sending(k, q) /\ Sending(l, q) /\ msg[k].run = msg[l].run =>
                 k = l \/ msg[k].run \in expired)'
      <4>1. ASSUME NEW k \in Handler \ {h}, NEW q \in got'[k] \cap got'[h],
                   Sending(k, q)', Sending(h, q)', msg'[k].run = msg'[h].run
            PROVE  r \in expired
        <5>1. q = last /\ msg[k].run = r /\ Sending(k, q) /\ q \in got[k]
            BY <2>3, <3>1, <3>2, <4>1 DEF Sending
        <5>2. QED
            BY <3>1, <5>1 DEF TriggersHeld
      <4>2. ASSUME NEW k \in Handler \ {h}, NEW l \in Handler \ {h},
                   NEW q \in got'[k] \cap got'[l],
                   Sending(k, q)', Sending(l, q)', msg'[k].run = msg'[l].run
            PROVE  k = l \/ msg[k].run \in expired
          BY <2>3, <4>2 DEF TriggersHeld, Sending
      <4>3. QED
          BY <2>1, <2>3, <3>1, <4>1, <4>2
    <3>6. QED
        BY <2>1, <3>3, <3>4, <3>5 DEF TriggersHeld, PageAskedOnce
  <2>6. QED
      BY <2>4, <2>5
<1>4. ASSUME NEW h \in Handler, NEW last \in got[h], SendNext(h, last)
      PROVE  TriggersHeld' /\ PageAskedOnce'
  <2> DEFINE r == msg[h].run
             s == [run |-> r, page |-> last + 1]
  <2>1. /\ Sending(h, last) /\ r \in Run /\ last \in Nat
        /\ posted' = posted \cup {s}
        /\ reposted' = IF s \in posted THEN reposted \cup {s} ELSE reposted
        /\ UNCHANGED <<triggered, expired>>
      BY <1>4, RunningHandler DEF SendNext, Goto, Post, Sending, redisVars, TypeOK
  <2>2. \A k \in Handler \ {h} : pc'[k] = pc[k] /\ msg'[k] = msg[k] /\ got'[k] = got[k]
      BY <1>4 DEF SendNext, Goto, TypeOK
  <2>3. pc'[h] # "send"
      BY <1>4 DEF SendNext, Goto, AfterPaging, TypeOK
  <2>4. r \notin expired => last + 1 \in triggered[r] /\ s \notin posted
      BY <2>1 DEF TriggersHeld, NextSearch
  <2>5. PageAskedOnce'
      BY <2>1, <2>4 DEF PageAskedOnce
  <2>6. (\A q \in posted \ [run : expired, page : Nat] :
           q.page = 1 \/ q.page \in triggered[q.run])'
    <3>1. r \in expired => s \in [run : expired, page : Nat]
        BY <2>1
    <3>2. QED
        BY <2>1, <2>4, <3>1 DEF TriggersHeld
  <2>7. (\A k \in Handler : \A q \in got[k] :
           Sending(k, q) /\ msg[k].run \notin expired =>
               q + 1 \in triggered[msg[k].run] /\ NextSearch(k, q) \notin posted)'
    <3> SUFFICES ASSUME NEW k \in Handler, NEW q \in got'[k], Sending(k, q)',
                        msg'[k].run \notin expired'
                 PROVE  /\ q + 1 \in triggered'[msg'[k].run]
                        /\ NextSearch(k, q)' \notin posted'
        OBVIOUS
    <3>1. k # h
        BY <2>3 DEF Sending
    <3>2. /\ Sending(k, q) /\ q \in got[k] /\ msg'[k] = msg[k] /\ msg[k].run \notin expired
          /\ q \in Nat
        BY <2>1, <2>2, <3>1 DEF Sending, TypeOK
    <3>3. NextSearch(k, q) # s
      <4>1. ASSUME NextSearch(k, q) = s
            PROVE  FALSE
        <5>1. msg[k].run = r /\ q = last
            BY <2>1, <3>2, <4>1 DEF NextSearch
        <5>2. QED
            BY <2>1, <3>1, <3>2, <5>1 DEF TriggersHeld
      <4>2. QED
          BY <4>1
    <3>4. QED
        BY <2>1, <3>2, <3>3 DEF TriggersHeld, NextSearch
  <2>8. (\A k, l \in Handler : \A q \in got[k] \cap got[l] :
           Sending(k, q) /\ Sending(l, q) /\ msg[k].run = msg[l].run =>
               k = l \/ msg[k].run \in expired)'
      BY <2>1, <2>2, <2>3 DEF TriggersHeld, Sending
  <2>9. QED
      BY <2>5, <2>6, <2>7, <2>8 DEF TriggersHeld
<1>5. ASSUME UNCHANGED <<posted, reposted, expired, triggered>>,
             \A h \in Handler : pc'[h] = "send" =>
                 pc[h] = "send" /\ UNCHANGED <<got[h], msg[h]>>
      PROVE  TriggersHeld' /\ PageAskedOnce'
    BY <1>5, NothingPosted
<1>6. ASSUME NEW s \in asked, Answer(s) \/ LoseSearch(s)
      PROVE  TriggersHeld' /\ PageAskedOnce'
    BY <1>5, <1>6 DEF Answer, LoseSearch, redisVars, procVars, ghostVars
<1>7. ASSUME NEW m \in net, LoseCallback(m)
      PROVE  TriggersHeld' /\ PageAskedOnce'
    BY <1>5, <1>7 DEF LoseCallback, redisVars, procVars
<1>8. ASSUME NEW j \in Job, ChangeCatalogue(j)
      PROVE  TriggersHeld' /\ PageAskedOnce'
    BY <1>5, <1>8 DEF ChangeCatalogue, redisVars, procVars
<1>9. ASSUME NEW h \in Handler, NEW m \in net, Receive(h, m)
      PROVE  TriggersHeld' /\ PageAskedOnce'
  <2>1. UNCHANGED <<posted, reposted, expired, triggered>>
      BY <1>9 DEF Receive, redisVars, ghostVars
  <2>2. \A k \in Handler : pc'[k] = "send" =>
            pc[k] = "send" /\ UNCHANGED <<got[k], msg[k]>>
      BY <1>9 DEF Receive, TypeOK
  <2>3. QED
      BY <1>5, <2>1, <2>2
<1>10. ASSUME NEW h \in Handler, StoreJobs(h) \/ StoreFails(h) \/ RecordPage(h)
       PROVE  TriggersHeld' /\ PageAskedOnce'
  <2>1. UNCHANGED <<posted, reposted, expired, triggered>>
      BY <1>10 DEF StoreJobs, StoreFails, RecordPage, redisVars
  <2>2. \A k \in Handler : pc'[k] = "send" =>
            pc[k] = "send" /\ UNCHANGED <<got[k], msg[k]>>
      BY <1>10 DEF StoreJobs, StoreFails, RecordPage, Goto, AfterStore, TypeOK
  <2>3. QED
      BY <1>5, <2>1, <2>2
<1>11. ASSUME NEW h \in Handler, pc[h] = "read", NEW last \in received[msg[h].run],
              ReadPages(h, last)
       PROVE  TriggersHeld' /\ PageAskedOnce'
  <2>1. UNCHANGED <<posted, reposted, expired, triggered>>
      BY <1>11 DEF ReadPages, redisVars, ghostVars
  <2>2. \A k \in Handler : pc'[k] = "send" =>
            pc[k] = "send" /\ UNCHANGED <<got[k], msg[k]>>
      BY <1>11 DEF ReadPages, Goto, AfterPaging, TypeOK
  <2>3. QED
      BY <1>5, <2>1, <2>2
<1>12. ASSUME NEW h \in Handler,
              Deactivate(h) \/ (\E j \in Job : Purge(h, j)) \/ Finish(h) \/ HandlerStops(h)
       PROVE  TriggersHeld' /\ PageAskedOnce'
  <2>1. UNCHANGED <<posted, reposted, expired, triggered>>
      BY <1>12 DEF Deactivate, Purge, Finish, HandlerStops, redisVars, ghostVars
  <2>2. \A k \in Handler : pc'[k] = "send" =>
            pc[k] = "send" /\ UNCHANGED <<got[k], msg[k]>>
      BY <1>12 DEF Deactivate, Purge, Finish, HandlerStops, Goto, TypeOK
  <2>3. QED
      BY <1>5, <2>1, <2>2
<1>13. CASE UNCHANGED vars
    BY <1>5, <1>13 DEF vars, redisVars, procVars, ghostVars
<1>14. QED
    BY <1>1, <1>2, <1>3, <1>4, <1>6, <1>7, <1>8, <1>9, <1>10, <1>11, <1>12, <1>13
       DEF Next, HandlerStep

\* The keys of a run claim its pages: at all times.
LEMMA TriggersAlwaysHeld == Spec => [](TriggersHeld /\ PageAskedOnce)
<1>1. TypeOK /\ TypeOK' /\ PagesInOrder /\ TriggersHeld /\ PageAskedOnce /\ [Next]_vars
        => TriggersHeld' /\ PageAskedOnce'
    BY TriggersHeldStep
<1>2. QED
    BY <1>1, TriggersHeldInit, TypeCorrect, PagesAlwaysInOrder, PTL DEF Spec

\* While the Redis keys of a run live, no page of it is asked for twice,
\* however many handlers are called with copies of the same callback.
THEOREM NoPageAskedTwice == Spec => []PageAskedOnce
BY TriggersAlwaysHeld, PTL


-----------------------------------------------------------------------------
(* What is in the table when a handler cleans up *)

\* A job a BPP lists is on one of its pages.
LEMMA ListedOnSomePage ==
    ASSUME NEW S \in SUBSET Job, NEW j \in S
    PROVE  PageNo(S, j) \in 1..TotalPages(Cardinality(S))
<1> DEFINE T == {i \in S : i <= j}
<1>1. IsFiniteSet(S) /\ Cardinality(S) \in Nat
    BY JobSyncAssumption, FS_Subset, FS_CardinalityType
<1>2. IsFiniteSet(T) /\ Cardinality(T) \in Nat /\ Cardinality(T) <= Cardinality(S)
    BY <1>1, FS_Subset, FS_CardinalityType
<1>3. Cardinality(T) # 0
  <2>1. j \in T
      BY JobSyncAssumption
  <2>2. QED
      BY <1>2, <2>1, FS_EmptySet
<1>4. ASSUME NEW n \in Nat, NEW m \in Nat, 1 <= n, n <= m
      PROVE  TotalPages(n) \in 1..TotalPages(m)
    BY <1>4, JobSyncAssumption, SMTT(60) DEF TotalPages
<1>5. PageNo(S, j) = TotalPages(Cardinality(T))
    BY DEF PageNo
<1>6. QED
    BY <1>1, <1>2, <1>3, <1>4, <1>5

\* Once every page is in the table, so is every listed job.
LEMMA WholeListing ==
    ASSUME NEW r \in Run, \A p \in 1..Pages(r) : InTable(r, p)
    PROVE  \A j \in Listing(r[2]) : j \in active /\ lastTxn[j] = r[1]
<1> TAKE j \in Listing(r[2])
<1> DEFINE p == PageNo(Listing(r[2]), j)
<1>1. Listing(r[2]) \in SUBSET Job
    BY DEF Listing, JobsOf
<1>2. p \in 1..Pages(r)
    BY <1>1, ListedOnSomePage DEF Pages
<1>3. j \in PageOf(Listing(r[2]), p)
    BY DEF PageOf
<1> QED
    BY <1>2, <1>3 DEF InTable

\* The actions that touch the catalogue or the rows.
LEMMA TableSteps ==
    ASSUME [Next]_vars
    PROVE  \/ \E h \in Handler : StoreJobs(h)
           \/ \E h \in Handler : Deactivate(h)
           \/ \E j \in Job : ChangeCatalogue(j)
           \/ UNCHANGED <<open, active, lastTxn>> /\ dirty \subseteq dirty'
<1>1. CASE StartRefresh \/ UNCHANGED vars
    BY <1>1 DEF StartRefresh, vars, bppVars, tableVars, ghostVars
<1>2. CASE \/ \E s \in asked : Answer(s) \/ LoseSearch(s)
           \/ \E m \in net : LoseCallback(m)
    BY <1>2 DEF Answer, LoseSearch, LoseCallback, bppVars, tableVars, ghostVars
<1>3. CASE \E r \in Run : ExpireKeys(r)
    BY <1>3 DEF ExpireKeys, bppVars, tableVars
<1>4. CASE \E h \in Handler, m \in net : Receive(h, m)
    BY <1>4 DEF Receive, bppVars, tableVars, ghostVars
<1>5. CASE \E h \in Handler : StoreFails(h) \/ RecordPage(h)
    BY <1>5 DEF StoreFails, RecordPage, bppVars, tableVars
<1>6. CASE \E h \in Handler : \/ \E last \in received[msg[h].run] : ReadPages(h, last)
                              \/ \E last \in got[h] : Trigger(h, last) \/ SendNext(h, last)
    BY <1>6 DEF ReadPages, Trigger, SendNext, bppVars, tableVars, ghostVars
<1>7. CASE \E h \in Handler : \/ \E j \in Job : Purge(h, j)
                              \/ Finish(h) \/ HandlerStops(h)
    BY <1>7 DEF Purge, Finish, HandlerStops, bppVars, tableVars, ghostVars
<1> QED
    BY <1>1, <1>2, <1>3, <1>4, <1>5, <1>6, <1>7 DEF Next, HandlerStep

\* What is posted stays posted.
LEMMA PostedSteps ==
    ASSUME TypeOK, [Next]_vars
    PROVE  /\ posted \subseteq posted' /\ started <= started' /\ dirty \subseteq dirty'
           /\ \A r \in Run : seen[r] \subseteq seen'[r]
<1>1. CASE StartRefresh \/ UNCHANGED vars
    BY <1>1 DEF TypeOK, StartRefresh, vars, ghostVars
<1>2. CASE \/ \E s \in asked : Answer(s) \/ LoseSearch(s)
           \/ \E m \in net : LoseCallback(m)
    BY <1>2 DEF TypeOK, Answer, LoseSearch, LoseCallback, ghostVars
<1>3. CASE \E r \in Run : ExpireKeys(r)
    BY <1>3 DEF TypeOK, ExpireKeys
<1>4. CASE \E h \in Handler, m \in net : Receive(h, m)
    BY <1>4 DEF TypeOK, Receive, ghostVars
<1>5. CASE \E h \in Handler : StoreJobs(h) \/ StoreFails(h) \/ RecordPage(h) \/ Deactivate(h)
    BY <1>5 DEF TypeOK, StoreJobs, StoreFails, RecordPage, Deactivate
<1>6. CASE \E h \in Handler : \/ \E last \in received[msg[h].run] : ReadPages(h, last)
                              \/ \E last \in got[h] : Trigger(h, last) \/ SendNext(h, last)
  <2>1. UNCHANGED <<started, dirty, seen>>
      BY <1>6 DEF ReadPages, Trigger, SendNext, ghostVars
  <2>2. posted \subseteq posted'
      BY <1>6 DEF ReadPages, Trigger, SendNext, Post, ghostVars
  <2> QED
      BY <2>1, <2>2 DEF TypeOK
<1>7. CASE \E h \in Handler : \/ \E j \in Job : Purge(h, j)
                              \/ Finish(h) \/ HandlerStops(h)
    BY <1>7 DEF TypeOK, Purge, Finish, HandlerStops, ghostVars
<1>8. CASE \E j \in Job : ChangeCatalogue(j)
    BY <1>8 DEF TypeOK, ChangeCatalogue
<1> QED
    BY <1>1, <1>2, <1>3, <1>4, <1>5, <1>6, <1>7, <1>8 DEF Next, HandlerStep

\* While a run is not dirty, its BPP lists what it listed.
LEMMA ListingKept ==
    ASSUME TypeOK, [Next]_vars, NEW r \in StartedRuns, r \notin dirty'
    PROVE  UNCHANGED <<Listing(r[2]), Pages(r)>> /\ r \notin dirty
<1>1. r \notin dirty
    BY PostedSteps
<1>2. CASE UNCHANGED open
    BY <1>1, <1>2 DEF Listing, Pages, TotalPages, JobsOf
<1>3. ASSUME NEW j \in Job, ChangeCatalogue(j)
      PROVE  UNCHANGED <<Listing(r[2]), Pages(r)>>
  <2>1. r[2] # Home[j] /\ open' \subseteq open \cup {j} /\ open \ {j} \subseteq open'
      BY <1>3 DEF ChangeCatalogue
  <2>2. Listing(r[2])' = Listing(r[2])
      BY <2>1 DEF Listing, JobsOf
  <2> QED
      BY <2>2 DEF Pages, TotalPages
<1> QED
    BY <1>1, <1>2, <1>3, TableSteps DEF StoreJobs, Deactivate, bppVars

\* What the BPP answers to a search.
Reply(s) ==
    [run |-> s.run, page |-> s.page, jobs |-> PageOf(Listing(s.run[2]), s.page),
     total |-> Cardinality(Listing(s.run[2]))]

\* Where callbacks come from.
LEMMA CallbackSteps ==
    ASSUME TypeOK, [Next]_vars
    PROVE  /\ asked' \subseteq asked \cup posted'
           /\ \A m \in net' : m \in net \/ \E s \in asked : m = Reply(s)
           /\ \A h \in Handler : pc'[h] # "idle" =>
                \/ pc[h] # "idle" /\ msg'[h] = msg[h]
                \/ msg'[h] \in net
<1>1. CASE StartRefresh \/ UNCHANGED vars
    BY <1>1 DEF StartRefresh, vars, netVars, procVars
<1>2. CASE \/ \E s \in asked : Answer(s) \/ LoseSearch(s)
           \/ \E m \in net : LoseCallback(m)
    BY <1>2 DEF Answer, LoseSearch, LoseCallback, Reply, procVars
<1>3. CASE \/ \E r \in Run : ExpireKeys(r)
           \/ \E j \in Job : ChangeCatalogue(j)
    BY <1>3 DEF ExpireKeys, ChangeCatalogue, netVars, procVars
<1>4. CASE \E h \in Handler, m \in net : Receive(h, m)
    BY <1>4 DEF TypeOK, Receive
<1>5. CASE \E h \in Handler : StoreJobs(h) \/ StoreFails(h) \/ RecordPage(h) \/ Deactivate(h)
    BY <1>5 DEF TypeOK, StoreJobs, StoreFails, RecordPage, Deactivate, Goto, AfterStore, netVars
<1>6. CASE \E h \in Handler : \E last \in received[msg[h].run] : ReadPages(h, last)
    BY <1>6 DEF TypeOK, ReadPages, Goto, AfterPaging, netVars
<1>7. CASE \E h \in Handler : \E last \in got[h] : Trigger(h, last)
    BY <1>7 DEF TypeOK, Trigger, Goto, AfterPaging, netVars
<1>8. CASE \E h \in Handler : \E last \in got[h] : SendNext(h, last)
    BY <1>8 DEF TypeOK, SendNext, Goto, AfterPaging, Post
<1>9. CASE \E h \in Handler : \/ \E j \in Job : Purge(h, j)
                              \/ Finish(h) \/ HandlerStops(h)
    BY <1>9 DEF TypeOK, Purge, Finish, HandlerStops, Goto, netVars
<1> QED
    BY <1>1, <1>2, <1>3, <1>4, <1>5, <1>6, <1>7, <1>8, <1>9 DEF Next, HandlerStep

\* Every step keeps what is under way posted.
LEMMA AllPostedStep ==
    ASSUME TypeOK, AllPosted, [Next]_vars
    PROVE  AllPosted'
<1>1. posted \subseteq posted' /\ started <= started'
    BY PostedSteps
<1>2. (\A s \in posted : s.run[1] <= started)'
  <2>1. \A s \in posted : s.run[1] \in Nat /\ s.run[1] <= started
      BY DEF AllPosted, TypeOK, Search, Run, Txn
  <2>2. CASE StartRefresh
      BY <2>1, <2>2 DEF StartRefresh, TypeOK
  <2>3. ASSUME NEW h \in Handler, NEW last \in got[h], SendNext(h, last)
        PROVE  \A s \in posted' : s.run[1] <= started'
    <3>1. msg[h].run[1] <= started
        BY <2>3 DEF SendNext, Goto, AllPosted, Posted
    <3> QED
        BY <2>1, <2>3, <3>1 DEF SendNext, Post
  <2>4. CASE UNCHANGED <<posted, started>>
      BY <2>1, <2>4
  <2>5. CASE UNCHANGED vars
      BY <2>4, <2>5 DEF vars, ghostVars
  <2>6. CASE \/ \E s \in asked : Answer(s) \/ LoseSearch(s)
             \/ \E m \in net : LoseCallback(m)
             \/ \E r \in Run : ExpireKeys(r)
             \/ \E j \in Job : ChangeCatalogue(j)
             \/ \E h \in Handler, m \in net : Receive(h, m)
      BY <2>4, <2>6 DEF Answer, LoseSearch, LoseCallback, ExpireKeys, ChangeCatalogue, Receive,
         ghostVars
  <2>7. CASE \E h \in Handler : StoreJobs(h) \/ StoreFails(h) \/ RecordPage(h) \/ Deactivate(h)
      BY <2>4, <2>7 DEF StoreJobs, StoreFails, RecordPage, Deactivate
  <2>8. CASE \E h \in Handler : \/ \E last \in received[msg[h].run] : ReadPages(h, last)
                                \/ \E last \in got[h] : Trigger(h, last)
                                \/ \E j \in Job : Purge(h, j)
                                \/ Finish(h) \/ HandlerStops(h)
      BY <2>4, <2>8 DEF ReadPages, Trigger, Purge, Finish, HandlerStops, ghostVars
  <2> QED
      BY <2>2, <2>3, <2>5, <2>6, <2>7, <2>8 DEF Next, HandlerStep
<1>3. asked' \subseteq posted'
    BY <1>1, CallbackSteps DEF AllPosted
<1>4. ASSUME NEW s \in asked
      PROVE  Posted(s.run, s.page)
  <2>1. s = [run |-> s.run, page |-> s.page]
      BY DEF TypeOK, Search
  <2> QED
      BY <2>1 DEF AllPosted, Posted
<1>5. (\A m \in net : Posted(m.run, m.page))'
  <2>1. \A m \in net' : m \in net \/ \E s \in asked : m.run = s.run /\ m.page = s.page
      BY CallbackSteps DEF Reply
  <2>2. \A m \in net' : Posted(m.run, m.page)
      BY <1>4, <2>1 DEF AllPosted
  <2> QED
      BY <1>1, <2>2 DEF Posted
<1>6. (\A h \in Handler : pc[h] # "idle" => Posted(msg[h].run, msg[h].page))'
    BY <1>1, CallbackSteps DEF AllPosted, Posted
<1>7. ASSUME NEW r \in Run, NEW p \in seen'[r]
      PROVE  Posted(r, p)'
  <2>1. CASE p \in seen[r]
      BY <1>1, <2>1 DEF AllPosted, Posted
  <2>2. ASSUME NEW h \in Handler, RecordPage(h)
        PROVE  Posted(r, p)'
    <3>1. pc[h] # "idle" /\ seen' = [seen EXCEPT ![msg[h].run] = @ \cup {msg[h].page}]
        BY <2>2 DEF RecordPage, Goto
    <3>2. Posted(msg[h].run, msg[h].page)
        BY <3>1 DEF AllPosted
    <3>3. p \in seen[r] \/ (r = msg[h].run /\ p = msg[h].page)
        BY <3>1 DEF TypeOK
    <3> QED
        BY <1>1, <2>1, <3>2, <3>3 DEF Posted
  <2>3. CASE UNCHANGED seen
      BY <2>1, <2>3
  <2>4. CASE \/ StartRefresh \/ UNCHANGED vars
             \/ \E s \in asked : Answer(s) \/ LoseSearch(s)
             \/ \E m \in net : LoseCallback(m)
             \/ \E q \in Run : ExpireKeys(q)
             \/ \E j \in Job : ChangeCatalogue(j)
             \/ \E h \in Handler, m \in net : Receive(h, m)
      BY <2>3, <2>4 DEF StartRefresh, Answer, LoseSearch, LoseCallback, ExpireKeys,
         ChangeCatalogue, Receive, vars, ghostVars
  <2>5. CASE \E h \in Handler : StoreJobs(h) \/ StoreFails(h) \/ Deactivate(h)
      BY <2>3, <2>5 DEF StoreJobs, StoreFails, Deactivate
  <2>6. CASE \E h \in Handler : \/ \E last \in received[msg[h].run] : ReadPages(h, last)
                                \/ \E last \in got[h] : Trigger(h, last) \/ SendNext(h, last)
                                \/ \E j \in Job : Purge(h, j)
                                \/ Finish(h) \/ HandlerStops(h)
      BY <2>3, <2>6 DEF ReadPages, Trigger, SendNext, Purge, Finish, HandlerStops, ghostVars
  <2> QED
      BY <2>2, <2>4, <2>5, <2>6 DEF Next, HandlerStep
<1> QED
    BY <1>2, <1>3, <1>5, <1>6, <1>7 DEF AllPosted

\* Every step keeps the callbacks of clean runs true to the listing.
LEMMA CallbacksFitStep ==
    ASSUME TypeOK, AllPosted, CallbacksFit, [Next]_vars
    PROVE  CallbacksFit'
<1>1. ASSUME NEW m \in OnSearch, Fits(m), Posted(m.run, m.page)
      PROVE  Fits(m)'
  <2>1. m.run \in StartedRuns
      BY <1>1 DEF Posted, AllPosted, StartedRuns, OnSearch
  <2>2. m.jobs \subseteq JobsOf(m.run[2])'
      BY <1>1 DEF Fits, JobsOf
  <2>3. ASSUME m.run \notin dirty'
        PROVE  /\ m.jobs = PageOf(Listing(m.run[2]), m.page)'
               /\ m.total = Cardinality(Listing(m.run[2]))'
    <3>1. Listing(m.run[2])' = Listing(m.run[2]) /\ m.run \notin dirty
        BY <2>1, <2>3, ListingKept
    <3>2. PageOf(Listing(m.run[2]), m.page)' = PageOf(Listing(m.run[2]), m.page)
        BY <3>1 DEF PageOf, PageNo, TotalPages
    <3> QED
        BY <1>1, <3>1, <3>2 DEF Fits
  <2> QED
      BY <2>2, <2>3 DEF Fits
<1>2. ASSUME NEW s \in asked
      PROVE  Reply(s) \in OnSearch /\ Fits(Reply(s)) /\ Posted(s.run, s.page)
  <2>1. s.run \in Run /\ s.page \in Nat /\ s.run[2] \in Bpp /\ s = [run |-> s.run, page |-> s.page]
      BY DEF TypeOK, Search, Run
  <2>2. Cardinality(Listing(s.run[2])) \in Nat
      BY <2>1, ListingFinite
  <2>3. PageOf(Listing(s.run[2]), s.page) \subseteq JobsOf(s.run[2])
      BY DEF PageOf, Listing
  <2> QED
      BY <2>1, <2>2, <2>3 DEF Reply, OnSearch, Fits, JobsOf, AllPosted, Posted
<1>3. \A m \in net : m \in OnSearch /\ Fits(m) /\ Posted(m.run, m.page)
    BY DEF TypeOK, CallbacksFit, AllPosted
<1>4. ASSUME NEW m \in net'
      PROVE  Fits(m)'
  <2>1. CASE m \in net
      BY <1>1, <1>3, <2>1
  <2>2. ASSUME NEW s \in asked, m = Reply(s)
        PROVE  Fits(m)'
    <3>1. m \in OnSearch /\ Fits(m) /\ Posted(m.run, m.page)
        BY <1>2, <2>2 DEF Reply
    <3> QED
        BY <1>1, <3>1
  <2> QED
      BY <2>1, <2>2, CallbackSteps
<1>5. ASSUME NEW h \in Handler, pc'[h] # "idle"
      PROVE  Fits(msg[h])'
  <2>1. PICK m \in OnSearch : m = msg'[h] /\ Fits(m) /\ Posted(m.run, m.page)
      BY <1>3, <1>5, CallbackSteps DEF TypeOK, CallbacksFit, AllPosted
  <2>2. Fits(m)'
      BY <1>1, <2>1
  <2> QED
      BY <2>1, <2>2 DEF Fits
<1> QED
    BY <1>4, <1>5 DEF CallbacksFit

\* The rows of a run's BPP that the run stored stay as they are until the run is dirty.
LEMMA RowsKept ==
    ASSUME TypeOK, CallbacksFit, [Next]_vars, NEW r \in StartedRuns, r \notin dirty',
           NEW j \in JobsOf(r[2])
    PROVE  /\ j \in active /\ lastTxn[j] = r[1] => j \in active' /\ lastTxn'[j] = r[1]
           /\ j \in active' => \/ j \in active
                               \/ \E h \in Handler : /\ pc[h] = "store" /\ msg[h].run = r
                                                     /\ j \in msg[h].jobs
           /\ lastTxn'[j] = r[1] => \/ lastTxn[j] = r[1]
                                    \/ \E h \in Handler : /\ pc[h] = "store" /\ msg[h].run = r
                                                          /\ j \in msg[h].jobs
<1>1. r \in Run /\ r \notin dirty /\ r = <<r[1], r[2]>> /\ j \in Job /\ Home[j] = r[2]
    BY ListingKept DEF StartedRuns, Run, JobsOf
<1>2. ASSUME NEW q \in Run, q[2] = r[2], r \notin OtherRuns(q)
      PROVE  q = r
    BY <1>2 DEF OtherRuns, StartedRuns
<1>3. ASSUME NEW h \in Handler, StoreJobs(h)
      PROVE  /\ j \in active /\ lastTxn[j] = r[1] => j \in active' /\ lastTxn'[j] = r[1]
             /\ j \in active' => j \in active \/ (msg[h].run = r /\ j \in msg[h].jobs)
             /\ lastTxn'[j] = r[1] => lastTxn[j] = r[1] \/ (msg[h].run = r /\ j \in msg[h].jobs)
  <2>1. /\ pc[h] = "store" /\ active' = active \cup msg[h].jobs
        /\ lastTxn' = [i \in Job |-> IF i \in msg[h].jobs THEN msg[h].run[1] ELSE lastTxn[i]]
        /\ r \notin OtherRuns(msg[h].run)
      BY <1>3 DEF StoreJobs, Goto
  <2>2. msg[h].run \in Run /\ msg[h].jobs \subseteq JobsOf(msg[h].run[2])
      BY <2>1, RunningHandler DEF CallbacksFit, Fits
  <2>3. j \in msg[h].jobs => msg[h].run = r
      BY <1>1, <1>2, <2>1, <2>2 DEF JobsOf
  <2> QED
      BY <1>1, <2>1, <2>3
<1>4. ASSUME NEW h \in Handler, Deactivate(h)
      PROVE  /\ j \in active /\ lastTxn[j] = r[1] => j \in active' /\ lastTxn'[j] = r[1]
             /\ j \in active' => j \in active
             /\ lastTxn'[j] = lastTxn[j]
  <2>1. /\ pc[h] = "deactivate" /\ lastTxn' = lastTxn
        /\ \/ active' = active \ StaleJobs(msg[h].run) /\ r \notin OtherRuns(msg[h].run)
           \/ active' = active
      BY <1>4 DEF Deactivate, Goto
  <2>2. msg[h].run \in Run
      BY <2>1, RunningHandler
  <2>3. r \notin OtherRuns(msg[h].run) /\ j \in StaleJobs(msg[h].run) => lastTxn[j] # r[1]
      BY <1>1, <1>2, <2>2 DEF StaleJobs, JobsOf
  <2> QED
      BY <2>1, <2>3
<1>5. CASE UNCHANGED <<active, lastTxn>>
    BY <1>5
<1> QED
  <2>1. CASE \E h \in Handler : StoreJobs(h)
    <3>1. PICK h \in Handler : StoreJobs(h)
        BY <2>1
    <3>2. pc[h] = "store"
        BY <3>1 DEF StoreJobs, Goto
    <3> QED
        BY <1>3, <3>1, <3>2
  <2> QED
      BY <1>4, <1>5, <2>1, TableSteps DEF ChangeCatalogue, tableVars

\* A page in the table stays there until its run is dirty.
LEMMA InTableKept ==
    ASSUME TypeOK, CallbacksFit, [Next]_vars, NEW r \in StartedRuns, r \notin dirty',
           NEW p, InTable(r, p)
    PROVE  InTable(r, p)'
<1>1. PageOf(Listing(r[2]), p)' = PageOf(Listing(r[2]), p)
  <2>1. Listing(r[2])' = Listing(r[2])
      BY ListingKept
  <2> QED
      BY <2>1 DEF PageOf, PageNo, TotalPages
<1>2. PageOf(Listing(r[2]), p) \subseteq JobsOf(r[2])
    BY DEF PageOf, Listing
<1> QED
    BY <1>1, <1>2, RowsKept DEF InTable

\* The actions that record a page, or are about to.
LEMMA RecordSteps ==
    ASSUME TypeOK, [Next]_vars
    PROVE  /\ \A r \in Run : \A p \in seen'[r] :
                \/ p \in seen[r]
                \/ \E h \in Handler : /\ pc[h] = "record"
                                      /\ msg[h].run = r /\ msg[h].page = p
           /\ \A h \in Handler : pc'[h] = "record" =>
                \/ pc[h] = "record" /\ msg'[h] = msg[h]
                \/ StoreJobs(h) \/ StoreFails(h)
<1>1. CASE StartRefresh \/ UNCHANGED vars
    BY <1>1 DEF StartRefresh, vars, procVars, ghostVars
<1>2. CASE \/ \E s \in asked : Answer(s) \/ LoseSearch(s)
           \/ \E m \in net : LoseCallback(m)
           \/ \E r \in Run : ExpireKeys(r)
           \/ \E j \in Job : ChangeCatalogue(j)
    BY <1>2 DEF Answer, LoseSearch, LoseCallback, ExpireKeys, ChangeCatalogue, procVars, ghostVars
<1>3. CASE \E h \in Handler, m \in net : Receive(h, m)
    BY <1>3 DEF TypeOK, Receive, ghostVars
<1>4. CASE \E h \in Handler : StoreJobs(h) \/ StoreFails(h)
    BY <1>4 DEF TypeOK, StoreJobs, StoreFails, Goto
<1>5. CASE \E h \in Handler : RecordPage(h)
    BY <1>5 DEF TypeOK, RecordPage, Goto
<1>6. CASE \E h \in Handler : \/ \E last \in received[msg[h].run] : ReadPages(h, last)
                              \/ \E last \in got[h] : Trigger(h, last) \/ SendNext(h, last)
  <2>1. UNCHANGED seen
      BY <1>6 DEF ReadPages, Trigger, SendNext, ghostVars
  <2>2. PICK h \in Handler : \E to : Goto(h, pc[h], to) /\ to # "record"
      BY <1>6 DEF ReadPages, Trigger, SendNext, Goto, AfterPaging
  <2> QED
      BY <2>1, <2>2 DEF TypeOK, Goto
<1>7. CASE \E h \in Handler : \/ Deactivate(h) \/ \E j \in Job : Purge(h, j)
                              \/ Finish(h) \/ HandlerStops(h)
    BY <1>7 DEF TypeOK, Deactivate, Purge, Finish, HandlerStops, Goto, ghostVars
<1> QED
    BY <1>1, <1>2, <1>3, <1>4, <1>5, <1>6, <1>7 DEF Next, HandlerStep

\* Every step keeps the recorded pages of clean runs in the table.
LEMMA PagesInTableStep ==
    ASSUME TypeOK, AllPosted, CallbacksFit, PagesInTable, [Next]_vars
    PROVE  PagesInTable'
<1>1. \A r \in Run : r \notin dirty' => r \notin dirty
    BY PostedSteps
<1>2. ASSUME NEW h \in Handler, pc[h] # "idle"
      PROVE  msg[h].run \in StartedRuns
    BY <1>2, RunningHandler DEF AllPosted, Posted, StartedRuns
<1>3. ASSUME NEW r \in Run, r \notin dirty', NEW p \in seen'[r]
      PROVE  InTable(r, p)'
  <2>1. InTable(r, p)
      BY <1>1, <1>3, RecordSteps DEF PagesInTable
  <2>2. r \in StartedRuns
    <3>1. CASE p \in seen[r]
        BY <3>1 DEF AllPosted, Posted, StartedRuns
    <3> QED
        BY <1>2, <1>3, <3>1, RecordSteps
  <2> QED
      BY <1>3, <2>1, <2>2, InTableKept
<1>4. ASSUME NEW h \in Handler, pc'[h] = "record", msg'[h].run \notin dirty'
      PROVE  InTable(msg[h].run, msg[h].page)'
  <2>1. CASE pc[h] = "record" /\ msg'[h] = msg[h]
    <3>1. InTable(msg[h].run, msg[h].page) /\ msg[h].run \in StartedRuns
        BY <1>1, <1>2, <1>4, <2>1, RunningHandler DEF PagesInTable
    <3> DEFINE r == msg[h].run
               p == msg[h].page
    <3>2. PICK q \in StartedRuns : q = msg[h].run
        BY <3>1
    <3>3. PICK k : k = msg[h].page
        OBVIOUS
    <3>4. InTable(q, k)'
        BY <1>4, <2>1, <3>1, <3>2, <3>3, InTableKept
    <3> QED
        BY <2>1, <3>2, <3>3, <3>4 DEF InTable
  <2>2. CASE StoreFails(h)
    <3>1. msg[h].run \in dirty'
        BY <2>2 DEF StoreFails
    <3>2. msg'[h] = msg[h]
        BY <1>4, <2>2 DEF StoreFails, Goto, TypeOK
    <3> QED
        BY <1>4, <3>1, <3>2
  <2>3. CASE StoreJobs(h)
    <3>1. /\ pc[h] = "store" /\ msg'[h] = msg[h] /\ UNCHANGED open
          /\ active' = active \cup msg[h].jobs
          /\ lastTxn' = [j \in Job |-> IF j \in msg[h].jobs THEN msg[h].run[1] ELSE lastTxn[j]]
        BY <1>4, <2>3 DEF StoreJobs, Goto, TypeOK, bppVars
    <3>2. /\ msg[h].jobs = PageOf(Listing(msg[h].run[2]), msg[h].page)
          /\ msg[h].jobs \subseteq Job
        BY <1>1, <1>4, <3>1, RunningHandler DEF CallbacksFit, Fits
    <3>3. \A j \in PageOf(Listing(msg[h].run[2]), msg[h].page) :
              j \in active' /\ lastTxn'[j] = msg[h].run[1]
        BY <3>1, <3>2
    <3>4. PageOf(Listing(msg[h].run[2]), msg[h].page)' = PageOf(Listing(msg[h].run[2]), msg[h].page)
        BY <3>1 DEF PageOf, PageNo, TotalPages, Listing, JobsOf
    <3> QED
        BY <3>1, <3>3, <3>4 DEF InTable
  <2> QED
      BY <1>4, <2>1, <2>2, <2>3, RecordSteps
<1> QED
    BY <1>3, <1>4 DEF PagesInTable

\* The actions that change what a handler has to take out.
LEMMA PurgeSteps ==
    ASSUME TypeOK, StaleIsOut, [Next]_vars, NEW h \in Handler
    PROVE  /\ pc'[h] # "purge" => stale'[h] = {}
           /\ pc'[h] = "purge" => \/ /\ pc[h] = "purge" /\ msg'[h] = msg[h]
                                     /\ stale'[h] \subseteq stale[h]
                                  \/ Deactivate(h)
<1>1. pc[h] # "purge" => stale[h] = {}
    BY DEF StaleIsOut
<1>2. CASE UNCHANGED <<pc[h], msg[h], stale[h]>>
    BY <1>1, <1>2
<1>3. CASE \/ StartRefresh \/ UNCHANGED vars
           \/ \E s \in asked : Answer(s) \/ LoseSearch(s)
           \/ \E m \in net : LoseCallback(m)
           \/ \E r \in Run : ExpireKeys(r)
           \/ \E j \in Job : ChangeCatalogue(j)
    BY <1>2, <1>3 DEF StartRefresh, Answer, LoseSearch, LoseCallback, ExpireKeys, ChangeCatalogue,
       vars, procVars
<1>4. ASSUME NEW k \in Handler, NEW m \in net, Receive(k, m)
      PROVE  /\ pc'[h] # "purge" => stale'[h] = {}
             /\ pc'[h] = "purge" => pc[h] = "purge" /\ msg'[h] = msg[h] /\ stale'[h] = stale[h]
    BY <1>1, <1>4 DEF Receive, TypeOK
<1>5. ASSUME NEW k \in Handler,
             \/ StoreJobs(k) \/ StoreFails(k) \/ RecordPage(k)
             \/ \E last \in received[msg[k].run] : ReadPages(k, last)
             \/ \E last \in got[k] : Trigger(k, last) \/ SendNext(k, last)
      PROVE  /\ pc'[h] # "purge" => stale'[h] = {}
             /\ pc'[h] = "purge" => pc[h] = "purge" /\ msg'[h] = msg[h] /\ stale'[h] = stale[h]
  <2>1. PICK to : Goto(k, pc[k], to) /\ pc[k] # "purge" /\ to # "purge" /\ UNCHANGED stale
      BY <1>5 DEF StoreJobs, StoreFails, RecordPage, ReadPages, Trigger, SendNext, AfterStore,
         AfterPaging, Goto
  <2> QED
      BY <1>1, <2>1 DEF TypeOK, Goto
<1>6. ASSUME NEW k \in Handler, Deactivate(k)
      PROVE  /\ pc'[h] # "purge" => stale'[h] = {}
             /\ pc'[h] = "purge" => h = k \/ (pc[h] = "purge" /\ msg'[h] = msg[h] /\ stale'[h] = stale[h])
    BY <1>1, <1>6 DEF Deactivate, Goto, TypeOK
<1>7. ASSUME NEW k \in Handler, Finish(k) \/ HandlerStops(k) \/ \E j \in Job : Purge(k, j)
      PROVE  /\ pc'[h] # "purge" => stale'[h] = {}
             /\ pc'[h] = "purge" => pc[h] = "purge" /\ msg'[h] = msg[h] /\ stale'[h] \subseteq stale[h]
    BY <1>1, <1>7 DEF Finish, HandlerStops, Purge, Goto, TypeOK
<1> QED
    BY <1>3, <1>4, <1>5, <1>6, <1>7 DEF Next, HandlerStep

\* Every step keeps what handlers have to take out neither listed nor active.
LEMMA StaleIsOutStep ==
    ASSUME TypeOK, PagesInOrder, AllPosted, CallbacksFit, PagesInTable, StaleIsOut, [Next]_vars
    PROVE  StaleIsOut'
<1>1. ASSUME NEW h \in Handler, pc'[h] = "purge", msg'[h].run \notin dirty',
             NEW r, r = msg'[h].run
      PROVE  stale'[h] \subseteq JobsOf(r[2]) \ (Listing(r[2])' \cup active')
  <2>1. CASE pc[h] = "purge" /\ msg'[h] = msg[h] /\ stale'[h] \subseteq stale[h]
    <3>1. r \in StartedRuns /\ r = msg[h].run
        BY <1>1, <2>1, RunningHandler DEF AllPosted, Posted, StartedRuns
    <3>2. r \notin dirty /\ Listing(r[2])' = Listing(r[2])
        BY <1>1, <3>1, ListingKept
    <3>3. stale[h] \subseteq JobsOf(r[2]) \ (Listing(r[2]) \cup active)
        BY <2>1, <3>1, <3>2 DEF StaleIsOut
    <3>4. ASSUME NEW k \in Handler, pc[k] = "store", msg[k].run = r
          PROVE  msg[k].jobs \subseteq Listing(r[2])
        BY <3>2, <3>4 DEF CallbacksFit, Fits, PageOf
    <3>5. \A j \in stale[h] : j \notin active'
        BY <1>1, <3>1, <3>3, <3>4, RowsKept
    <3> QED
        BY <2>1, <3>2, <3>3, <3>5
  <2>2. CASE Deactivate(h)
    <3>1. pc[h] = "deactivate" /\ r = msg[h].run /\ UNCHANGED open
        BY <1>1, <2>2 DEF Deactivate, Goto, bppVars
    <3>2. r \in StartedRuns /\ r \in Run
        BY <3>1, RunningHandler DEF AllPosted, Posted, StartedRuns
    <3>3. r \notin dirty /\ Listing(r[2])' = Listing(r[2])
        BY <1>1, <3>2, ListingKept
    <3>4. CASE UNCHANGED stale
        BY <3>1, <3>4 DEF StaleIsOut
    <3>5. CASE /\ active' = active \ StaleJobs(r)
               /\ stale' = [stale EXCEPT ![h] = StaleJobs(r)]
      <4>1. 1..Pages(r) \subseteq seen[r]
        <5>1. 1..TotalPages(msg[h].total) \subseteq seen[r]
            BY <3>1, CleanUpSeesPages DEF CleanUpSeesEveryPage
        <5> QED
            BY <3>1, <3>3, <5>1 DEF CallbacksFit, Fits, Pages
      <4>2. \A j \in Listing(r[2]) : j \in active /\ lastTxn[j] = r[1]
          BY <3>2, <3>3, <4>1, WholeListing DEF PagesInTable
      <4>3. StaleJobs(r) \subseteq JobsOf(r[2]) \ Listing(r[2])
          BY <4>2 DEF StaleJobs
      <4>4. stale'[h] = StaleJobs(r)
          BY <3>5 DEF TypeOK
      <4> QED
          BY <3>3, <3>5, <4>3, <4>4
    <3> QED
        BY <2>2, <3>1, <3>4, <3>5 DEF Deactivate
  <2> QED
      BY <1>1, <2>1, <2>2, PurgeSteps
<1>2. \A h \in Handler : pc'[h] # "purge" => stale'[h] = {}
    BY PurgeSteps
<1> QED
    BY <1>1, <1>2 DEF StaleIsOut, JobsOf

\* It holds at first.
LEMMA RowsInvInit == Init => RowsInv
BY DEF Init, RowsInv, AllPosted, CallbacksFit, PagesInTable, StaleIsOut

\* What is under way, in the table and to be taken out is as RowsInv says: at all times,
\* however refreshes overlap, callbacks are lost or doubled and handlers stop.
THEOREM RowsAlways == Spec => []RowsInv
<1>1. TypeOK /\ PagesInOrder /\ RowsInv /\ [Next]_vars => RowsInv'
    BY AllPostedStep, CallbacksFitStep, PagesInTableStep, StaleIsOutStep DEF RowsInv
<1> QED
    BY <1>1, RowsInvInit, TypeCorrect, PagesAlwaysInOrder, PTL DEF Spec

\* However handlers and refreshes overlap, a handler takes no vector of a job out
\* of the index that has become active again since its UPDATE, unless its run is dirty.
THEOREM NoActiveJobPurged == Spec => []PurgeSparesActiveJobs
<1>1. RowsInv => PurgeSparesActiveJobs
    BY DEF RowsInv, StaleIsOut, PurgeSparesActiveJobs
<1> QED
    BY <1>1, RowsAlways, PTL

-----------------------------------------------------------------------------
(* The chain of pages of a run that goes well *)

\* No page of a refresh before it started, and every keys' end is a fault.
LEMMA KeySteps ==
    ASSUME TypeOK, [Next]_vars
    PROVE  /\ \A r \in Run : faults[r] <= faults'[r]
           /\ \A r \in Run : \/ UNCHANGED <<received[r], seen[r]>>
                             \/ ExpireKeys(r)
                             \/ \E h \in Handler : RecordPage(h) /\ msg[h].run = r
           /\ \A r \in Run : r \in expired' => r \in expired \/ ExpireKeys(r)
           /\ expired \subseteq expired'
           /\ \A r \in Run : \/ triggered'[r] \subseteq triggered[r]
                             \/ \E h \in Handler : pc[h] = "trigger" /\ msg[h].run = r
<1>0. \A r \in Run : faults[r] \in Nat
    BY DEF TypeOK
<1>1. CASE StartRefresh \/ UNCHANGED vars
    BY <1>0, <1>1 DEF StartRefresh, vars, redisVars, ghostVars
<1>2. CASE \E s \in asked : Answer(s)
    BY <1>0, <1>2 DEF Answer, redisVars, ghostVars
<1>3. ASSUME NEW q \in Run, Fault(q)
      PROVE  \A r \in Run : faults[r] <= faults'[r]
    BY <1>0, <1>3 DEF Fault, TypeOK
<1>4. CASE \E s \in asked : LoseSearch(s)
    BY <1>3, <1>4 DEF LoseSearch, redisVars, TypeOK, Search
<1>5. CASE \E m \in net : LoseCallback(m)
    BY <1>3, <1>5 DEF LoseCallback, redisVars, TypeOK, OnSearch
<1>6. CASE \E j \in Job : ChangeCatalogue(j)
    BY <1>0, <1>6 DEF ChangeCatalogue, redisVars
<1>7. CASE \E r \in Run : ExpireKeys(r)
  <2>1. PICK q \in Run : ExpireKeys(q)
      BY <1>7
  <2>2. \A r \in Run : faults[r] <= faults'[r]
      BY <1>3, <2>1 DEF ExpireKeys
  <2>3. \A r \in Run \ {q} : UNCHANGED <<received[r], seen[r], triggered[r]>>
      BY <2>1 DEF ExpireKeys, TypeOK
  <2>4. expired' = expired \cup {q} /\ triggered'[q] = {}
      BY <2>1 DEF ExpireKeys, TypeOK
  <2> QED
      BY <2>1, <2>2, <2>3, <2>4
<1>8. CASE \E h \in Handler, m \in net : Receive(h, m)
    BY <1>0, <1>8 DEF Receive, redisVars, ghostVars
<1>9. ASSUME NEW h \in Handler, pc[h] # "idle"
      PROVE  msg[h].run \in Run
    BY <1>9, RunningHandler
<1>10. CASE \E h \in Handler : StoreJobs(h) \/ StoreFails(h) \/ Deactivate(h)
    BY <1>0, <1>3, <1>9, <1>10 DEF StoreJobs, StoreFails, Deactivate, Goto, redisVars
<1>11. ASSUME NEW h \in Handler, RecordPage(h)
       PROVE  /\ UNCHANGED <<faults, triggered, expired>>
              /\ \A r \in Run : r # msg[h].run => UNCHANGED <<received[r], seen[r]>>
    BY <1>11 DEF RecordPage, TypeOK
<1>12. CASE \E h \in Handler : \E last \in received[msg[h].run] : ReadPages(h, last)
    BY <1>0, <1>12 DEF ReadPages, redisVars, ghostVars
<1>13. ASSUME NEW h \in Handler, NEW last \in got[h], Trigger(h, last)
       PROVE  /\ UNCHANGED <<faults, received, seen, expired>> /\ pc[h] = "trigger"
              /\ \A r \in Run : r # msg[h].run => triggered'[r] = triggered[r]
    BY <1>13 DEF Trigger, Goto, ghostVars, TypeOK
<1>14. CASE \E h \in Handler : \E last \in got[h] : SendNext(h, last)
    BY <1>0, <1>3, <1>9, <1>14 DEF SendNext, Goto, redisVars
<1>15. CASE \E h \in Handler : \/ \E j \in Job : Purge(h, j)
                               \/ Finish(h) \/ HandlerStops(h)
    BY <1>0, <1>3, <1>9, <1>15 DEF Purge, Finish, HandlerStops, redisVars, ghostVars
<1>16. CASE \E h \in Handler : RecordPage(h)
    BY <1>0, <1>11, <1>16
<1>17. CASE \E h \in Handler : \E last \in got[h] : Trigger(h, last)
    BY <1>0, <1>13, <1>17
<1> QED
    BY <1>1, <1>2, <1>4, <1>5, <1>6, <1>7, <1>8, <1>10, <1>12, <1>14, <1>15, <1>16, <1>17
       DEF Next, HandlerStep

\* Only a refresh that starts moves the number of refreshes.
LEMMA StartedSteps ==
    ASSUME [Next]_vars
    PROVE  started' = started \/ StartRefresh
<1>1. CASE \/ UNCHANGED vars
           \/ \E s \in asked : Answer(s) \/ LoseSearch(s)
           \/ \E m \in net : LoseCallback(m)
           \/ \E r \in Run : ExpireKeys(r)
           \/ \E j \in Job : ChangeCatalogue(j)
           \/ \E h \in Handler, m \in net : Receive(h, m)
    BY <1>1 DEF Answer, LoseSearch, LoseCallback, ExpireKeys, ChangeCatalogue, Receive, vars
<1>2. CASE \E h \in Handler : \/ StoreJobs(h) \/ StoreFails(h) \/ RecordPage(h) \/ Deactivate(h)
                              \/ \E last \in received[msg[h].run] : ReadPages(h, last)
                              \/ \E last \in got[h] : Trigger(h, last) \/ SendNext(h, last)
                              \/ \E j \in Job : Purge(h, j)
                              \/ Finish(h) \/ HandlerStops(h)
    BY <1>2 DEF StoreJobs, StoreFails, RecordPage, Deactivate, ReadPages, Trigger, SendNext, Purge,
       Finish, HandlerStops
<1> QED
    BY <1>1, <1>2 DEF Next, HandlerStep

\* Every step keeps the Redis set of a run what its handlers recorded.
LEMMA KeysTrueStep ==
    ASSUME TypeOK, TypeOK', AllPosted, KeysTrue, [Next]_vars
    PROVE  KeysTrue'
<1>1. \A r \in Run : faults[r] \in Nat /\ faults'[r] \in Nat /\ faults[r] <= faults'[r]
    BY KeySteps DEF TypeOK
<1>2. ASSUME NEW r \in Run
      PROVE  IF r \in expired' THEN faults'[r] # 0 ELSE received'[r] = seen'[r]
  <2>1. CASE ExpireKeys(r)
      BY <1>1, <2>1 DEF ExpireKeys, Fault, TypeOK
  <2>2. CASE r \in expired
      BY <1>1, <2>2, KeySteps DEF KeysTrue
  <2>3. CASE r \notin expired /\ ~ExpireKeys(r)
    <3>1. received[r] = seen[r] /\ r \notin expired'
        BY <2>3, KeySteps DEF KeysTrue
    <3>2. ASSUME NEW h \in Handler, RecordPage(h), msg[h].run = r
          PROVE  received'[r] = seen'[r]
        BY <3>1, <3>2 DEF RecordPage, TypeOK
    <3> QED
        BY <2>3, <3>1, <3>2, KeySteps
  <2> QED
      BY <2>1, <2>2, <2>3
<1>3. ASSUME NEW r \in Run \ StartedRuns'
      PROVE  triggered'[r] = {}
  <2>1. started <= started' /\ started \in Nat /\ started' \in Nat /\ r[1] \in Nat
      BY PostedSteps DEF TypeOK, Run, Txn
  <2>2. r \notin StartedRuns
      BY <2>1 DEF StartedRuns
  <2>3. \A h \in Handler : pc[h] # "idle" => msg[h].run \in StartedRuns
      BY RunningHandler DEF AllPosted, Posted, StartedRuns
  <2> QED
      BY <2>2, <2>3, KeySteps DEF KeysTrue
<1> QED
    BY <1>2, <1>3 DEF KeysTrue

\* Every step keeps the rows that carry a clean run's transaction id listed.
LEMMA RowsTaggedStep ==
    ASSUME TypeOK, TypeOK', AllPosted, CallbacksFit, RowsTagged, [Next]_vars
    PROVE  RowsTagged'
<1>1. started <= started' /\ started \in Nat /\ started' \in Nat
    BY PostedSteps DEF TypeOK
<1>2. \A j \in Job : lastTxn[j] \in Nat /\ lastTxn[j] <= started
    BY DEF RowsTagged, TypeOK
<1>3. \A h \in Handler : pc[h] # "idle" => msg[h].run \in StartedRuns
    BY RunningHandler DEF AllPosted, Posted, StartedRuns
<1>4. \A j \in Job : lastTxn'[j] <= started'
  <2>1. CASE UNCHANGED lastTxn
      BY <1>1, <1>2, <2>1
  <2>2. ASSUME NEW h \in Handler, StoreJobs(h)
        PROVE  \A j \in Job : lastTxn'[j] <= started'
    <3>1. /\ lastTxn' = [j \in Job |-> IF j \in msg[h].jobs THEN msg[h].run[1] ELSE lastTxn[j]]
          /\ started' = started /\ msg[h].run[1] <= started
        BY <1>3, <2>2 DEF StoreJobs, Goto, StartedRuns
    <3> QED
        BY <1>2, <3>1
  <2> QED
      BY <2>1, <2>2, TableSteps DEF Deactivate, ChangeCatalogue, tableVars
<1>5. ASSUME NEW r \in StartedRuns' \ dirty', NEW j \in JobsOf(r[2]), lastTxn'[j] = r[1]
      PROVE  j \in Listing(r[2])'
  <2>1. r \in Run /\ r[1] \in Nat /\ j \in Job
      BY DEF StartedRuns, Run, Txn, JobsOf
  <2>2. CASE r \in StartedRuns
    <3>1. r \notin dirty /\ Listing(r[2])' = Listing(r[2])
        BY <2>2, ListingKept
    <3>2. ASSUME NEW h \in Handler, pc[h] = "store", msg[h].run = r, j \in msg[h].jobs
          PROVE  j \in Listing(r[2])
        BY <3>1, <3>2 DEF CallbacksFit, Fits, PageOf
    <3> QED
        BY <1>5, <2>2, <3>1, <3>2, RowsKept DEF RowsTagged
  <2>3. CASE r \notin StartedRuns
    <3>1. started < r[1]
        BY <1>1, <2>1, <2>3 DEF StartedRuns
    <3>2. started' # started
        BY <1>1, <2>1, <3>1 DEF StartedRuns
    <3>3. StartRefresh
        BY <3>2, StartedSteps
    <3>4. lastTxn' = lastTxn
        BY <3>3 DEF StartRefresh, tableVars
    <3> QED
        BY <1>1, <1>2, <1>5, <2>1, <3>1, <3>4
  <2> QED
      BY <2>2, <2>3
<1> QED
    BY <1>4, <1>5 DEF RowsTagged, JobsOf

\* What is known of every reachable state before the chains are looked at.
Known ==
    TypeOK /\ PagesInOrder /\ TriggersHeld /\ RowsInv /\ KeysTrue /\ RowsTagged

\* A BPP that lists a job has a page to ask for.
LEMMA SomePage ==
    ASSUME NEW r \in Run, Listing(r[2]) # {}
    PROVE  Pages(r) \in Nat /\ 1 <= Pages(r)
<1>1. PICK j : j \in Listing(r[2])
    OBVIOUS
<1>2. r[2] \in Bpp /\ Listing(r[2]) \in SUBSET Job
    BY DEF Run, Listing, JobsOf
<1>3. Cardinality(Listing(r[2])) \in Nat /\ PageNo(Listing(r[2]), j) \in 1..Pages(r)
    BY <1>1, <1>2, ListingFinite, ListedOnSomePage DEF Pages
<1>4. Pages(r) \in Nat
    BY <1>3, TotalPagesType DEF Pages
<1> QED
    BY <1>3, <1>4

\* A run that goes well has its keys, at least one page, and handlers that agree
\* on how many pages there are.
LEMMA WellRun ==
    ASSUME Known, NEW r \in Run, GoesWell(r)
    PROVE  /\ r \notin expired /\ received[r] = seen[r]
           /\ Pages(r) \in Nat /\ 1 <= Pages(r)
           /\ seen[r] \in SUBSET Nat /\ NoHole(seen[r])
           /\ IsFiniteSet(seen[r]) /\ triggered[r] \in SUBSET Nat
           /\ \A p \in seen[r] : Posted(r, p) /\ (p = 1 \/ p \in triggered[r])
           /\ \A h \in Handler : pc[h] # "idle" /\ msg[h].run = r =>
                msg[h].total # 0 /\ TotalPages(msg[h].total) = Pages(r)
<1>1. r \notin expired /\ received[r] = seen[r]
    BY DEF Known, KeysTrue, GoesWell
<1>2. Pages(r) \in Nat /\ 1 <= Pages(r)
    BY SomePage DEF GoesWell
<1>3. seen[r] \in SUBSET Nat /\ NoHole(seen[r]) /\ IsFiniteSet(seen[r]) /\ triggered[r] \in SUBSET Nat
    BY <1>1 DEF Known, TypeOK, PagesInOrder
<1>4. ASSUME NEW p \in seen[r]
      PROVE  Posted(r, p) /\ (p = 1 \/ p \in triggered[r])
  <2>1. [run |-> r, page |-> p] \in posted
      BY DEF Known, RowsInv, AllPosted, Posted
  <2> QED
      BY <1>1, <2>1 DEF Known, TriggersHeld, Posted
<1>5. ASSUME NEW h \in Handler, pc[h] # "idle", msg[h].run = r
      PROVE  msg[h].total # 0 /\ TotalPages(msg[h].total) = Pages(r)
  <2>1. msg[h].total = Cardinality(Listing(r[2]))
      BY <1>5 DEF Known, RowsInv, CallbacksFit, Fits, GoesWell
  <2>2. Listing(r[2]) # {} /\ IsFiniteSet(Listing(r[2]))
      BY ListingFinite DEF GoesWell, Run
  <2> QED
      BY <2>1, <2>2, FS_EmptySet DEF Pages
<1> QED
    BY <1>1, <1>2, <1>3, <1>4, <1>5

\* A run that goes well after a step went well before, unless the step started it.
LEMMA WellKept ==
    ASSUME Known, [Next]_vars, NEW r \in StartedRuns, GoesWell(r)'
    PROVE  /\ GoesWell(r) /\ UNCHANGED <<Listing(r[2]), Pages(r), faults[r]>>
           /\ r \in Run /\ r \notin dirty' /\ faults'[r] = 0
<1>1. r \in Run /\ r \notin dirty' /\ faults'[r] = 0 /\ Listing(r[2])' # {}
    BY DEF GoesWell, StartedRuns
<1>2. UNCHANGED <<Listing(r[2]), Pages(r)>> /\ r \notin dirty
    BY <1>1, ListingKept DEF Known
<1>3. faults[r] = 0
    BY <1>1, KeySteps DEF Known, TypeOK
<1> QED
    BY <1>1, <1>2, <1>3 DEF GoesWell

\* What the clean-up of a run achieved stays, as long as the run goes well.
LEMMA InSyncKept ==
    ASSUME Known, [Next]_vars, NEW r \in StartedRuns, GoesWell(r)', Pages(r) \in seen[r], InSync(r[2])
    PROVE  InSync(r[2])'
<1>1. GoesWell(r) /\ Listing(r[2])' = Listing(r[2]) /\ r \notin dirty' /\ r \notin dirty /\ r \in Run
    BY WellKept DEF GoesWell
<1>2. 1..Pages(r) \subseteq seen[r]
    BY <1>1, WellRun DEF NoHole
<1>3. \A j \in Listing(r[2]) : j \in active /\ lastTxn[j] = r[1]
    BY <1>1, <1>2, WholeListing DEF Known, RowsInv, PagesInTable
<1>4. ASSUME NEW h \in Handler, pc[h] = "store", msg[h].run = r
      PROVE  msg[h].jobs \subseteq Listing(r[2])
    BY <1>1, <1>4 DEF Known, RowsInv, CallbacksFit, Fits, PageOf
<1>5. Listing(r[2]) \subseteq JobsOf(r[2]) /\ active \cap JobsOf(r[2]) = Listing(r[2])
    BY DEF Listing, InSync
<1>6. \A j \in JobsOf(r[2]) : j \in active' <=> j \in Listing(r[2])
    BY <1>1, <1>3, <1>4, <1>5, RowsKept DEF Known, RowsInv
<1>7. JobsOf(r[2])' = JobsOf(r[2])
    BY DEF JobsOf
<1> QED
    BY <1>1, <1>5, <1>6, <1>7 DEF InSync

\* Where a handler stands between recording its page and the end of the clean-up's
\* statement.
Deciding == {"read", "trigger", "send", "deactivate"}

\* A step in which no handler of the run decides anything keeps its chain.
LEMMA ChainFrame ==
    ASSUME Known, [Next]_vars, NEW r \in StartedRuns, GoesWell(r)', Chain(r),
           UNCHANGED <<triggered[r], seen[r]>>,
           \A s \in posted' : s.run = r => s \in posted,
           \A s \in asked : s.run = r =>
               s \in asked' \/ \E m \in net' : m.run = r /\ m.page = s.page,
           \A m \in net : m.run = r =>
               \/ m \in net'
               \/ \E h \in Handler : At(h, r, {"store", "record"})' /\ msg'[h].page = m.page,
           \A h \in Handler :
               \/ UNCHANGED <<pc[h], msg[h], got[h]>>
               \/ /\ ~At(h, r, Deciding) /\ ~At(h, r, Deciding)'
                  /\ At(h, r, {"store", "record"}) =>
                       At(h, r, {"store", "record"})' /\ msg'[h].page = msg[h].page
    PROVE  Chain(r)'
<1>1. Pages(r)' = Pages(r)
    BY WellKept
<1>2. ASSUME NEW h \in Handler, NEW P \in SUBSET Deciding
      PROVE  /\ At(h, r, P) => At(h, r, P)' /\ got'[h] = got[h]
             /\ At(h, r, P)' => At(h, r, P) /\ got'[h] = got[h]
    BY <1>2 DEF At
<1>3. ASSUME NEW p, UnderWay(r, p)
      PROVE  UnderWay(r, p)'
  <2>1. CASE [run |-> r, page |-> p] \in asked
      BY <2>1 DEF UnderWay
  <2>2. CASE \E m \in net : m.run = r /\ m.page = p
      BY <2>2 DEF UnderWay
  <2>3. CASE \E h \in Handler : At(h, r, {"store", "record"}) /\ msg[h].page = p
      BY <2>3 DEF UnderWay, At
  <2>4. CASE \E h \in Handler : At(h, r, {"send"}) /\ IsLast(got[h], p - 1)
      BY <1>2, <2>4 DEF UnderWay, IsLast, Deciding
  <2> QED
      BY <1>3, <2>1, <2>2, <2>3, <2>4 DEF UnderWay
<1>4. NoPageLost(r)'
    BY <1>3 DEF Chain, NoPageLost
<1>5. NoPageBeyond(r)'
  <2>1. \A s \in posted' : s.run = r => s.page <= Pages(r)'
      BY <1>1 DEF Chain, NoPageBeyond
  <2>2. \A h \in Handler : At(h, r, {"trigger", "send"})' =>
            At(h, r, {"trigger", "send"}) /\ got'[h] = got[h]
      BY <1>2 DEF Deciding
  <2>3. \A h \in Handler : \A p \in got'[h] :
            At(h, r, {"trigger", "send"})' /\ IsLast(got'[h], p) => p + 1 <= Pages(r)'
      BY <1>1, <2>2 DEF Chain, NoPageBeyond
  <2> QED
      BY <2>1, <2>3 DEF NoPageBeyond, IsLast
<1>6. NextClaimed(r)'
  <2>1. \A h \in Handler : At(h, r, {"read"}) => At(h, r, {"read"})'
      BY <1>2 DEF Deciding
  <2>2. \A h \in Handler : At(h, r, {"trigger"}) => At(h, r, {"trigger"})' /\ got'[h] = got[h]
      BY <1>2 DEF Deciding
  <2>3. ASSUME NEW p \in seen[r], p < Pages(r)
        PROVE  \/ p + 1 \in triggered'[r]
               \/ \E h \in Handler : At(h, r, {"read"})'
               \/ \E h \in Handler : At(h, r, {"trigger"})' /\ IsLast(got'[h], p)
      BY <2>1, <2>2, <2>3 DEF Chain, NextClaimed
  <2> QED
      BY <1>1, <2>3 DEF NextClaimed, IsLast
<1>7. LastCleansUp(r)'
  <2>1. \A h \in Handler : At(h, r, {"read", "deactivate"}) => At(h, r, {"read", "deactivate"})'
      BY <1>2 DEF Deciding
  <2> QED
      BY <1>1, <2>1, InSyncKept DEF Chain, LastCleansUp
<1> QED
    BY <1>4, <1>5, <1>6, <1>7 DEF Chain

\* A refresh that starts asks for the first page.
LEMMA ChainStarts ==
    ASSUME Known, [Next]_vars, NEW r \in Run \ StartedRuns, GoesWell(r)'
    PROVE  Chain(r)'
<1>1. r \in StartedRuns' /\ started \in Nat /\ r[1] \in Txn /\ r[2] \in Bpp /\ r = <<r[1], r[2]>>
    BY DEF GoesWell, Known, TypeOK, Run
<1>2. StartRefresh
    BY <1>1, StartedSteps DEF StartedRuns
<1>3. started < r[1] /\ started' = started + 1 /\ r[1] = started + 1
    BY <1>1, <1>2 DEF StartRefresh, StartedRuns, Txn, Known, TypeOK
<1>4. \A s \in posted : s.run # r
    BY <1>1, <1>3 DEF Known, RowsInv, AllPosted
<1>5. \A h \in Handler : pc[h] # "idle" => msg[h].run # r
    BY <1>4 DEF Known, RowsInv, AllPosted, Posted
<1>6. seen'[r] = {} /\ triggered'[r] = {}
  <2>1. seen[r] = {}
      BY <1>4 DEF Known, RowsInv, AllPosted, Posted
  <2>2. triggered[r] = {}
      BY DEF Known, KeysTrue
  <2> QED
      BY <1>2, <2>1, <2>2 DEF StartRefresh, redisVars, ghostVars
<1>7. [run |-> r, page |-> 1] \in asked'
    BY <1>1, <1>2, <1>3 DEF StartRefresh
<1>8. NoPageLost(r)'
    BY <1>6, <1>7 DEF NoPageLost, UnderWay
<1>9. NoPageBeyond(r)'
  <2>1. \A s \in posted' : s.run = r => s.page = 1
      BY <1>2, <1>4 DEF StartRefresh
  <2>2. 1 <= Pages(r)'
    <3>1. Listing(r[2])' = Listing(r[2]) /\ Pages(r)' = Pages(r)
        BY <1>2 DEF StartRefresh, bppVars, Listing, JobsOf, Pages, TotalPages
    <3> QED
        BY <3>1, SomePage DEF GoesWell
  <2>3. \A h \in Handler : ~At(h, r, {"trigger", "send"})'
      BY <1>2, <1>5 DEF StartRefresh, procVars, At
  <2> QED
      BY <2>1, <2>2, <2>3 DEF NoPageBeyond
<1>10. NextClaimed(r)'
    BY <1>6 DEF NextClaimed
<1>11. LastCleansUp(r)'
    BY <1>6 DEF LastCleansUp
<1> QED
    BY <1>8, <1>9, <1>10, <1>11 DEF Chain

\* sadd: the page is recorded, and the handler has yet to decide.
LEMMA ChainRecords ==
    ASSUME Known, [Next]_vars, NEW r \in StartedRuns, GoesWell(r)', Chain(r),
           NEW k \in Handler, RecordPage(k), msg[k].run = r
    PROVE  Chain(r)'
<1>1. Pages(r)' = Pages(r) /\ r \in Run
    BY WellKept
<1>2. /\ pc[k] = "record" /\ pc'[k] = "read" /\ msg' = msg /\ got' = got
      /\ \A h \in Handler \ {k} : pc'[h] = pc[h]
      /\ UNCHANGED <<asked, net, posted, triggered>>
      /\ seen'[r] = seen[r] \cup {msg[k].page}
    BY <1>1 DEF RecordPage, Goto, Known, TypeOK, netVars
<1>3. At(k, r, {"read"})'
    BY <1>2 DEF At
<1>4. NoPageLost(r)'
  <2>1. ASSUME NEW p \in {1} \cup triggered[r], p \notin seen'[r]
        PROVE  UnderWay(r, p)'
    <3>1. UnderWay(r, p) /\ p # msg[k].page
        BY <1>2, <2>1 DEF Chain, NoPageLost
    <3> QED
        BY <1>2, <3>1 DEF UnderWay, At, IsLast
  <2> QED
      BY <1>2, <2>1 DEF NoPageLost
<1>5. NoPageBeyond(r)'
  <2>1. \A h \in Handler : At(h, r, {"trigger", "send"})' => At(h, r, {"trigger", "send"})
      BY <1>2 DEF At
  <2> QED
      BY <1>1, <1>2, <2>1 DEF Chain, NoPageBeyond, IsLast
<1>6. NextClaimed(r)' /\ LastCleansUp(r)'
  <2>1. At(k, r, {"read", "deactivate"})'
      BY <1>3 DEF At
  <2> QED
      BY <1>3, <2>1 DEF NextClaimed, LastCleansUp
<1> QED
    BY <1>4, <1>5, <1>6 DEF Chain

\* smembers: there is a next page to claim, or this handler cleans up.
LEMMA ChainReads ==
    ASSUME Known, [Next]_vars, NEW r \in StartedRuns, GoesWell(r)', Chain(r),
           NEW k \in Handler, NEW last \in received[msg[k].run], ReadPages(k, last), msg[k].run = r
    PROVE  Chain(r)'
<1>1. Pages(r)' = Pages(r) /\ r \in Run /\ GoesWell(r)
    BY WellKept
<1>2. /\ pc[k] = "read" /\ IsLast(seen[r], last)
      /\ \A h \in Handler \ {k} : UNCHANGED <<pc[h], msg[h], got[h]>>
      /\ UNCHANGED <<asked, net, posted, seen, triggered, active, open>>
    BY <1>1, WellRun DEF ReadPages, Goto, Known, TypeOK, netVars, redisVars, ghostVars, tableVars, bppVars
<1>3. /\ TotalPages(msg[k].total) = Pages(r) /\ Pages(r) \in Nat /\ 1 <= Pages(r)
      /\ seen[r] \in SUBSET Nat /\ NoHole(seen[r]) /\ last \in seen[r] /\ last \in Nat /\ last >= 1
      /\ \A p \in seen[r] : p = 1 \/ p \in triggered[r]
    BY <1>1, <1>2, WellRun DEF IsLast, NoHole
<1>4. last <= Pages(r)
  <2>1. Posted(r, last)
      BY <1>1, <1>3, WellRun
  <2> QED
      BY <2>1 DEF Posted, Chain, NoPageBeyond
<1>5. \A p \in seen[r] : p < last => p + 1 \in triggered[r]
  <2> SUFFICES ASSUME NEW p \in seen[r], p < last
               PROVE  p + 1 \in triggered[r]
      OBVIOUS
  <2>1. p \in Nat /\ p >= 1 /\ p + 1 \in 1..last
      BY <1>3 DEF NoHole
  <2>2. p + 1 \in seen[r]
      BY <1>3, <2>1 DEF NoHole
  <2> QED
      BY <1>3, <2>1, <2>2
<1>6. /\ pc'[k] = IF last + 1 <= Pages(r) THEN "trigger" ELSE AfterPaging(k, seen[r])
      /\ pc'[k] # "idle" => msg'[k] = msg[k] /\ got'[k] = seen[r]
    BY <1>1, <1>2, <1>3, WellRun DEF ReadPages, Goto, Known, TypeOK
<1>7. last = Pages(r) => AfterPaging(k, seen[r]) = "deactivate"
  <2> SUFFICES ASSUME last = Pages(r)
               PROVE  Cardinality(seen[r]) = Pages(r)
      BY <1>3 DEF AfterPaging
  <2>1. seen[r] = 1..Pages(r)
    <3>1. 1..last \subseteq seen[r]
        BY <1>3 DEF NoHole
    <3>2. \A q \in seen[r] : q \in Nat /\ q >= 1 /\ q <= last
        BY <1>2, <1>3 DEF NoHole, IsLast
    <3>3. \A q \in seen[r] : q \in 1..last
        BY <1>3, <3>2
    <3> QED
        BY <3>1, <3>3
  <2>2. Cardinality(1..Pages(r)) = Pages(r)
    <3>1. 1 \in Int /\ Pages(r) \in Int /\ ~(1 > Pages(r)) /\ Pages(r) - 1 + 1 = Pages(r)
        BY <1>3
    <3> QED
        BY <3>1, FS_Interval
  <2> QED
      BY <2>1, <2>2
<1>8. NoPageLost(r)'
  <2>1. \A p : UnderWay(r, p) => UnderWay(r, p)'
      BY <1>2 DEF UnderWay, At, IsLast
  <2> QED
      BY <1>2, <2>1 DEF Chain, NoPageLost
<1>9. NoPageBeyond(r)'
  <2>1. ASSUME NEW h \in Handler, NEW p \in got'[h], At(h, r, {"trigger", "send"})', IsLast(got'[h], p)
        PROVE  p + 1 <= Pages(r)
    <3>1. CASE h = k
      <4>1. last + 1 <= Pages(r) /\ got'[k] = seen[r]
          BY <1>4, <1>6, <1>7, <1>3, <2>1, <3>1 DEF At
      <4>2. p = last
          BY <1>2, <1>3, <2>1, <3>1, <4>1 DEF IsLast
      <4> QED
          BY <4>1, <4>2
    <3>2. CASE h # k
        BY <1>2, <2>1, <3>2 DEF Chain, NoPageBeyond, At
    <3> QED
        BY <3>1, <3>2
  <2> QED
      BY <1>1, <1>2, <2>1 DEF Chain, NoPageBeyond, IsLast
<1>10. NextClaimed(r)'
  <2>1. ASSUME NEW p \in seen[r], p < Pages(r), p + 1 \notin triggered[r]
        PROVE  \/ \E h \in Handler : At(h, r, {"read"})'
               \/ \E h \in Handler : At(h, r, {"trigger"})' /\ IsLast(got'[h], p)
    <3>1. p = last
        BY <1>2, <1>3, <1>5, <2>1 DEF IsLast
    <3>2. At(k, r, {"trigger"})' /\ IsLast(got'[k], p)
        BY <1>2, <1>3, <1>6, <2>1, <3>1 DEF At
    <3> QED
        BY <3>2
  <2> QED
      BY <1>1, <1>2, <2>1 DEF NextClaimed, IsLast
<1>11. LastCleansUp(r)'
  <2>1. ASSUME Pages(r) \in seen[r]
        PROVE  At(k, r, {"read", "deactivate"})'
    <3>1. last = Pages(r)
        BY <1>2, <1>3, <1>4, <2>1 DEF IsLast
    <3> QED
        BY <1>3, <1>6, <1>7, <3>1 DEF At
  <2> QED
      BY <1>1, <1>2, <2>1 DEF LastCleansUp
<1> QED
    BY <1>8, <1>9, <1>10, <1>11 DEF Chain

\* set_nx: whoever sets the key of the next page is to post its search.
LEMMA ChainTriggers ==
    ASSUME Known, [Next]_vars, NEW r \in StartedRuns, GoesWell(r)', Chain(r),
           NEW k \in Handler, NEW last \in got[k], Trigger(k, last), msg[k].run = r
    PROVE  Chain(r)'
<1>1. Pages(r)' = Pages(r) /\ r \in Run /\ GoesWell(r)
    BY WellKept
<1>2. /\ pc[k] = "trigger" /\ IsLast(got[k], last)
      /\ \A h \in Handler \ {k} : UNCHANGED <<pc[h], msg[h], got[h]>>
      /\ UNCHANGED <<asked, net, posted, seen, active, open>>
      /\ triggered'[r] = triggered[r] \cup {last + 1}
    BY <1>1 DEF Trigger, Goto, Known, TypeOK, netVars, tableVars, bppVars, ghostVars
<1>3. /\ seen[r] \in SUBSET Nat /\ got[k] \in SUBSET Nat
      /\ pc'[k] = IF last + 1 \notin triggered[r] THEN "send" ELSE AfterPaging(k, got[k])
      /\ pc'[k] # "idle" => msg'[k] = msg[k] /\ got'[k] = got[k]
    BY <1>1, <1>2 DEF Trigger, Goto, Known, TypeOK
<1>4. \A p \in got[k] : IsLast(got[k], p) <=> p = last
    BY <1>2, <1>3 DEF IsLast
<1>5. NoPageLost(r)'
  <2>1. ASSUME NEW p, UnderWay(r, p)
        PROVE  UnderWay(r, p)'
      BY <1>2, <2>1 DEF UnderWay, At, IsLast
  <2>2. last + 1 \in triggered[r] \/ UnderWay(r, last + 1)'
    <3>1. (last + 1) - 1 = last
        BY <1>3
    <3>2. last + 1 \notin triggered[r] => At(k, r, {"send"})' /\ IsLast(got'[k], last)
        BY <1>2, <1>3 DEF At
    <3> QED
        BY <3>1, <3>2 DEF UnderWay, IsLast
  <2> QED
      BY <1>2, <2>1, <2>2 DEF Chain, NoPageLost
<1>6. NoPageBeyond(r)'
  <2>1. ASSUME NEW h \in Handler, NEW p \in got'[h], At(h, r, {"trigger", "send"})', IsLast(got'[h], p)
        PROVE  p + 1 <= Pages(r)
    <3>1. CASE h = k
        BY <1>2, <1>3, <2>1, <3>1 DEF Chain, NoPageBeyond, At, AfterPaging
    <3>2. CASE h # k
        BY <1>2, <2>1, <3>2 DEF Chain, NoPageBeyond, At
    <3> QED
        BY <3>1, <3>2
  <2> QED
      BY <1>1, <1>2, <2>1 DEF Chain, NoPageBeyond, IsLast
<1>7. NextClaimed(r)'
  <2>1. ASSUME NEW p \in seen[r], p < Pages(r), p + 1 \notin triggered'[r]
        PROVE  \/ \E h \in Handler : At(h, r, {"read"})'
               \/ \E h \in Handler : At(h, r, {"trigger"})' /\ IsLast(got'[h], p)
    <3>1. p # last /\ p + 1 \notin triggered[r]
        BY <1>2, <2>1
    <3>2. \/ \E h \in Handler : At(h, r, {"read"})
          \/ \E h \in Handler : At(h, r, {"trigger"}) /\ IsLast(got[h], p)
        BY <2>1, <3>1 DEF Chain, NextClaimed
    <3>3. \A h \in Handler : At(h, r, {"trigger"}) /\ IsLast(got[h], p) => h # k
        BY <1>4, <3>1 DEF IsLast
    <3>4. \A h \in Handler : At(h, r, {"read"}) => h # k
        BY <1>2 DEF At
    <3> QED
        BY <1>2, <3>2, <3>3, <3>4 DEF At
  <2> QED
      BY <1>1, <1>2, <2>1 DEF NextClaimed, IsLast
<1>8. LastCleansUp(r)'
  <2>1. \A h \in Handler : At(h, r, {"read", "deactivate"}) => At(h, r, {"read", "deactivate"})'
      BY <1>2 DEF At
  <2> QED
      BY <1>1, <1>2, <2>1, InSyncKept DEF Chain, LastCleansUp
<1> QED
    BY <1>5, <1>6, <1>7, <1>8 DEF Chain

\* send_open_jobs_search: the page that was claimed is asked for.
LEMMA ChainSends ==
    ASSUME Known, [Next]_vars, NEW r \in StartedRuns, GoesWell(r)', Chain(r),
           NEW k \in Handler, NEW last \in got[k], SendNext(k, last), msg[k].run = r
    PROVE  Chain(r)'
<1>1. Pages(r)' = Pages(r) /\ r \in Run /\ GoesWell(r) /\ faults[r] = 0 /\ faults'[r] = 0
    BY WellKept DEF GoesWell
<1>2. /\ pc[k] = "send" /\ IsLast(got[k], last)
      /\ pc'[k] \in {"idle", "deactivate"}
      /\ \A h \in Handler \ {k} : UNCHANGED <<pc[h], msg[h], got[h]>>
      /\ UNCHANGED <<net, seen, triggered, active, open>>
      /\ posted' = posted \cup {[run |-> r, page |-> last + 1]}
      /\ got[k] \in SUBSET Nat /\ last \in Nat
    BY <1>1 DEF SendNext, Goto, AfterPaging, Post, Known, TypeOK, tableVars, bppVars, redisVars
<1>3. asked' = asked \cup {[run |-> r, page |-> last + 1]}
  <2>1. ~Fault(r)
      BY <1>1 DEF Fault, Known, TypeOK
  <2> QED
      BY <2>1 DEF SendNext
<1>4. NoPageLost(r)'
  <2>1. ASSUME NEW p \in Nat, UnderWay(r, p)
        PROVE  UnderWay(r, p)'
    <3>1. CASE At(k, r, {"send"}) /\ IsLast(got[k], p - 1)
      <4>1. p = last + 1
          BY <1>2, <3>1 DEF IsLast
      <4> QED
          BY <1>3, <4>1 DEF UnderWay
    <3>2. CASE \E h \in Handler \ {k} : At(h, r, {"send"}) /\ IsLast(got[h], p - 1)
        BY <1>2, <3>2 DEF UnderWay, At, IsLast
    <3>3. CASE \/ [run |-> r, page |-> p] \in asked
               \/ \E m \in net : m.run = r /\ m.page = p
               \/ \E h \in Handler : At(h, r, {"store", "record"}) /\ msg[h].page = p
        BY <1>2, <1>3, <3>3 DEF UnderWay, At
    <3> QED
        BY <2>1, <3>1, <3>2, <3>3 DEF UnderWay
  <2>2. {1} \cup triggered[r] \subseteq Nat
      BY <1>1 DEF Known, TypeOK
  <2> QED
      BY <1>2, <2>1, <2>2 DEF Chain, NoPageLost
<1>5. NoPageBeyond(r)'
  <2>1. last + 1 <= Pages(r)
      BY <1>2 DEF Chain, NoPageBeyond, At
  <2>2. \A h \in Handler : At(h, r, {"trigger", "send"})' => h # k
      BY <1>2 DEF At
  <2> QED
      BY <1>1, <1>2, <2>1, <2>2 DEF Chain, NoPageBeyond, IsLast, At
<1>6. NextClaimed(r)'
  <2>1. \A h \in Handler : \A P \in SUBSET {"read", "trigger"} :
            At(h, r, P) => At(h, r, P)' /\ got'[h] = got[h]
      BY <1>2 DEF At
  <2> QED
      BY <1>1, <1>2, <2>1 DEF Chain, NextClaimed, IsLast
<1>7. LastCleansUp(r)'
  <2>1. \A h \in Handler : At(h, r, {"read", "deactivate"}) => At(h, r, {"read", "deactivate"})'
      BY <1>2 DEF At
  <2> QED
      BY <1>1, <1>2, <2>1, InSyncKept DEF Chain, LastCleansUp
<1> QED
    BY <1>4, <1>5, <1>6, <1>7 DEF Chain

\* deactivate_stale_jobs: the rows are the listing.
LEMMA ChainCleansUp ==
    ASSUME Known, [Next]_vars, NEW r \in StartedRuns, GoesWell(r)', Chain(r),
           NEW k \in Handler, Deactivate(k), msg[k].run = r
    PROVE  Chain(r)'
<1>1. /\ Pages(r)' = Pages(r) /\ r \in Run /\ GoesWell(r) /\ Listing(r[2])' = Listing(r[2])
      /\ faults[r] = 0 /\ faults'[r] = 0 /\ r \notin dirty
    BY WellKept DEF GoesWell
<1>2. /\ pc[k] = "deactivate" /\ pc'[k] = "purge" /\ msg' = msg /\ got' = got
      /\ \A h \in Handler \ {k} : pc'[h] = pc[h]
      /\ UNCHANGED <<asked, net, posted, seen, triggered>>
    BY DEF Deactivate, Goto, Known, TypeOK, netVars, redisVars
<1>3. active' = active \ StaleJobs(r)
  <2>1. ~Fault(r)
      BY <1>1 DEF Fault, Known, TypeOK
  <2> QED
      BY <2>1 DEF Deactivate
<1>4. Pages(r) \in seen[r] => InSync(r[2])'
  <2> SUFFICES ASSUME Pages(r) \in seen[r]
               PROVE  InSync(r[2])'
      OBVIOUS
  <2>1. 1..Pages(r) \subseteq seen[r]
      BY <1>1, WellRun DEF NoHole
  <2>2. \A j \in Listing(r[2]) : j \in active /\ lastTxn[j] = r[1]
      BY <1>1, <2>1, WholeListing DEF Known, RowsInv, PagesInTable
  <2>3. \A j \in JobsOf(r[2]) : lastTxn[j] = r[1] => j \in Listing(r[2])
      BY <1>1 DEF Known, RowsTagged
  <2>4. active' \cap JobsOf(r[2]) = Listing(r[2])
      BY <1>3, <2>2, <2>3 DEF StaleJobs, Listing
  <2>5. JobsOf(r[2])' = JobsOf(r[2])
      BY DEF JobsOf
  <2> QED
      BY <1>1, <2>4, <2>5 DEF InSync
<1>5. NoPageLost(r)' /\ NoPageBeyond(r)' /\ NextClaimed(r)'
  <2>1. \A P \in SUBSET {"store", "record", "read", "trigger", "send"} :
            \A h \in Handler : At(h, r, P)' <=> At(h, r, P)
      BY <1>2 DEF At
  <2>2. \A p : UnderWay(r, p) => UnderWay(r, p)'
      BY <1>2, <2>1 DEF UnderWay, IsLast
  <2>3. NoPageLost(r)'
      BY <1>2, <2>2 DEF Chain, NoPageLost
  <2>4. NoPageBeyond(r)'
      BY <1>1, <1>2, <2>1 DEF Chain, NoPageBeyond, IsLast
  <2>5. NextClaimed(r)'
      BY <1>1, <1>2, <2>1 DEF Chain, NextClaimed, IsLast
  <2> QED
      BY <2>3, <2>4, <2>5
<1> QED
    BY <1>1, <1>2, <1>4, <1>5 DEF Chain, LastCleansUp

\* A handler of another run, or one that has cleaned up, keeps the chain.
LEMMA ChainOfOthers ==
    ASSUME Known, [Next]_vars, NEW r \in StartedRuns, GoesWell(r)', Chain(r),
           NEW k \in Handler, pc[k] # "idle", HandlerStep(k) \/ HandlerStops(k),
           msg[k].run # r \/ pc[k] = "purge"
    PROVE  Chain(r)'
<1>1. r \in Run /\ faults[r] = 0 /\ faults'[r] = 0
    BY WellKept DEF GoesWell
<1>2. msg[k].run \in Run
    BY RunningHandler DEF Known
<1>3. ASSUME \A h \in Handler \ {k} : UNCHANGED <<pc[h], msg[h], got[h]>>,
             pc'[k] = "idle" \/ (msg'[k] = msg[k] /\ (pc[k] = "purge" => pc'[k] = "purge")),
             asked \subseteq asked', UNCHANGED <<net, triggered[r], seen[r]>>,
             \A s \in posted' : s.run = r => s \in posted
      PROVE  Chain(r)'
  <2>1. ~At(k, r, Deciding) /\ ~At(k, r, Deciding)' /\ ~At(k, r, {"store", "record"})
      BY <1>3 DEF At, Deciding
  <2> QED
      BY <1>3, <2>1, ChainFrame
<1>4. CASE StoreJobs(k) \/ StoreFails(k) \/ RecordPage(k)
  <2>1. /\ \A h \in Handler \ {k} : UNCHANGED <<pc[h], msg[h], got[h]>>
        /\ pc[k] # "purge" /\ (pc'[k] = "idle" \/ msg'[k] = msg[k])
        /\ UNCHANGED <<asked, net, posted>>
      BY <1>4 DEF StoreJobs, StoreFails, RecordPage, Goto, AfterStore, Known, TypeOK, netVars
  <2>2. UNCHANGED <<triggered[r], seen[r]>>
      BY <1>1, <1>4, <2>1 DEF StoreJobs, StoreFails, RecordPage, Known, TypeOK, redisVars
  <2> QED
      BY <1>3, <2>1, <2>2
<1>5. CASE \E last \in received[msg[k].run] : ReadPages(k, last)
    BY <1>2, <1>3, <1>5 DEF ReadPages, Goto, AfterPaging, Known, TypeOK, netVars, redisVars, ghostVars
<1>6. CASE \E last \in got[k] : Trigger(k, last)
    BY <1>2, <1>3, <1>6 DEF Trigger, Goto, AfterPaging, Known, TypeOK, netVars, ghostVars
<1>7. CASE \E last \in got[k] : SendNext(k, last)
    BY <1>2, <1>3, <1>7 DEF SendNext, Goto, AfterPaging, Post, Known, TypeOK, redisVars
<1>8. CASE Deactivate(k)
    BY <1>2, <1>3, <1>8 DEF Deactivate, Goto, Known, TypeOK, netVars, redisVars
<1>9. CASE \E j \in Job : Purge(k, j)
    BY <1>3, <1>9 DEF Purge, netVars, redisVars
<1>10. CASE Finish(k) \/ HandlerStops(k)
    BY <1>3, <1>10 DEF Finish, HandlerStops, Goto, Known, TypeOK, netVars, redisVars, ghostVars
<1> QED
    BY <1>4, <1>5, <1>6, <1>7, <1>8, <1>9, <1>10 DEF HandlerStep

\* Every step keeps the chain of a run that goes well.
LEMMA ChainKept ==
    ASSUME Known, [Next]_vars, NEW r \in StartedRuns, GoesWell(r)', Chain(r)
    PROVE  Chain(r)'
<1>1. r \in Run /\ faults[r] = 0 /\ faults'[r] = 0 /\ GoesWell(r) /\ ~Fault(r) /\ r \notin dirty'
  <2>1. r \in Run /\ faults[r] = 0 /\ faults'[r] = 0 /\ GoesWell(r) /\ r \notin dirty'
      BY WellKept DEF GoesWell
  <2> QED
      BY <2>1 DEF Fault, Known, TypeOK
<1>2. CASE StartRefresh
  <2>1. /\ asked \subseteq asked' /\ UNCHANGED <<net, triggered, seen, pc, msg, got>>
        /\ \A s \in posted' : s.run = r => s \in posted
    <3>1. r[1] # started + 1
        BY DEF StartedRuns, Known, TypeOK, Run, Txn
    <3> QED
        BY <1>2, <3>1 DEF StartRefresh, redisVars, procVars
  <2> QED
      BY <2>1, ChainFrame
<1>3. ASSUME NEW s \in asked, Answer(s)
      PROVE  Chain(r)'
  <2>1. /\ asked' = asked \ {s} /\ net' = net \cup {Reply(s)}
        /\ UNCHANGED <<triggered, seen, pc, msg, got, posted>>
      BY <1>3 DEF Answer, Reply, redisVars, procVars, ghostVars
  <2>2. Reply(s).run = s.run /\ Reply(s).page = s.page
      BY DEF Reply
  <2> QED
      BY <2>1, <2>2, ChainFrame
<1>4. ASSUME NEW s \in asked, LoseSearch(s)
      PROVE  Chain(r)'
  <2>1. s.run # r
      BY <1>1, <1>4 DEF LoseSearch
  <2> QED
      BY <1>4, <2>1, ChainFrame DEF LoseSearch, redisVars, procVars
<1>5. ASSUME NEW m \in net, LoseCallback(m)
      PROVE  Chain(r)'
  <2>1. m.run # r
      BY <1>1, <1>5 DEF LoseCallback
  <2> QED
      BY <1>5, <2>1, ChainFrame DEF LoseCallback, redisVars, procVars
<1>6. CASE UNCHANGED vars \/ \E j \in Job : ChangeCatalogue(j)
    BY <1>6, ChainFrame DEF ChangeCatalogue, vars, netVars, redisVars, procVars, ghostVars
<1>7. ASSUME NEW q \in Run, ExpireKeys(q)
      PROVE  Chain(r)'
  <2>1. q # r
      BY <1>1, <1>7 DEF ExpireKeys
  <2>2. UNCHANGED <<triggered[r], seen[r], net, asked, posted, pc, msg, got>>
      BY <1>7, <2>1 DEF ExpireKeys, netVars, procVars, Known, TypeOK
  <2> QED
      BY <2>2, ChainFrame
<1>8. ASSUME NEW h \in Handler, NEW m \in net, Receive(h, m)
      PROVE  Chain(r)'
  <2>1. /\ pc[h] = "idle" /\ pc'[h] = "store" /\ msg'[h] = m /\ net \ {m} \subseteq net'
        /\ \A k \in Handler \ {h} : UNCHANGED <<pc[k], msg[k], got[k]>>
        /\ UNCHANGED <<asked, triggered, seen, posted>>
      BY <1>8 DEF Receive, redisVars, ghostVars, Known, TypeOK
  <2>2. m.run = r => At(h, r, {"store", "record"})'
      BY <2>1 DEF At
  <2>3. ~At(h, r, Deciding) /\ ~At(h, r, Deciding)' /\ ~At(h, r, {"store", "record"})
      BY <2>1 DEF At, Deciding
  <2> QED
      BY <2>1, <2>2, <2>3, ChainFrame
<1>9. ASSUME NEW k \in Handler, StoreJobs(k), msg[k].run = r
      PROVE  Chain(r)'
  <2>1. /\ pc[k] = "store" /\ pc'[k] = "record" /\ msg' = msg
        /\ \A h \in Handler \ {k} : UNCHANGED <<pc[h], msg[h], got[h]>>
        /\ UNCHANGED <<asked, net, triggered, seen, posted>>
      BY <1>1, <1>9, WellRun DEF StoreJobs, Goto, AfterStore, Known, TypeOK, netVars, redisVars
  <2>2. /\ ~At(k, r, Deciding) /\ ~At(k, r, Deciding)'
        /\ At(k, r, {"store", "record"})' /\ msg'[k].page = msg[k].page
      BY <1>9, <2>1 DEF At, Deciding
  <2> QED
      BY <2>1, <2>2, ChainFrame
<1>10. ASSUME NEW k \in Handler, HandlerStep(k) \/ HandlerStops(k)
       PROVE  Chain(r)'
  <2>1. pc[k] # "idle"
      BY <1>10 DEF HandlerStep, StoreJobs, StoreFails, RecordPage, ReadPages, Trigger, SendNext,
         Deactivate, Purge, Finish, HandlerStops, Goto
  <2>2. CASE msg[k].run # r \/ pc[k] = "purge"
      BY <1>10, <2>1, <2>2, ChainOfOthers
  <2>3. CASE msg[k].run = r /\ pc[k] # "purge"
    <3>1. ~StoreFails(k) /\ ~HandlerStops(k) /\ ~Finish(k) /\ \A j \in Job : ~Purge(k, j)
        BY <1>1, <2>3 DEF StoreFails, HandlerStops, Finish, Purge, Goto
    <3> QED
        BY <1>9, <1>10, <2>3, <3>1, ChainRecords, ChainReads, ChainTriggers, ChainSends, ChainCleansUp
           DEF HandlerStep
  <2> QED
      BY <2>2, <2>3
<1> QED
    BY <1>2, <1>3, <1>4, <1>5, <1>6, <1>7, <1>8, <1>9, <1>10 DEF Next

\* All of it, at all times.
LEMMA KnownAlways == Spec => []Known
<1>1. Init => KeysTrue /\ RowsTagged
    BY JobSyncAssumption DEF Init, KeysTrue, RowsTagged, StartedRuns, Run, Txn
<1>2. Known /\ TypeOK' /\ [Next]_vars => KeysTrue' /\ RowsTagged'
    BY KeysTrueStep, RowsTaggedStep DEF Known, RowsInv
<1>3. Known <=> TypeOK /\ PagesInOrder /\ TriggersHeld /\ RowsInv /\ KeysTrue /\ RowsTagged
    BY DEF Known
<1> QED
    BY <1>1, <1>2, <1>3, TypeCorrect, PagesAlwaysInOrder, TriggersAlwaysHeld, RowsAlways, PTL
       DEF Spec

\* Of a run that goes well no page is lost: the next one is always claimed, asked for, on
\* its way or stored, up to the last, whose handler cleans up.
THEOREM ChainsUnbroken == Spec => []ChainUnbroken
<1>1. Init => ChainUnbroken
    BY DEF Init, ChainUnbroken, GoesWell, StartedRuns, Run, Txn
<1>2. Known /\ ChainUnbroken /\ [Next]_vars => ChainUnbroken'
  <2> SUFFICES ASSUME Known, ChainUnbroken, [Next]_vars, NEW r \in Run, GoesWell(r)'
               PROVE  Chain(r)'
      BY DEF ChainUnbroken, Run, Txn
  <2>1. CASE r \in StartedRuns
      BY <2>1, WellKept, ChainKept DEF ChainUnbroken
  <2>2. CASE r \notin StartedRuns
      BY <2>2, ChainStarts
  <2> QED
      BY <2>1, <2>2
<1> QED
    BY <1>1, <1>2, KnownAlways, PTL DEF Spec

\* When such a run is over, its BPP's active rows are what the BPP lists.
LEMMA OverInSync ==
    ASSUME Known, ChainUnbroken
    PROVE  CleanRunSyncs
<1> SUFFICES ASSUME NEW r \in Run, Over(r), faults[r] = 0, r \notin dirty, Listing(r[2]) # {}
             PROVE  InSync(r[2])
    BY DEF CleanRunSyncs
<1>1. GoesWell(r) /\ Chain(r)
    BY DEF Over, GoesWell, ChainUnbroken
<1>2. \A h \in Handler, P \in SUBSET ({"store", "record"} \cup Deciding) : ~At(h, r, P)
    BY DEF Over, At, Deciding
<1>3. \A p \in {1} \cup triggered[r] : p \in seen[r]
  <2>1. \A p : ~UnderWay(r, p)
      BY <1>2 DEF Over, UnderWay, Deciding
  <2> QED
      BY <1>1, <2>1 DEF Chain, NoPageLost
<1>4. \A p \in seen[r] : p < Pages(r) => p + 1 \in seen[r]
    BY <1>1, <1>2, <1>3 DEF Chain, NextClaimed, Deciding
<1>5. /\ seen[r] \in SUBSET Nat /\ NoHole(seen[r]) /\ IsFiniteSet(seen[r])
      /\ Pages(r) \in Nat /\ 1 <= Pages(r)
    BY <1>1, WellRun
<1> DEFINE n == Cardinality(seen[r])
<1>6. n \in Nat /\ 1..n \subseteq seen[r]
    BY <1>5, CountCoversPages, FS_CardinalityType
<1>7. n + 1 \notin seen[r]
  <2> SUFFICES ASSUME n + 1 \in seen[r]
               PROVE  FALSE
      OBVIOUS
  <2>1. 1..(n + 1) \subseteq seen[r]
      BY <1>5 DEF NoHole
  <2>2. Cardinality(1..(n + 1)) = n + 1
    <3>1. 1 \in Int /\ n + 1 \in Int /\ ~(1 > n + 1) /\ (n + 1) - 1 + 1 = n + 1
        BY <1>6
    <3> QED
        BY <3>1, FS_Interval
  <2>3. Cardinality(1..(n + 1)) <= n
      BY <1>5, <2>1, FS_Subset
  <2> QED
      BY <1>6, <2>2, <2>3
<1>8. n >= 1
  <2>1. seen[r] # {}
      BY <1>3
  <2> QED
      BY <1>5, <1>6, <2>1, FS_EmptySet
<1>9. Pages(r) \in seen[r]
  <2>1. n >= Pages(r)
      BY <1>4, <1>5, <1>6, <1>7, <1>8
  <2> QED
      BY <1>5, <1>6, <2>1
<1> QED
    BY <1>1, <1>2, <1>9 DEF Chain, LastCleansUp, Deciding

\* A run that met no fault, during which its BPP changed nothing and no other refresh touched
\* its rows, leaves the active rows of the BPP equal to the jobs it lists, whatever was
\* in the table, however its callbacks were duplicated and its handlers interleaved.
THEOREM CleanRunsSync == Spec => []CleanRunSyncs
<1>1. Known /\ ChainUnbroken => CleanRunSyncs
    BY OverInSync
<1> QED
    BY <1>1, KnownAlways, ChainsUnbroken, PTL

-----------------------------------------------------------------------------
(* Vectors of jobs that are not active *)

\* A job leaves a handler's list when its vector is taken out, or the handler stops.
LEMMA ListSteps ==
    ASSUME TypeOK, [Next]_vars, NEW h \in Handler, pc[h] = "purge", NEW j \in stale[h]
    PROVE  \/ pc'[h] = "purge" /\ j \in stale'[h]
           \/ Purge(h, j) \/ HandlerStops(h)
<1>1. CASE UNCHANGED <<pc[h], stale[h]>>
    BY <1>1
<1>2. CASE \/ StartRefresh \/ UNCHANGED vars
           \/ \E s \in asked : Answer(s) \/ LoseSearch(s)
           \/ \E m \in net : LoseCallback(m)
           \/ \E r \in Run : ExpireKeys(r)
           \/ \E i \in Job : ChangeCatalogue(i)
    BY <1>1, <1>2 DEF StartRefresh, Answer, LoseSearch, LoseCallback, ExpireKeys, ChangeCatalogue,
       vars, procVars
<1>3. ASSUME NEW k \in Handler, NEW m \in net, Receive(k, m)
      PROVE  UNCHANGED <<pc[h], stale[h]>>
    BY <1>3 DEF Receive, TypeOK
<1>4. ASSUME NEW k \in Handler,
             \/ StoreJobs(k) \/ StoreFails(k) \/ RecordPage(k)
             \/ \E last \in received[msg[k].run] : ReadPages(k, last)
             \/ \E last \in got[k] : Trigger(k, last) \/ SendNext(k, last)
      PROVE  UNCHANGED <<pc[h], stale[h]>>
  <2>1. PICK to : Goto(k, pc[k], to) /\ pc[k] # "purge" /\ UNCHANGED stale
      BY <1>4 DEF StoreJobs, StoreFails, RecordPage, ReadPages, Trigger, SendNext, Goto
  <2> QED
      BY <2>1 DEF TypeOK, Goto
<1>5. ASSUME NEW k \in Handler, Deactivate(k)
      PROVE  UNCHANGED <<pc[h], stale[h]>>
    BY <1>5 DEF Deactivate, Goto, TypeOK
<1>6. ASSUME NEW k \in Handler, Finish(k)
      PROVE  UNCHANGED <<pc[h], stale[h]>>
    BY <1>6 DEF Finish, Goto, TypeOK
<1>7. ASSUME NEW k \in Handler, HandlerStops(k), k # h
      PROVE  UNCHANGED <<pc[h], stale[h]>>
    BY <1>7 DEF HandlerStops, Goto, TypeOK
<1>8. ASSUME NEW k \in Handler, NEW i \in Job, Purge(k, i), k # h \/ i # j
      PROVE  pc'[h] = "purge" /\ j \in stale'[h]
    BY <1>8 DEF Purge, TypeOK
<1> QED
    BY <1>1, <1>2, <1>3, <1>4, <1>5, <1>6, <1>7, <1>8 DEF Next, HandlerStep

\* The refresh only takes vectors out.
LEMMA IndexSteps ==
    ASSUME [Next]_vars
    PROVE  index' \subseteq index
<1>1. CASE StartRefresh \/ UNCHANGED vars
    BY <1>1 DEF StartRefresh, vars, tableVars
<1>2. CASE \/ \E s \in asked : Answer(s) \/ LoseSearch(s)
           \/ \E m \in net : LoseCallback(m)
           \/ \E r \in Run : ExpireKeys(r)
           \/ \E j \in Job : ChangeCatalogue(j)
           \/ \E h \in Handler, m \in net : Receive(h, m)
    BY <1>2 DEF Answer, LoseSearch, LoseCallback, ExpireKeys, ChangeCatalogue, Receive, tableVars
<1>3. CASE \E h \in Handler :
             \/ StoreJobs(h) \/ StoreFails(h) \/ RecordPage(h) \/ Deactivate(h)
             \/ \E last \in received[msg[h].run] : ReadPages(h, last)
             \/ \E last \in got[h] : Trigger(h, last) \/ SendNext(h, last)
    BY <1>3 DEF StoreJobs, StoreFails, RecordPage, Deactivate, ReadPages, Trigger, SendNext,
       tableVars
<1>4. CASE \E h \in Handler : (\E j \in Job : Purge(h, j)) \/ Finish(h) \/ HandlerStops(h)
    BY <1>4 DEF Purge, Finish, HandlerStops, tableVars
<1> QED
    BY <1>1, <1>2, <1>3, <1>4 DEF Next, HandlerStep

\* What a handler has to take out is of its BPP, after every step.
LEMMA StaleOfBppStep ==
    ASSUME TypeOK, StaleIsOut, StaleOfBpp, [Next]_vars
    PROVE  StaleOfBpp'
<1> SUFFICES ASSUME NEW h \in Handler
             PROVE  stale'[h] \subseteq IF pc'[h] = "purge" THEN JobsOf(msg'[h].run[2]) ELSE {}
    BY DEF StaleOfBpp, JobsOf
<1>1. CASE Deactivate(h)
  <2>1. /\ pc'[h] = "purge" /\ msg'[h] = msg[h] /\ stale[h] = {}
        /\ stale'[h] = StaleJobs(msg[h].run) \/ stale'[h] = stale[h]
      BY <1>1 DEF Deactivate, Goto, TypeOK, StaleIsOut
  <2> QED
      BY <2>1 DEF StaleJobs, JobsOf
<1>2. CASE ~Deactivate(h)
  <2>1. stale[h] \subseteq IF pc[h] = "purge" THEN JobsOf(msg[h].run[2]) ELSE {}
      BY DEF StaleOfBpp
  <2> QED
      BY <1>2, <2>1, PurgeSteps
<1> QED
    BY <1>1, <1>2

\* Every step keeps account of the vectors of jobs that are not active.
LEMMA VectorsStep ==
    ASSUME TypeOK, TypeOK', StaleIsOut, StaleOfBpp, VectorsAccounted, [Next]_vars
    PROVE  VectorsAccounted'
<1> SUFFICES ASSUME NEW j \in index', j \notin active'
             PROVE  \/ \E h \in Handler : pc'[h] = "purge" /\ j \in stale'[h]
                    \/ \E r \in Run : r[2] = Home[j] /\ faults'[r] # 0
    BY DEF VectorsAccounted
<1>1. j \in Job /\ j \in index
    BY IndexSteps DEF TypeOK
<1>2. \A r \in Run : faults[r] # 0 => faults'[r] # 0
    BY KeySteps DEF TypeOK
<1>3. CASE j \in active
  <2>1. PICK h \in Handler : Deactivate(h)
      BY <1>3, TableSteps DEF StoreJobs, ChangeCatalogue, tableVars
  <2>2. /\ pc'[h] = "purge" /\ active' = active \ StaleJobs(msg[h].run)
        /\ stale'[h] = StaleJobs(msg[h].run)
      BY <1>3, <2>1 DEF Deactivate, Goto, TypeOK
  <2> QED
      BY <1>3, <2>2
<1>4. CASE j \notin active
  <2>1. CASE \E r \in Run : r[2] = Home[j] /\ faults[r] # 0
      BY <1>2, <2>1
  <2>2. ASSUME NEW h \in Handler, pc[h] = "purge", j \in stale[h]
        PROVE  \/ \E k \in Handler : pc'[k] = "purge" /\ j \in stale'[k]
               \/ \E r \in Run : r[2] = Home[j] /\ faults'[r] # 0
    <3>1. msg[h].run \in Run /\ msg[h].run[2] = Home[j]
        BY <2>2, RunningHandler DEF StaleOfBpp, JobsOf
    <3>2. ASSUME Fault(msg[h].run)
          PROVE  faults'[msg[h].run] # 0
        BY <3>1, <3>2 DEF Fault, TypeOK
    <3>3. Purge(h, j) => Fault(msg[h].run)
        BY DEF Purge
    <3>4. HandlerStops(h) => Fault(msg[h].run)
        BY DEF HandlerStops
    <3> QED
        BY <2>2, <3>1, <3>2, <3>3, <3>4, ListSteps
  <2> QED
      BY <1>1, <1>4, <2>1, <2>2 DEF VectorsAccounted
<1> QED
    BY <1>3, <1>4

\* No vector of a job that is not active is forgotten but by a fault: some handler has it
\* on its list, for any number of BPPs, jobs, refreshes and handlers (search.rs:921-937).
THEOREM VectorsKeptAccount == Spec => []VectorsAccounted
<1>1. Init => StaleOfBpp /\ VectorsAccounted
    BY DEF Init, StaleOfBpp, VectorsAccounted
<1>2. TypeOK /\ TypeOK' /\ RowsInv /\ StaleOfBpp /\ VectorsAccounted /\ [Next]_vars
        => StaleOfBpp' /\ VectorsAccounted'
    BY StaleOfBppStep, VectorsStep DEF RowsInv
<1> QED
    BY <1>1, <1>2, TypeCorrect, RowsAlways, PTL DEF Spec
=============================================================================
