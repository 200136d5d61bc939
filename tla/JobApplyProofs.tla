---------------------------- MODULE JobApplyProofs ----------------------------
(***************************************************************************)
(* For every set of requests, users and jobs: the table holds only orders  *)
(* that a BPP made, an order without a row was reported as an error, and a *)
(* request that arrives after one that succeeded does not order again.     *)
(*                                                                         *)
(* The argument: what the on_confirm of a request names is settled when    *)
(* the BPP answers, so a row that was made of it stays true (RowsTrue),    *)
(* and a caller was told of success only with that row in the table        *)
(* (SuccessHasRow); the check of a later request finds it (LateComers).    *)
(***************************************************************************)
EXTENDS JobApply, TLAPS

\* The calls a request has made, by where its handler stands.
CallsByStage ==
    /\ \A r \in Request : pc[r] \in {"idle", "check", "init"} =>
         result[<<r, "confirm">>] = "none"
    /\ \A r \in Request : pc[r] = "confirm" => <<r, "init">> \in answered
    /\ \A r \in Request : pc[r] = "store" => <<r, "confirm">> \in answered
    /\ \A r \in Request : reply[r] = "already" => result[<<r, "confirm">>] = "none"
    /\ \A r \in Request : pc[r] = "ended" <=> reply[r] # "none"
    /\ \A c \in answered : result[c] # "none"
    /\ \A r \in orders : <<r, "confirm">> \in answered

\* Every row is what the on_confirm of its request named.
RowsTrue ==
    \A row \in rows :
        \/ row.order \in orders /\ row = Confirmed(row.order)
        \/ row.order = NoOrder /\ row.target = NoTarget

SuccessHasRow ==
    \A r \in Request : reply[r] = "applied" =>
        Confirmed(r) \in rows /\ <<r, "confirm">> \in answered

\* A request that arrived after a success for its user and job goes no further
\* than its check.
LateComers ==
    \A r \in Request : \A q \in before[r] :
        /\ reply[q] = "applied"
        /\ (Target[q] = Target[r] /\ q \in named) =>
             pc[r] \in {"check", "ended"} /\ result[<<r, "confirm">>] = "none"

Inv ==
    /\ TypeOK /\ CallsByStage /\ RowsTrue /\ SuccessHasRow /\ LateComers
    /\ RowsAreOrders /\ ConfirmAfterInit

\* A call is of a request and an action.
LEMMA CallType ==
    ASSUME NEW r \in Request, NEW a \in Action
    PROVE  <<r, a>> \in Request \X Action
    OBVIOUS

\* The row of a request is a row, and says nothing that is not of an order.
LEMMA ConfirmedType ==
    ASSUME TypeOK, NEW r \in Request
    PROVE  /\ Confirmed(r) \in Row
           /\ Confirmed(r).target = IF r \in named THEN Target[r] ELSE NoTarget
           /\ Confirmed(r).order = IF r \in orders THEN r ELSE NoOrder
    BY DEF Confirmed, Row, TypeOK

\* The invariant holds before the first request.
LEMMA InvInit == Init => Inv
    BY DEF Init, Calls!Init, Calls!TypeOK, Inv, TypeOK, CallsByStage, RowsTrue,
       SuccessHasRow, LateComers, RowsAreOrders, ConfirmAfterInit, Action

\* A step of one call changes that call only.
LEMMA BecomeIs ==
    ASSUME TypeOK, NEW r \in Request, NEW a \in Action, NEW from,
           NEW to \in {"waiting", "reply", "failed"}, Calls!Become(<<r, a>>, from, to)
    PROVE  /\ result[<<r, a>>] = from /\ answered' = answered /\ Calls!TypeOK'
           /\ \A q \in Request, b \in Action :
                result'[<<q, b>>] = IF q = r /\ b = a THEN to ELSE result[<<q, b>>]
           /\ \A c \in answered : result[c] # "none" => result'[c] # "none"
<1>1. /\ result[<<r, a>>] = from /\ answered' = answered
      /\ result' = [result EXCEPT ![<<r, a>>] = to]
    BY DEF Calls!Become
<1>2. <<r, a>> \in Request \X Action
    OBVIOUS
<1>3. Calls!TypeOK'
    BY <1>1, <1>2 DEF TypeOK, Calls!TypeOK
<1>4. \A q \in Request, b \in Action :
         result'[<<q, b>>] = IF q = r /\ b = a THEN to ELSE result[<<q, b>>]
    BY <1>1, <1>2 DEF TypeOK, Calls!TypeOK
<1>5. \A c \in answered : result[c] # "none" => result'[c] # "none"
    BY <1>1, <1>2 DEF TypeOK, Calls!TypeOK
<1> QED
    BY <1>1, <1>3, <1>4, <1>5

\* As long as the BPPs answer nothing and no row is added, the rows stay true.
LEMMA RowsStay ==
    ASSUME RowsTrue, UNCHANGED <<rows, orders, named>>
    PROVE  RowsTrue' /\ \A r \in Request : Confirmed(r)' = Confirmed(r)
    BY DEF RowsTrue, Confirmed

\* A row that is added is one of a confirm the BPP has answered.
LEMMA RowsGrow ==
    ASSUME TypeOK, RowsTrue, RowsAreOrders, NEW r \in Request,
           rows' \in {rows, rows \cup {Confirmed(r)}}, UNCHANGED <<orders, named>>
    PROVE  /\ rows' \subseteq Row /\ rows \subseteq rows' /\ RowsTrue'
           /\ \A q \in Request : Confirmed(q)' = Confirmed(q)
           /\ \A row \in rows' : row.target # NoTarget =>
                row.order \in orders /\ Target[row.order] = row.target
<1>1. \A q \in Request : Confirmed(q)' = Confirmed(q)
    BY DEF Confirmed
<1>2. rows' \subseteq Row /\ rows \subseteq rows'
    BY ConfirmedType DEF TypeOK
<1>3. Confirmed(r).order \in orders => Confirmed(r).order = r
    BY ConfirmedType, JobApplyAssumption DEF TypeOK
<1>4. \A row \in rows' \ rows :
        \/ row.order \in orders /\ row = Confirmed(row.order)
        \/ row.order = NoOrder /\ row.target = NoTarget
    BY <1>3, ConfirmedType DEF TypeOK
<1>5. RowsTrue'
    BY <1>4 DEF RowsTrue, Confirmed
<1>6. \A row \in rows' : row.target # NoTarget =>
        row.order \in orders /\ Target[row.order] = row.target
    BY ConfirmedType DEF RowsAreOrders, TypeOK
<1> QED
    BY <1>1, <1>2, <1>5, <1>6

\* A request that ends or passes its check leaves the late comers late.
LEMMA LateComersStay ==
    ASSUME TypeOK, CallsByStage, LateComers, NEW r \in Request, pc[r] # "ended",
           NEW to, pc' = [pc EXCEPT ![r] = to],
           \/ to = "ended"
           \/ \A p \in before[r] : Target[p] # Target[r] \/ p \notin named,
           NEW what, reply' = [reply EXCEPT ![r] = what] \/ reply' = reply,
           before' = before, named' = named,
           \A q \in Request : \/ result'[<<q, "confirm">>] = result[<<q, "confirm">>]
                              \/ result[<<q, "confirm">>] = "waiting"
    PROVE  LateComers'
<1>1. ASSUME NEW q \in Request, NEW p \in before[q]
      PROVE  reply'[p] = "applied"
    <2>1. p \in Request /\ reply[p] = "applied" /\ p # r
        BY <1>1 DEF TypeOK, LateComers, CallsByStage
    <2> QED
        BY <2>1 DEF TypeOK
<1>2. ASSUME NEW q \in Request, NEW p \in before[q], Target[p] = Target[q], p \in named
      PROVE  pc'[q] \in {"check", "ended"} /\ result'[<<q, "confirm">>] = "none"
    <2>1. pc[q] \in {"check", "ended"} /\ result[<<q, "confirm">>] = "none"
        BY <1>2 DEF LateComers
    <2>2. pc'[q] = IF q = r THEN to ELSE pc[q]
        BY DEF TypeOK
    <2>3. q = r => to = "ended"
        BY <1>2
    <2> QED
        BY <2>1, <2>2, <2>3
<1>3. before' = before /\ named' = named
    OBVIOUS
<1> QED
    BY ONLY <1>1, <1>2, <1>3 DEF LateComers

\* Every step keeps the invariant.
LEMMA InvStep == Inv /\ [Next]_vars => Inv'
<1> SUFFICES ASSUME Inv, [Next]_vars PROVE Inv'
    OBVIOUS
<1> USE JobApplyAssumption DEF Inv
<1>1. ASSUME NEW r \in Request, Arrive(r) PROVE Inv'
    BY <1>1 DEF Arrive, Goto, Succeeded, Confirmed, TypeOK, Calls!TypeOK, CallsByStage,
       RowsTrue, SuccessHasRow, LateComers, RowsAreOrders, ConfirmAfterInit, bppVars
<1>2. ASSUME NEW r \in Request, Check(r) PROVE Inv'
    <2>1. /\ pc[r] = "check" /\ UNCHANGED <<result, answered, orders, named, rows, before>>
          /\ \/ Applied(r) /\ pc' = [pc EXCEPT ![r] = "ended"]
                /\ reply' = [reply EXCEPT ![r] = "already"]
             \/ ~Applied(r) /\ pc' = [pc EXCEPT ![r] = "init"] /\ reply' = reply
             \/ pc' = [pc EXCEPT ![r] = "ended"] /\ reply' = [reply EXCEPT ![r] = "failed"]
        BY <1>2 DEF Check, Goto, End, bppVars
    <2>2. TypeOK' /\ CallsByStage' /\ ConfirmAfterInit'
        BY <2>1 DEF TypeOK, Calls!TypeOK, CallsByStage, ConfirmAfterInit
    <2>3. RowsTrue' /\ SuccessHasRow'
        BY <2>1, RowsStay DEF SuccessHasRow, TypeOK, RowsTrue, Confirmed
    <2>4. ASSUME NEW q \in before[r], Target[q] = Target[r], q \in named PROVE Applied(r)
        BY <2>4, ConfirmedType DEF LateComers, SuccessHasRow, Applied, TypeOK
    <2>5. LateComers'
        <3>1. CASE ~Applied(r) /\ pc' = [pc EXCEPT ![r] = "init"] /\ reply' = reply
            BY <2>1, <2>4, <3>1, LateComersStay
        <3>2. ASSUME NEW what, pc' = [pc EXCEPT ![r] = "ended"],
                     reply' = [reply EXCEPT ![r] = what]
              PROVE  LateComers'
            BY <2>1, <3>2, LateComersStay
        <3> QED
            BY <2>1, <3>1, <3>2
    <2>6. RowsAreOrders'
        BY <2>1 DEF RowsAreOrders, Applied, TypeOK
    <2> QED
        BY <2>2, <2>3, <2>5, <2>6
<1>3. ASSUME NEW r \in Request, NEW a \in Action, Begin(r, a) PROVE Inv'
    <2>1. /\ pc[r] = a
          /\ UNCHANGED <<pc, reply, orders, named, rows, before>>
        BY <1>3 DEF Begin, bppVars
    <2>2. /\ result[<<r, a>>] = "none" /\ answered' = answered /\ Calls!TypeOK'
          /\ \A q \in Request : result'[<<q, "init">>] =
               IF q = r /\ a = "init" THEN "waiting" ELSE result[<<q, "init">>]
          /\ \A q \in Request : result'[<<q, "confirm">>] =
               IF q = r /\ a = "confirm" THEN "waiting" ELSE result[<<q, "confirm">>]
          /\ \A c \in answered : result[c] # "none" => result'[c] # "none"
        BY <1>3, BecomeIs DEF Begin, Calls!Begin, Action
    <2>3. TypeOK' /\ CallsByStage'
        BY <2>1, <2>2 DEF TypeOK, CallsByStage, Action
    <2>4. LateComers' /\ ConfirmAfterInit'
        BY <2>1, <2>2 DEF LateComers, ConfirmAfterInit, CallsByStage, Action, TypeOK
    <2>5. RowsTrue' /\ SuccessHasRow' /\ RowsAreOrders'
        BY <2>1, <2>2, RowsStay DEF SuccessHasRow, RowsAreOrders
    <2> QED
        BY <2>3, <2>4, <2>5
<1>4. ASSUME NEW r \in Request, NEW a \in Action, BppAnswers(r, a) PROVE Inv'
    <2>1. /\ <<r, a>> \notin answered /\ result[<<r, a>>] # "none"
          /\ answered' = answered \cup {<<r, a>>}
          /\ UNCHANGED <<pc, reply, result, rows, before>>
        BY <1>4 DEF BppAnswers, Calls!Answer
    <2>2. /\ orders' \in {orders, orders \cup {r}} /\ named' \in {named, named \cup {r}}
          /\ named' \subseteq orders'
          /\ UNCHANGED <<orders, named>> \/ a = "confirm"
        BY <1>4 DEF BppAnswers, bppVars, TypeOK
    <2>3. TypeOK' /\ CallsByStage' /\ ConfirmAfterInit'
        BY <2>1, <2>2, CallType DEF TypeOK, Calls!TypeOK, CallsByStage, ConfirmAfterInit
    <2>4. \A q \in Request : <<q, "confirm">> \in answered => Confirmed(q)' = Confirmed(q)
        BY <2>1, <2>2 DEF Confirmed, TypeOK
    <2>5. RowsTrue'
        BY <2>1, <2>2, <2>4 DEF RowsTrue, CallsByStage, TypeOK
    <2>7. SuccessHasRow'
        BY <2>1, <2>2, <2>4 DEF SuccessHasRow
    <2>6. LateComers' /\ RowsAreOrders'
        BY <2>1, <2>2 DEF LateComers, RowsAreOrders, SuccessHasRow, TypeOK
    <2> QED
        BY <2>3, <2>5, <2>6, <2>7
<1>5. ASSUME NEW r \in Request, NEW a \in Action, Replied(r, a) PROVE Inv'
    <2>1. /\ pc[r] = a /\ pc' = [pc EXCEPT ![r] = IF a = "init" THEN "confirm" ELSE "store"]
          /\ <<r, a>> \in answered
          /\ UNCHANGED <<reply, orders, named, rows, before>>
        BY <1>5 DEF Replied, Goto, Calls!Reply, bppVars
    <2>2. /\ result[<<r, a>>] = "waiting" /\ answered' = answered /\ Calls!TypeOK'
          /\ \A q \in Request : result'[<<q, "init">>] =
               IF q = r /\ a = "init" THEN "reply" ELSE result[<<q, "init">>]
          /\ \A q \in Request : result'[<<q, "confirm">>] =
               IF q = r /\ a = "confirm" THEN "reply" ELSE result[<<q, "confirm">>]
          /\ \A c \in answered : result[c] # "none" => result'[c] # "none"
        BY <1>5, BecomeIs DEF Replied, Calls!Reply, Action
    <2>3. TypeOK' /\ CallsByStage'
        BY <2>1, <2>2 DEF TypeOK, CallsByStage, Action
    <2>4. LateComers' /\ ConfirmAfterInit'
        BY <2>1, <2>2 DEF LateComers, ConfirmAfterInit, CallsByStage, Action, TypeOK
    <2>5. RowsTrue' /\ SuccessHasRow' /\ RowsAreOrders'
        BY <2>1, <2>2, RowsStay DEF SuccessHasRow, RowsAreOrders
    <2> QED
        BY <2>3, <2>4, <2>5
<1>6. ASSUME NEW r \in Request, NEW a \in Action, CallFails(r, a) PROVE Inv'
    <2>1. /\ pc[r] = a /\ pc' = [pc EXCEPT ![r] = "ended"]
          /\ reply' = [reply EXCEPT ![r] = "failed"]
          /\ UNCHANGED <<orders, named, rows, before>>
        BY <1>6 DEF CallFails, End, Goto, bppVars
    <2>2. /\ result[<<r, a>>] = "waiting" /\ answered' = answered /\ Calls!TypeOK'
          /\ \A q \in Request : result'[<<q, "init">>] =
               IF q = r /\ a = "init" THEN "failed" ELSE result[<<q, "init">>]
          /\ \A q \in Request : result'[<<q, "confirm">>] =
               IF q = r /\ a = "confirm" THEN "failed" ELSE result[<<q, "confirm">>]
          /\ \A c \in answered : result[c] # "none" => result'[c] # "none"
        BY <1>6, BecomeIs DEF CallFails, Calls!Fail, Action
    <2>3. TypeOK' /\ CallsByStage'
        BY <2>1, <2>2 DEF TypeOK, CallsByStage, Action
    <2>4. LateComers' /\ ConfirmAfterInit'
        BY <2>1, <2>2 DEF LateComers, ConfirmAfterInit, CallsByStage, Action, TypeOK
    <2>5. RowsTrue' /\ SuccessHasRow' /\ RowsAreOrders'
        BY <2>1, <2>2, RowsStay DEF SuccessHasRow, RowsAreOrders, TypeOK
    <2> QED
        BY <2>3, <2>4, <2>5
<1>7. ASSUME NEW r \in Request, Store(r) PROVE Inv'
    <2>1. /\ pc[r] = "store" /\ pc' = [pc EXCEPT ![r] = "ended"]
          /\ \/ reply' = [reply EXCEPT ![r] = "applied"] /\ Confirmed(r) \in rows'
             \/ reply' = [reply EXCEPT ![r] = "failed"]
          /\ rows' \in {rows, rows \cup {Confirmed(r)}}
          /\ UNCHANGED <<result, answered, orders, named, before>>
        BY <1>7 DEF Store, End, Goto, bppVars
    <2>2. /\ rows' \subseteq Row /\ rows \subseteq rows' /\ RowsTrue'
          /\ \A q \in Request : Confirmed(q)' = Confirmed(q)
          /\ \A row \in rows' : row.target # NoTarget =>
               row.order \in orders /\ Target[row.order] = row.target
        BY <2>1, RowsGrow
    <2>3. TypeOK' /\ CallsByStage' /\ ConfirmAfterInit'
        BY <2>1, <2>2 DEF TypeOK, Calls!TypeOK, CallsByStage, ConfirmAfterInit
    <2>4. SuccessHasRow' /\ RowsAreOrders'
        BY <2>1, <2>2 DEF SuccessHasRow, RowsAreOrders, CallsByStage, TypeOK
    <2>5. LateComers'
        BY <2>1, LateComersStay
    <2> QED
        BY <2>2, <2>3, <2>4, <2>5
<1>8. ASSUME NEW r \in Request, HangUp(r) PROVE Inv'
    <2>1. /\ pc[r] \notin {"idle", "ended"} /\ pc' = [pc EXCEPT ![r] = "ended"]
          /\ reply' = [reply EXCEPT ![r] = "gone"]
          /\ rows' \in {rows, rows \cup {Confirmed(r)}}
          /\ UNCHANGED <<orders, named, before>>
        BY <1>8 DEF HangUp, End, Goto, bppVars
    <2>2. /\ rows' \subseteq Row /\ rows \subseteq rows' /\ RowsTrue'
          /\ \A q \in Request : Confirmed(q)' = Confirmed(q)
          /\ \A row \in rows' : row.target # NoTarget =>
               row.order \in orders /\ Target[row.order] = row.target
        BY <2>1, RowsGrow
    <2>3. /\ answered' = answered /\ Calls!TypeOK'
          /\ \A q \in Request : \/ result'[<<q, "confirm">>] = result[<<q, "confirm">>]
                                \/ result[<<q, "confirm">>] = "waiting"
          /\ \A c \in answered : result'[c] # "none"
        <3>1. CASE UNCHANGED <<result, answered>>
            BY <3>1 DEF TypeOK, Calls!TypeOK, CallsByStage
        <3>2. ASSUME NEW a \in Action, Calls!Fail(<<r, a>>)
              PROVE  /\ answered' = answered /\ Calls!TypeOK'
                     /\ \A q \in Request :
                          \/ result'[<<q, "confirm">>] = result[<<q, "confirm">>]
                          \/ result[<<q, "confirm">>] = "waiting"
                     /\ \A c \in answered : result'[c] # "none"
            BY <3>2, BecomeIs DEF Calls!Fail, CallsByStage, Action
        <3> QED
            BY <1>8, <3>1, <3>2 DEF HangUp
    <2>4. TypeOK' /\ CallsByStage' /\ ConfirmAfterInit'
        BY <2>1, <2>2, <2>3 DEF TypeOK, CallsByStage, ConfirmAfterInit, Action
    <2>5. SuccessHasRow' /\ RowsAreOrders'
        BY <2>1, <2>2, <2>3 DEF SuccessHasRow, RowsAreOrders, CallsByStage, TypeOK
    <2>6. LateComers'
        BY <2>1, <2>3, LateComersStay
    <2> QED
        BY <2>2, <2>4, <2>5, <2>6
<1>9. CASE UNCHANGED vars
    BY <1>9 DEF vars, bppVars, Confirmed, TypeOK, Calls!TypeOK, CallsByStage, RowsTrue,
       SuccessHasRow, LateComers, RowsAreOrders, ConfirmAfterInit
<1> QED
    BY <1>1, <1>2, <1>3, <1>4, <1>5, <1>6, <1>7, <1>8, <1>9 DEF Next

\* The invariant holds in every state of every behaviour.
THEOREM InvAlways == Spec => []Inv
    BY InvInit, InvStep, PTL DEF Spec

-----------------------------------------------------------------------------
\* Every variable stays within its type.
THEOREM TypeCorrect == Spec => []TypeOK
    BY InvAlways, PTL DEF Inv

\* A request that arrives after one for the same user and job was told of
\* success does not order again.
THEOREM OnceInSequence == Spec => []OrderedOnceInSequence
<1>1. Inv => OrderedOnceInSequence
    BY DEF Inv, LateComers, CallsByStage, OrderedOnceInSequence, TypeOK
<1> QED
    BY <1>1, InvAlways, PTL

\* An order that left no row was reported to its caller as an error.
THEOREM OrphansTold == Spec => []OrphanOrderTold
<1>1. Inv => OrphanOrderTold
    BY ConfirmedType DEF Inv, CallsByStage, SuccessHasRow, OrphanOrderTold, TypeOK
<1> QED
    BY <1>1, InvAlways, PTL

\* The table, and the reply "already applied", speak of orders a BPP made.
THEOREM RowsAlwaysOrders == Spec => []RowsAreOrders
    BY InvAlways, PTL DEF Inv

\* Nothing is confirmed before its init was answered.
THEOREM InitBeforeConfirm == Spec => []ConfirmAfterInit
    BY InvAlways, PTL DEF Inv

-----------------------------------------------------------------------------
\* The handler sees of its calls what CallPromise allows, and what PendingCalls keeps
\* (PendingCallsProofs!CallsKeepPromise): each is begun once, and dropped or answered once.
THEOREM CallsAsPromised == Spec => Calls!Spec
<1>1. Init => Calls!Init
    BY DEF Init
<1>2. [Next]_vars => [Calls!Next]_(Calls!vars)
  <2> SUFFICES ASSUME [Next]_vars
               PROVE  [Calls!Next]_(Calls!vars)
      OBVIOUS
  <2>1. ASSUME NEW r \in Request, NEW a \in Action,
               Begin(r, a) \/ BppAnswers(r, a) \/ Replied(r, a) \/ CallFails(r, a)
        PROVE  Calls!Next
      BY <2>1, CallType DEF Begin, BppAnswers, Replied, CallFails, Calls!Next
  <2>2. ASSUME NEW r \in Request, Arrive(r) \/ Check(r) \/ Store(r)
        PROVE  UNCHANGED Calls!vars
      BY <2>2 DEF Arrive, Check, Store, Calls!vars
  <2>3. ASSUME NEW r \in Request, HangUp(r)
        PROVE  [Calls!Next]_(Calls!vars)
      BY <2>3, CallType DEF HangUp, Calls!Next, Calls!vars
  <2>4. CASE UNCHANGED vars
      BY <2>4 DEF vars, Calls!vars
  <2> QED
      BY <2>1, <2>2, <2>3, <2>4 DEF Next
<1> QED
    BY <1>1, <1>2, PTL DEF Spec, Calls!Spec
=============================================================================
