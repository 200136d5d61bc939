------------------------------ MODULE JobApply ------------------------------
(***************************************************************************)
(* process_job_apply (services/job_apply.rs), the handler under both apply *)
(* routes: look for an earlier application of the user for the job, call   *)
(* init and then confirm at the BPP, and store a row of job_applications   *)
(* from what the on_confirm carries.                                       *)
(*                                                                         *)
(* The two calls are those of PendingCalls, of which only the promise is   *)
(* used here (CallPromise). Requests run at the same time, for the same    *)
(* user and job or not; a call, a statement or the client may fail at any  *)
(* point, after the BPP has made an order too.                             *)
(***************************************************************************)
EXTENDS Naturals, FiniteSets

CONSTANTS
    Request,    \* apply requests
    Target,     \* Target[r]: the user and the job of the request
    NoTarget,   \* what an on_confirm names that does not echo user and job:
                \* empty strings, or the fulfilment's id for the user
    NoOrder     \* the empty order id

ASSUME JobApplyAssumption ==
    /\ \A r \in Request : Target[r] # NoTarget
    /\ NoOrder \notin Request

VARIABLES
    pc,         \* where the handler of each request stands
    reply,      \* what the caller was told
    result,     \* the calls as their caller sees them        (CallPromise)
    answered,   \* the calls the BPP has answered             (CallPromise)
    orders,     \* requests whose confirm made an order at the BPP (external)
    named,      \* those whose on_confirm echoes the user and job  (external)
    rows,       \* table job_applications
    before      \* history: the requests that had succeeded when one arrived

Action == {"init", "confirm"}

Calls == INSTANCE CallPromise WITH Call <- Request \X Action

bppVars == <<orders, named>>

vars == <<pc, reply, result, answered, bppVars, rows, before>>

\* A row; the order is named by the request whose confirm made it.
Row == [target : {Target[r] : r \in Request} \cup {NoTarget},
        order  : Request \cup {NoOrder}]

TypeOK ==
    /\ pc \in [Request -> {"idle", "check", "init", "confirm", "store", "ended"}]
    /\ reply \in [Request -> {"none", "already", "applied", "failed", "gone"}]
    /\ Calls!TypeOK
    /\ orders \subseteq Request /\ named \subseteq orders
    /\ rows \subseteq Row
    /\ before \in [Request -> SUBSET Request]

Init ==
    /\ pc = [r \in Request |-> "idle"]
    /\ reply = [r \in Request |-> "none"]
    /\ Calls!Init
    /\ orders = {} /\ named = {} /\ rows = {}
    /\ before = [r \in Request |-> {}]

-----------------------------------------------------------------------------
Goto(r, from, to) ==
    /\ pc[r] = from
    /\ pc' = [pc EXCEPT ![r] = to]

End(r, from, what) ==
    /\ Goto(r, from, "ended")
    /\ reply' = [reply EXCEPT ![r] = what]

Succeeded == {q \in Request : reply[q] = "applied"}

Arrive(r) ==
    /\ Goto(r, "idle", "check")
    /\ before' = [before EXCEPT ![r] = Succeeded]
    /\ UNCHANGED <<reply, result, answered, bppVars, rows>>

\* Mutant: the lookup goes by the order, which a new request cannot have.
AppliedByOrder(r) == \E row \in rows : row.order = r

\* get_job_applications(user, job) returns a row.
Applied(r) == \E row \in rows : row.target = Target[r]

Check(r) ==
    /\ \/ Applied(r) /\ End(r, "check", "already")
       \/ ~Applied(r) /\ Goto(r, "check", "init") /\ UNCHANGED reply
       \/ End(r, "check", "failed")       \* the SELECT fails
    /\ UNCHANGED <<result, answered, bppVars, rows, before>>

\* call_and_wait_for_action: the step of the handler is the action's name.
Begin(r, a) ==
    /\ pc[r] = a
    /\ Calls!Begin(<<r, a>>)
    /\ UNCHANGED <<pc, reply, bppVars, rows, before>>

\* The BPP answers: an on_confirm carries an order that echoes the user and the
\* job, one that does not, or none at all.                        (external)
BppAnswers(r, a) ==
    /\ Calls!Answer(<<r, a>>)
    /\ \/ /\ a = "confirm"
          /\ orders' = orders \cup {r}
          /\ named' \in {named, named \cup {r}}
       \/ UNCHANGED bppVars
    /\ UNCHANGED <<pc, reply, rows, before>>

\* The answer of init is dropped (_on_init); that of confirm is to be stored.
Replied(r, a) ==
    /\ Calls!Reply(<<r, a>>)
    /\ Goto(r, a, IF a = "init" THEN "confirm" ELSE "store")
    /\ UNCHANGED <<reply, bppVars, rows, before>>

\* Mutant: as its answer is dropped, so is the error of init.
CallFailsGoesOn(r, a) ==
    /\ Calls!Fail(<<r, a>>)
    /\ \/ a = "init" /\ Goto(r, a, "confirm") /\ UNCHANGED reply
       \/ a = "confirm" /\ End(r, a, "failed")
    /\ UNCHANGED <<bppVars, rows, before>>

\* The post fails, the ten seconds pass, or the sender is dropped.
CallFails(r, a) ==
    /\ Calls!Fail(<<r, a>>)
    /\ End(r, a, "failed")
    /\ UNCHANGED <<bppVars, rows, before>>

\* Mutant: user and job are taken from the request.
ConfirmedOfRequest(r) ==
    [target |-> Target[r], order |-> IF r \in orders THEN r ELSE NoOrder]

\* Mutant: two bound values of the INSERT are swapped.
ConfirmedSwapped(r) ==
    [target |-> IF r \in orders THEN r ELSE NoOrder,
     order  |-> IF r \in named THEN Target[r] ELSE NoTarget]

\* The row made of the on_confirm: user, job and order are those it names.
Confirmed(r) ==
    [target |-> IF r \in named THEN Target[r] ELSE NoTarget,
     order  |-> IF r \in orders THEN r ELSE NoOrder]

\* Mutant: the result of store_job_applications is logged only.
StoreIgnored(r) ==
    /\ End(r, "store", "applied")
    /\ \/ rows' = rows \cup {Confirmed(r)}
       \/ rows' = rows
    /\ UNCHANGED <<result, answered, bppVars, before>>

\* INSERT: order_id is UNIQUE. An error comes with the row stored or not.
Store(r) ==
    /\ \/ /\ \A row \in rows : row.order # Confirmed(r).order
          /\ rows' = rows \cup {Confirmed(r)}
          /\ End(r, "store", "applied") \/ End(r, "store", "failed")
       \/ rows' = rows /\ End(r, "store", "failed")
    /\ UNCHANGED <<result, answered, bppVars, before>>

\* The client hangs up: the future is dropped at its await, a call under way
\* with it; the INSERT may still be executed.
HangUp(r) ==
    /\ pc[r] \notin {"idle", "ended"}
    /\ End(r, pc[r], "gone")
    /\ \/ \E a \in Action : pc[r] = a /\ Calls!Fail(<<r, a>>)
       \/ (\A a \in Action : result[<<r, a>>] # "waiting") /\ UNCHANGED <<result, answered>>
    /\ \/ rows' = rows
       \/ /\ pc[r] = "store" /\ \A row \in rows : row.order # Confirmed(r).order
          /\ rows' = rows \cup {Confirmed(r)}
    /\ UNCHANGED <<bppVars, before>>

-----------------------------------------------------------------------------
Next ==
    \E r \in Request :
        \/ Arrive(r) \/ Check(r) \/ Store(r) \/ HangUp(r)
        \/ \E a \in Action : Begin(r, a) \/ BppAnswers(r, a) \/ Replied(r, a) \/ CallFails(r, a)

Spec == Init /\ [][Next]_vars

-----------------------------------------------------------------------------
(* Properties *)

\* Whoever is told that the application is in before another request for the
\* same user and job arrives, keeps that request from ordering again; only
\* requests that overlap, or that follow one that was told of an error, make a
\* second order (the SELECT of job_apply.rs:62-73 and the INSERT of 134 are
\* not one transaction). It takes a BPP that echoes the user and the job: the
\* row is made of what the on_confirm names.
OrderedOnceInSequence ==
    \A r \in Request : \A q \in before[r] :
        (Target[q] = Target[r] /\ q \in named) => r \notin orders

\* A request that a BPP made an order for, and that left no row, was not told of
\* success; nothing else in the service knows of that order.
OrphanOrderTold ==
    \A r \in Request :
        (pc[r] = "ended" /\ r \in orders /\ \A row \in rows : row.order # r) =>
            reply[r] \in {"failed", "gone"}

\* The table says that a user has applied for a job only when a BPP made the
\* order, and a request is turned away as "already applied" only then: a
\* confirm that came back without an order does not count as an application.
RowsAreOrders ==
    /\ \A row \in rows : row.target # NoTarget =>
         row.order \in orders /\ Target[row.order] = row.target
    /\ \A r \in Request : reply[r] = "already" =>
         \E q \in orders : Target[q] = Target[r]

\* A BPP is asked to confirm only what it has answered an init for.
ConfirmAfterInit ==
    \A r \in Request : result[<<r, "confirm">>] # "none" => <<r, "init">> \in answered

\* What the handler tells a second request: "User has already applied for this
\* job" (job_apply.rs:77). Two requests that overlap both pass the check.
AppliedOnce ==
    \A r, q \in rows : (r.target = q.target /\ r.target # NoTarget) => r = q
=============================================================================
