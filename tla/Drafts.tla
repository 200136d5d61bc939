------------------------------- MODULE Drafts -------------------------------
(***************************************************************************)
(* Draft applications (services/job_draft.rs, db/job_draft.rs): a user     *)
(* keeps an application for a job that was not sent yet.                   *)
(*                                                                         *)
(* A draft is created by a look-up and an upsert, with other requests in   *)
(* between. The look-up goes by user and job, the upsert by user, job and  *)
(* BPP. Updates and deletions go by the id alone, which a client learned   *)
(* from a list it read some time ago.                                      *)
(***************************************************************************)
EXTENDS Naturals

CONSTANTS
    Request,        \* requests to create a draft, at work at the same time
    User, Job, Bpp,
    Content         \* what a draft says: bpp_uri and metadata

VARIABLES
    rows,     \* draft_applications
    nextId,   \* the sequence behind draft_applications.id
    pc, draft,  \* where each request stands, and the draft it is about
    \* History variables: no action reads them.
    raced,    \* users and jobs for which two requests were past the look-up at once
    given     \* the ids ever given to drafts, with what each was given to

vars == <<rows, nextId, pc, draft, raced, given>>

Key  == [user : User, job : Job, bpp : Bpp]
Id   == Nat \ {0}
Row  == [id : Id, key : Key, content : Content]

TypeOK ==
    /\ rows \subseteq Row
    /\ nextId \in Id
    /\ pc \in [Request -> {"idle", "insert"}]
    /\ draft \in [Request -> [key : Key, content : Content]]
    /\ raced \subseteq User \X Job
    /\ given \subseteq [id : Id, key : Key]

Init ==
    /\ rows = {} /\ nextId = 1
    /\ pc = [r \in Request |-> "idle"]
    /\ draft \in [Request -> [key : Key, content : Content]]
    /\ raced = {} /\ given = {}

-----------------------------------------------------------------------------
\* The drafts of a user for a job, whatever the BPP.
DraftsOf(k) == {d \in rows : d.key.user = k.user /\ d.key.job = k.job}

\* Requests for this user and job that are past the look-up.
Inserting(k) ==
    {r \in Request : /\ pc[r] = "insert"
                     /\ draft[r].key.user = k.user /\ draft[r].key.job = k.job}

\* A user who has a draft for the job is shown it, and nothing is stored; a look-up
\* that fails ends the request as well.
LookUp(r, k, c) ==
    /\ pc[r] = "idle" /\ DraftsOf(k) = {}
    /\ pc' = [pc EXCEPT ![r] = "insert"]
    /\ draft' = [draft EXCEPT ![r] = [key |-> k, content |-> c]]
    /\ raced' = IF Inserting(k) = {} THEN raced ELSE raced \cup {<<k.user, k.job>>}
    /\ UNCHANGED <<rows, nextId, given>>

\* INSERT ... ON CONFLICT (user_id, job_id, bpp_id) DO UPDATE: a draft that is there
\* keeps its id. The sequence goes on in either case.
Upserted(r) ==
    LET same == {d \in rows : d.key = draft[r].key}
    IN  IF same = {}
        THEN rows \cup {[id |-> nextId, key |-> draft[r].key, content |-> draft[r].content]}
        ELSE (rows \ same) \cup {[d EXCEPT !.content = draft[r].content] : d \in same}

Done(r) == pc' = [pc EXCEPT ![r] = "idle"] /\ UNCHANGED <<draft, raced>>

Insert(r) ==
    /\ pc[r] = "insert" /\ Done(r)
    /\ rows' = Upserted(r) /\ nextId' = nextId + 1
    /\ given' = given \cup {[id |-> d.id, key |-> d.key] : d \in rows'}

\* The statement fails before it changes a row, with or without an id spent on it;
\* or the client hangs up before it is sent. An error after the commit is an Insert.
InsertFails(r) ==
    /\ pc[r] = "insert" /\ Done(r)
    /\ nextId' \in {nextId, nextId + 1}
    /\ UNCHANGED <<rows, given>>

\* UPDATE ... WHERE id: the user, job and BPP that the request names are not looked
\* at, and an id that no draft has is a success as well.
Update(i, c) ==
    /\ rows' = {IF d.id = i THEN [d EXCEPT !.content = c] ELSE d : d \in rows}
    /\ UNCHANGED <<nextId, pc, draft, raced, given>>

\* DELETE ... WHERE id.
Delete(i) ==
    /\ rows' = {d \in rows : d.id # i}
    /\ UNCHANGED <<nextId, pc, draft, raced, given>>

Restart ==
    /\ pc' = [r \in Request |-> "idle"]
    /\ UNCHANGED <<rows, nextId, draft, raced, given>>

Next ==
    \/ \E r \in Request :
           \/ \E k \in Key, c \in Content : LookUp(r, k, c)
           \/ Insert(r) \/ InsertFails(r)
    \/ \E i \in Id : (\E c \in Content : Update(i, c)) \/ Delete(i)
    \/ Restart

Spec == Init /\ [][Next]_vars

-----------------------------------------------------------------------------
\* A user has one draft for a job (services/job_draft.rs:41-60), unless two requests
\* for it were past the look-up at once.
OneDraft ==
    \A d, e \in rows :
        d.key.user = e.key.user /\ d.key.job = e.key.job /\ d # e
            => <<d.key.user, d.key.job>> \in raced

\* An id leads to what it was first given to, or to nothing, for ever: what a client
\* updates or deletes is the draft it was listed, however late it comes
\* (services/job_draft.rs:190, 215).
IdsKeepTheirDraft ==
    /\ \A x, y \in given : x.id = y.id => x = y
    /\ \A d \in rows : [id |-> d.id, key |-> d.key] \in given
    /\ \A d, e \in rows : d.id = e.id => d = e
=============================================================================
