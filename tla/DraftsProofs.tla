---------------------------- MODULE DraftsProofs ----------------------------
(***************************************************************************)
(* Drafts: one per user and job unless requests overlapped, and ids that   *)
(* keep their draft. For any number of requests, users, jobs and BPPs.     *)
(***************************************************************************)
EXTENDS Drafts, TLAPS

\* The user and job of a key.
Pair(k) == <<k.user, k.job>>

\* Two drafts, two requests past the look-up, or one of each, for one user and job
\* come from requests that were past the look-up at once.
OneDraftOrRaced ==
    /\ OneDraft
    /\ \A r, s \in Request :
           pc[r] = "insert" /\ pc[s] = "insert" /\ r # s
           /\ Pair(draft[r].key) = Pair(draft[s].key)
               => Pair(draft[r].key) \in raced
    /\ \A r \in Request, d \in rows :
           pc[r] = "insert" /\ Pair(draft[r].key) = Pair(d.key)
               => Pair(d.key) \in raced

\* Ids that were given are behind the sequence.
IdsGiven == IdsKeepTheirDraft /\ \A x \in given : x.id < nextId

\* The type invariant (db/job_draft.rs:6-28).
THEOREM TypeCorrect == Spec => []TypeOK
<1>1. Init => TypeOK
  BY DEF Init, TypeOK, Id
<1>2. TypeOK /\ [Next]_vars => TypeOK'
  <2> SUFFICES ASSUME TypeOK, [Next]_vars PROVE TypeOK'
    OBVIOUS
  <2> USE DEF TypeOK
  <2>1. ASSUME NEW r \in Request, NEW k \in Key, NEW c \in Content, LookUp(r, k, c)
        PROVE TypeOK'
    <3>1. raced' \subseteq User \X Job
      BY <2>1 DEF LookUp, Key
    <3> QED
      BY <2>1, <3>1 DEF LookUp
  <2>2. ASSUME NEW r \in Request, Insert(r) PROVE TypeOK'
    <3>1. rows' \subseteq Row
      BY <2>2 DEF Insert, Upserted, Row, Id
    <3>2. nextId' \in Id
      BY <2>2 DEF Insert, Id
    <3>3. given' \subseteq [id : Id, key : Key]
      BY <2>2, <3>1 DEF Insert, Row
    <3> QED
      BY <2>2, <3>1, <3>2, <3>3 DEF Insert, Done
  <2>3. ASSUME NEW r \in Request, InsertFails(r) PROVE TypeOK'
    BY <2>3 DEF InsertFails, Done, Id
  <2>4. ASSUME NEW i \in Id, NEW c \in Content, Update(i, c) PROVE TypeOK'
    BY <2>4 DEF Update, Row
  <2>5. ASSUME NEW i \in Id, Delete(i) PROVE TypeOK'
    BY <2>5 DEF Delete
  <2>6. CASE Restart
    BY <2>6 DEF Restart
  <2>7. CASE UNCHANGED vars
    BY <2>7 DEF vars
  <2> QED
    BY <2>1, <2>2, <2>3, <2>4, <2>5, <2>6, <2>7 DEF Next
<1> QED
  BY <1>1, <1>2, PTL DEF Spec

\* What is in the table after an upsert was there before, by id and key, or is one new
\* draft of a key that had none; and ids stay apart.
LEMMA UpsertedRows ==
    ASSUME TypeOK, IdsGiven, NEW r \in Request
    PROVE  /\ \A d \in Upserted(r) :
                  \/ \E x \in rows : d.id = x.id /\ d.key = x.key
                  \/ /\ d.id = nextId /\ d.key = draft[r].key
                     /\ \A x \in rows : x.key # d.key
           /\ \A d, e \in Upserted(r) : d.id = e.id => d = e
<1> DEFINE same == {d \in rows : d.key = draft[r].key}
           new == [id |-> nextId, key |-> draft[r].key, content |-> draft[r].content]
           Say(d) == [d EXCEPT !.content = draft[r].content]
<1>1. CASE same = {}
  <2>1. Upserted(r) = rows \cup {new}
    BY <1>1 DEF Upserted
  <2>2. \A x \in rows : x.key # new.key
    BY <1>1
  <2>3. \A x \in rows : x.id # nextId
    <3>1. \A x \in rows : x.id < nextId /\ x.id \in Nat
      BY DEF IdsGiven, IdsKeepTheirDraft, TypeOK, Row, Id
    <3> QED
      BY <3>1 DEF TypeOK, Id
  <2>4. \A d, e \in rows : d.id = e.id => d = e
    BY DEF IdsGiven, IdsKeepTheirDraft
  <2> QED
    BY <2>1, <2>2, <2>3, <2>4
<1>2. CASE same # {}
  <2> DEFINE After(x) == IF x \in same THEN Say(x) ELSE x
  <2>1. Upserted(r) = (rows \ same) \cup {Say(d) : d \in same}
    BY <1>2 DEF Upserted
  <2>2. \A x \in rows : Say(x).id = x.id /\ Say(x).key = x.key
    BY DEF TypeOK, Row
  <2>3. \A d \in Upserted(r) : \E x \in rows : d = After(x)
    BY <2>1
  <2>4. \A x \in rows : After(x).id = x.id /\ After(x).key = x.key
    BY <2>2
  <2>5. \A x, y \in rows : x.id = y.id => x = y
    BY DEF IdsGiven, IdsKeepTheirDraft
  <2> HIDE DEF After
  <2> QED
    BY <2>3, <2>4, <2>5
<1> QED
  BY <1>1, <1>2

\* The ids that were given stay with their drafts: the inductive invariant.
LEMMA IdsAlwaysGiven == Spec => []IdsGiven
<1>1. Init => IdsGiven
  BY DEF Init, IdsGiven, IdsKeepTheirDraft
<1>2. TypeOK /\ TypeOK' /\ IdsGiven /\ [Next]_vars => IdsGiven'
  <2> SUFFICES ASSUME TypeOK, TypeOK', IdsGiven, [Next]_vars PROVE IdsGiven'
    OBVIOUS
  <2>1. ASSUME NEW r \in Request, NEW k \in Key, NEW c \in Content, LookUp(r, k, c)
        PROVE IdsGiven'
    BY <2>1 DEF LookUp, IdsGiven, IdsKeepTheirDraft
  <2>2. ASSUME NEW r \in Request, Insert(r) PROVE IdsGiven'
    <3> DEFINE IdKey(d) == [id |-> d.id, key |-> d.key]
    <3>1. /\ rows' = Upserted(r) /\ nextId' = nextId + 1
          /\ given' = given \cup {IdKey(d) : d \in rows'}
      BY <2>2 DEF Insert
    <3>2. nextId \in Nat /\ \A x \in given : x.id \in Nat /\ x.id < nextId
      BY DEF TypeOK, Id, IdsGiven
    <3>3. \A x \in rows : IdKey(x) \in given
      BY DEF IdsGiven, IdsKeepTheirDraft
    <3>4. ASSUME NEW y \in given'
          PROVE  y \in given \/ y = [id |-> nextId, key |-> draft[r].key]
      BY <3>1, <3>3, UpsertedRows
    <3>5. \A x, y \in given' : x.id = y.id => x = y
      BY <3>2, <3>4 DEF IdsGiven, IdsKeepTheirDraft
    <3>6. \A y \in given' : y.id < nextId'
      <4>1. SUFFICES ASSUME NEW y \in given' PROVE y.id < nextId + 1
        BY <3>1
      <4>2. CASE y \in given
        <5>1. y.id \in Nat /\ y.id < nextId
          BY <3>2, <4>2
        <5> QED
          BY <5>1, <3>2
      <4>3. CASE y = [id |-> nextId, key |-> draft[r].key]
        <5>1. y.id = nextId
          BY <4>3
        <5> QED
          BY <5>1, <3>2
      <4> QED
        BY <4>2, <4>3, <3>4
    <3>7. \A d, e \in rows' : d.id = e.id => d = e
      BY <3>1, UpsertedRows
    <3>8. \A d \in rows' : IdKey(d) \in given'
      BY <3>1
    <3> QED
      BY <3>5, <3>6, <3>7, <3>8 DEF IdsGiven, IdsKeepTheirDraft
  <2>3. ASSUME NEW r \in Request, InsertFails(r) PROVE IdsGiven'
    <3>1. \A x \in given : x.id \in Nat
      BY DEF TypeOK, Id
    <3>2. nextId' \in {nextId, nextId + 1} /\ nextId \in Nat /\ UNCHANGED <<rows, given>>
      BY <2>3 DEF InsertFails, TypeOK, Id
    <3>3. \A x \in given : x.id < nextId
      BY DEF IdsGiven
    <3>4. \A x \in given : x.id < nextId'
      BY <3>1, <3>2, <3>3
    <3> QED
      BY <3>2, <3>4 DEF IdsGiven, IdsKeepTheirDraft
  <2>4. ASSUME NEW i \in Id, NEW c \in Content, Update(i, c) PROVE IdsGiven'
    <3> DEFINE Say(d) == IF d.id = i THEN [d EXCEPT !.content = c] ELSE d
    <3>1. \A d \in rows' : \E x \in rows : d = Say(x)
      BY <2>4 DEF Update
    <3>2. \A x \in rows : Say(x).id = x.id /\ Say(x).key = x.key
      BY DEF TypeOK, Row
    <3>3. UNCHANGED <<nextId, given>>
      BY <2>4 DEF Update
    <3> HIDE DEF Say
    <3> QED
      BY <3>1, <3>2, <3>3 DEF IdsGiven, IdsKeepTheirDraft
  <2>5. ASSUME NEW i \in Id, Delete(i) PROVE IdsGiven'
    BY <2>5 DEF Delete, IdsGiven, IdsKeepTheirDraft
  <2>6. CASE Restart
    BY <2>6 DEF Restart, IdsGiven, IdsKeepTheirDraft
  <2>7. CASE UNCHANGED vars
    BY <2>7 DEF vars, IdsGiven, IdsKeepTheirDraft
  <2> QED
    BY <2>1, <2>2, <2>3, <2>4, <2>5, <2>6, <2>7 DEF Next
<1> QED
  BY <1>1, <1>2, TypeCorrect, PTL DEF Spec

\* An id leads to what it was first given to, or to nothing, for ever: an update or a
\* deletion that comes late touches the draft the client was listed, or none
\* (services/job_draft.rs:190, 215).
THEOREM IdsKept == Spec => []IdsKeepTheirDraft
<1>1. IdsGiven => IdsKeepTheirDraft
  BY DEF IdsGiven
<1> QED
  BY <1>1, IdsAlwaysGiven, PTL

\* Rows that go by their old ids and keys keep the first two parts of the invariant.
LEMMA SameKeys ==
    ASSUME IdsGiven', OneDraftOrRaced, raced \subseteq raced',
           \A d \in rows' : \E x \in rows : d.id = x.id /\ d.key = x.key
    PROVE  OneDraft'
<1> SUFFICES ASSUME NEW d \in rows', NEW e \in rows', Pair(d.key) = Pair(e.key), d # e
             PROVE  Pair(d.key) \in raced'
  BY DEF OneDraft, Pair
<1>1. d.id # e.id
  BY DEF IdsGiven, IdsKeepTheirDraft
<1>2. PICK x \in rows : d.id = x.id /\ d.key = x.key
  OBVIOUS
<1>3. PICK y \in rows : e.id = y.id /\ e.key = y.key
  OBVIOUS
<1> QED
  BY <1>1, <1>2, <1>3 DEF OneDraftOrRaced, OneDraft, Pair

\* A user has one draft for a job, unless two requests for it were past the look-up at
\* once (services/job_draft.rs:41-60).
THEOREM OneDraftEach == Spec => []OneDraft
<1>1. Init => OneDraftOrRaced
  BY DEF Init, OneDraftOrRaced, OneDraft
<1>2. TypeOK /\ IdsGiven /\ IdsGiven' /\ OneDraftOrRaced /\ [Next]_vars => OneDraftOrRaced'
  <2> SUFFICES ASSUME TypeOK, IdsGiven, IdsGiven', OneDraftOrRaced, [Next]_vars
               PROVE  OneDraftOrRaced'
    OBVIOUS
  <2>1. ASSUME NEW r \in Request, NEW k \in Key, NEW c \in Content, LookUp(r, k, c)
        PROVE OneDraftOrRaced'
    <3>1. /\ pc' = [pc EXCEPT ![r] = "insert"] /\ rows' = rows
          /\ draft' = [draft EXCEPT ![r] = [key |-> k, content |-> c]]
          /\ raced \subseteq raced'
          /\ draft'[r].key = k /\ pc \in [Request -> {"idle", "insert"}]
          /\ \A s \in Request \ {r} : pc'[s] = pc[s] /\ draft'[s] = draft[s]
      BY <2>1 DEF LookUp, TypeOK
    <3>2. ASSUME NEW s \in Request \ {r}, pc[s] = "insert", Pair(draft[s].key) = Pair(k)
          PROVE  Pair(k) \in raced'
      <4>1. s \in Inserting(k)
        BY <3>2 DEF Inserting, Pair
      <4> QED
        BY <2>1, <4>1 DEF LookUp, Pair
    <3>3. \A d \in rows : Pair(d.key) # Pair(k)
      BY <2>1 DEF LookUp, DraftsOf, Pair
    <3>4. OneDraft'
      BY <3>1 DEF OneDraftOrRaced, OneDraft
    <3> QED
      BY <3>1, <3>2, <3>3, <3>4 DEF OneDraftOrRaced
  <2>2. ASSUME NEW r \in Request, Insert(r) PROVE OneDraftOrRaced'
    <3>1. /\ pc[r] = "insert" /\ pc' = [pc EXCEPT ![r] = "idle"]
          /\ UNCHANGED <<draft, raced>> /\ rows' = Upserted(r)
          /\ pc \in [Request -> {"idle", "insert"}]
      BY <2>2 DEF Insert, Done, TypeOK
    <3>2. \A s \in Request : pc'[s] = "insert" => pc[s] = "insert" /\ s # r
      BY <3>1
    <3>3. ASSUME NEW d \in rows'
          PROVE  \/ \E x \in rows : d.id = x.id /\ d.key = x.key
                 \/ d.id = nextId /\ d.key = draft[r].key
      BY <3>1, UpsertedRows
    <3>4. OneDraft'
      <4> SUFFICES ASSUME NEW d \in rows', NEW e \in rows', Pair(d.key) = Pair(e.key), d # e
                   PROVE  Pair(d.key) \in raced
        BY <3>1 DEF OneDraft, Pair
      <4>1. d.id # e.id
        BY DEF IdsGiven, IdsKeepTheirDraft
      <4>2. ASSUME NEW x \in rows, NEW y \in rows, d.id = x.id, d.key = x.key,
                   e.id = y.id, e.key = y.key
            PROVE  Pair(d.key) \in raced
        BY <4>1, <4>2 DEF OneDraftOrRaced, OneDraft, Pair
      <4>3. ASSUME NEW x \in rows, d.key = draft[r].key, e.key = x.key
            PROVE  Pair(d.key) \in raced
        BY <4>3, <3>1 DEF OneDraftOrRaced
      <4>4. ASSUME NEW x \in rows, e.key = draft[r].key, d.key = x.key
            PROVE  Pair(d.key) \in raced
        BY <4>4, <3>1 DEF OneDraftOrRaced
      <4> QED
        BY <3>3, <4>1, <4>2, <4>3, <4>4
    <3>5. ASSUME NEW s \in Request, NEW d \in rows', pc'[s] = "insert",
                 Pair(draft[s].key) = Pair(d.key)
          PROVE  Pair(d.key) \in raced
      <4>1. pc[s] = "insert" /\ s # r
        BY <3>2, <3>5
      <4>2. CASE d.key = draft[r].key
        BY <4>1, <4>2, <3>1, <3>5 DEF OneDraftOrRaced
      <4>3. ASSUME NEW x \in rows, d.key = x.key PROVE Pair(d.key) \in raced
        BY <4>1, <4>3, <3>5 DEF OneDraftOrRaced
      <4> QED
        BY <3>3, <4>2, <4>3
    <3> QED
      BY <3>1, <3>2, <3>4, <3>5 DEF OneDraftOrRaced
  <2>3. ASSUME NEW r \in Request, InsertFails(r) PROVE OneDraftOrRaced'
    <3>1. /\ pc' = [pc EXCEPT ![r] = "idle"] /\ UNCHANGED <<draft, raced, rows>>
          /\ pc \in [Request -> {"idle", "insert"}]
      BY <2>3 DEF InsertFails, Done, TypeOK
    <3>2. \A s \in Request : pc'[s] = "insert" => pc[s] = "insert"
      BY <3>1
    <3> QED
      BY <3>1, <3>2 DEF OneDraftOrRaced, OneDraft
  <2>4. ASSUME NEW i \in Id, NEW c \in Content, Update(i, c) PROVE OneDraftOrRaced'
    <3> DEFINE Say(d) == IF d.id = i THEN [d EXCEPT !.content = c] ELSE d
    <3>1. \A d \in rows' : \E x \in rows : d = Say(x)
      BY <2>4 DEF Update
    <3>2. \A x \in rows : Say(x).id = x.id /\ Say(x).key = x.key
      BY DEF TypeOK, Row
    <3>3. UNCHANGED <<pc, draft, raced>>
      BY <2>4 DEF Update
    <3> HIDE DEF Say
    <3>4. \A d \in rows' : \E x \in rows : d.id = x.id /\ d.key = x.key
      BY <3>1, <3>2
    <3>5. OneDraft'
      BY <3>3, <3>4, SameKeys
    <3> QED
      BY <3>3, <3>4, <3>5 DEF OneDraftOrRaced
  <2>5. ASSUME NEW i \in Id, Delete(i) PROVE OneDraftOrRaced'
    BY <2>5 DEF Delete, OneDraftOrRaced, OneDraft
  <2>6. CASE Restart
    BY <2>6 DEF Restart, OneDraftOrRaced, OneDraft
  <2>7. CASE UNCHANGED vars
    BY <2>7 DEF vars, OneDraftOrRaced, OneDraft
  <2> QED
    BY <2>1, <2>2, <2>3, <2>4, <2>5, <2>6, <2>7 DEF Next
<1>3. OneDraftOrRaced => OneDraft
  BY DEF OneDraftOrRaced
<1> QED
  BY <1>1, <1>2, <1>3, TypeCorrect, IdsAlwaysGiven, PTL DEF Spec
=============================================================================
