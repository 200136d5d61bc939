-------------------------- MODULE ProfileSyncProofs --------------------------
(***************************************************************************)
(* The profile sync and the event worker, for any number of profiles,      *)
(* runs, requests and events, any page and batch size, and any number of   *)
(* changes and troubles.                                                   *)
(***************************************************************************)
EXTENDS ProfileSync, SequenceTheorems, TLAPS

Places == {"idle", "fetch", "store", "delete", "done", "down", "listen", "handle", "ack"}

\* The versions, the stream and the worker's place in it.
StreamTyped ==
    /\ version \in [Profile -> Nat]
    /\ stream \in Seq(Event) /\ group \in BOOLEAN
    /\ delivered \in 0..Len(stream) /\ since \in 0..delivered
    /\ pending \subseteq (since + 1)..delivered
    /\ next \in 1..(delivered + 1)
    /\ blame \subseteq 1..delivered

\* Between two reads the worker is past what was delivered; with a batch it is not.
WorkerPlaced ==
    /\ pc[Worker] \in {"down", "listen", "handle", "store", "ack"}
    /\ pc[Worker] \in {"down", "listen"} => next = delivered + 1
    /\ pc[Worker] \in {"handle", "store", "ack"} => next <= delivered
    /\ ~group => pc[Worker] = "down" /\ pending = {}

StreamInv == StreamTyped /\ WorkerPlaced /\ NoEventLeftBehind

Constantly == /\ Worker \notin Request /\ Worker \notin Sync /\ Worker \in Actor /\ Worker \in Task
              /\ Request \cap Sync = {} /\ NoProfile \notin Profile
              /\ Limit \in Nat \ {0} /\ Count \in Nat \ {0} /\ MaxSyncs \in Nat
              /\ Sync \subseteq Nat /\ Request \subseteq Actor /\ Sync \subseteq Actor

\* The actors are runs, requests and the worker, which differ.
LEMMA Constants == Constantly
  BY ProfileSyncAssumption DEF Constantly, Sync, Task, Actor

-----------------------------------------------------------------------------
(* The stream.                                                             *)

\* What is published is appended to the stream, and nothing else in it changes.
LEMMA PublishTyped ==
    ASSUME stream \in Seq(Event), NEW n \in 0..1, NEW p \in Profile \cup {NoProfile},
           NEW v \in Nat, Publish(n, p, v)
    PROVE  /\ stream' \in Seq(Event) /\ Len(stream') = Len(stream) + n
           /\ \A i \in 1..Len(stream) : stream'[i] = stream[i]
           /\ \A i \in 1..Len(stream') :
                  i > Len(stream) => stream'[i] = [profile |-> p, version |-> v]
<1> DEFINE new == [i \in 1..n |-> [profile |-> p, version |-> v]]
<1>1. [profile |-> p, version |-> v] \in Event
  BY DEF Event
<1>2. new \in Seq(Event) /\ Len(new) = n
  BY <1>1
<1>3. stream' = stream \o new
  BY DEF Publish
<1>4. /\ stream \o new \in Seq(Event) /\ Len(stream \o new) = Len(stream) + n
      /\ \A i \in 1..(Len(stream) + n) :
             (stream \o new)[i] = IF i <= Len(stream) THEN stream[i] ELSE new[i - Len(stream)]
  <2> HIDE DEF new
  <2>1. Len(new) = n /\ new \in Seq(Event) /\ stream \in Seq(Event)
    BY <1>2
  <2> QED
    BY <2>1, ConcatProperties
<1>5. \A i \in 1..n : new[i] = [profile |-> p, version |-> v]
  OBVIOUS
<1>6. Len(stream) \in Nat
  BY LenProperties
<1> HIDE DEF new
<1>7. ASSUME NEW i \in 1..(Len(stream) + n), i > Len(stream) PROVE i - Len(stream) \in 1..n
  BY <1>6, <1>7
<1> QED
  BY <1>3, <1>4, <1>5, <1>6, <1>7

\* A step that leaves the worker where it is, and the stream or all but its end.
LEMMA StreamGrows ==
    ASSUME StreamInv, version' \in [Profile -> Nat], stream' \in Seq(Event),
           Len(stream) <= Len(stream'),
           UNCHANGED <<group, delivered, pending, next, since, blame>>, pc'[Worker] = pc[Worker]
    PROVE  StreamInv'
<1>1. delivered \in 0..Len(stream')
  BY LenProperties DEF StreamInv, StreamTyped
<1>2. StreamTyped'
  BY <1>1 DEF StreamInv, StreamTyped
<1> QED
  BY <1>2 DEF StreamInv, WorkerPlaced, NoEventLeftBehind

\* An edit only appends to the stream.
LEMMA EditStream ==
    ASSUME StreamInv, NEW p \in Profile, EditProfile(p)
    PROVE  StreamInv' /\ Len(stream) <= Len(stream')
<1>1. /\ version' = [version EXCEPT ![p] = version[p] + 1] /\ version' \in [Profile -> Nat]
      /\ version'[p] \in Nat
  BY DEF EditProfile, StreamInv, StreamTyped
<1>2. PICK n \in 0..1 : Publish(n, p, version'[p])
  BY DEF EditProfile
<1>3. stream' \in Seq(Event) /\ Len(stream') = Len(stream) + n /\ Len(stream) \in Nat
  BY <1>1, <1>2, PublishTyped, LenProperties DEF StreamInv, StreamTyped
<1>4. UNCHANGED <<group, delivered, pending, next, since, blame, pc>>
  BY DEF EditProfile, Relist
<1> QED
  BY <1>1, <1>3, <1>4, StreamGrows

\* And so is an event that names no profile.
LEMMA PublishStream ==
    ASSUME StreamInv, PublishUnnamed PROVE StreamInv'
<1>1. Publish(1, NoProfile, 0) /\ 1 \in 0..1 /\ 0 \in Nat /\ stream \in Seq(Event)
  BY DEF PublishUnnamed, StreamInv, StreamTyped
<1>2. stream' \in Seq(Event) /\ Len(stream') = Len(stream) + 1 /\ Len(stream) \in Nat
  BY <1>1, PublishTyped, LenProperties
<1>3. UNCHANGED <<version, group, delivered, pending, next, since, blame, pc>>
  BY DEF PublishUnnamed, sourceVars
<1> QED
  BY <1>2, <1>3, StreamGrows DEF StreamInv, StreamTyped

\* The worker takes one step in the stream.
LEMMA WorkerStream ==
    ASSUME StreamInv, pc \in [Actor -> Places], WorkerWorks \/ WorkerFails
    PROVE  StreamInv'
<1>1. /\ delivered \in Nat /\ Len(stream) \in Nat /\ delivered <= Len(stream) /\ next \in Nat
      /\ since \in Nat /\ since <= delivered /\ 1 <= next /\ next <= delivered + 1
      /\ Count \in Nat /\ 0 < Count
      /\ \A i \in pending : i \in Nat /\ since + 1 <= i /\ i <= delivered
      /\ \A i \in blame : i \in Nat /\ 1 <= i /\ i <= delivered
      /\ \A i \in pending : i \in blame \/ next <= i
  BY LenProperties, Constants DEF Constantly, StreamInv, StreamTyped, NoEventLeftBehind
<1>2. Worker \in Actor /\ DOMAIN pc = Actor
  BY Constants DEF Constantly
<1>3. CASE EnsureGroup
  <2>1. UNCHANGED <<version, stream, pending, blame>> /\ group' = TRUE /\ pc[Worker] = "down"
        /\ pc'[Worker] = "listen"
    BY <1>2, <1>3 DEF EnsureGroup, sourceVars, Goto
  <2>2. CASE group /\ UNCHANGED <<delivered, since, next>>
    BY <2>1, <2>2 DEF StreamInv, StreamTyped, WorkerPlaced, NoEventLeftBehind
  <2>3. CASE ~group /\ delivered' = Len(stream) /\ since' = Len(stream) /\ next' = Len(stream) + 1
    <3>1. pending = {} /\ \A i \in blame : i <= Len(stream)
      BY <1>1, <2>3 DEF StreamInv, WorkerPlaced
    <3>2. StreamTyped'
      BY <1>1, <2>1, <2>3, <3>1 DEF StreamInv, StreamTyped
    <3> QED
      BY <2>1, <2>3, <3>1, <3>2 DEF StreamInv, WorkerPlaced, NoEventLeftBehind
  <2> QED
    BY <1>3, <2>2, <2>3 DEF EnsureGroup
<1>4. CASE ReadEvents \/ ReadLost
  <2>1. /\ pc[Worker] = "listen" /\ delivered < Len(stream)
        /\ delivered' = IF Len(stream) < delivered + Count THEN Len(stream) ELSE delivered + Count
        /\ pending' = pending \cup (delivered + 1)..delivered'
        /\ UNCHANGED <<version, stream, group, since>>
    BY <1>4 DEF ReadEvents, ReadLost, Deliver, sourceVars
  <2>2. /\ delivered' \in Nat /\ delivered < delivered' /\ delivered' <= Len(stream)
        /\ group /\ next = delivered + 1
    BY <1>1, <2>1 DEF StreamInv, WorkerPlaced, StreamTyped
  <2>3. pending' \subseteq (since + 1)..delivered'
    BY <1>1, <2>1, <2>2
  <2>4. CASE ReadEvents
    <3>1. pc'[Worker] = "handle" /\ next' = delivered + 1 /\ blame' = blame
      BY <1>2, <2>4 DEF ReadEvents, Goto
    <3>2. StreamTyped'
      BY <1>1, <2>1, <2>2, <2>3, <3>1 DEF StreamInv, StreamTyped
    <3>3. NoEventLeftBehind'
      BY <1>1, <2>1, <2>2, <3>1 DEF NoEventLeftBehind
    <3> QED
      BY <1>1, <2>1, <2>2, <3>1, <3>2, <3>3 DEF StreamInv, WorkerPlaced
  <2>5. CASE ReadLost
    <3>1. /\ pc'[Worker] = "down" /\ next' = delivered' + 1
          /\ blame' = blame \cup (delivered + 1)..delivered'
      BY <1>2, <2>5 DEF ReadLost, Goto
    <3>2. StreamTyped'
      <4>1. blame' \subseteq 1..delivered' /\ next' \in 1..(delivered' + 1)
        BY <1>1, <2>1, <2>2, <3>1
      <4>2. delivered' \in 0..Len(stream') /\ since' \in 0..delivered'
        BY <1>1, <2>1, <2>2
      <4>3. pending' \subseteq (since' + 1)..delivered'
        BY <2>1, <2>3
      <4> QED
        BY <2>1, <4>1, <4>2, <4>3 DEF StreamInv, StreamTyped
    <3>3. NoEventLeftBehind'
      BY <1>1, <2>1, <2>2, <3>1 DEF NoEventLeftBehind
    <3> QED
      BY <2>1, <2>2, <3>1, <3>2, <3>3 DEF StreamInv, WorkerPlaced
  <2> QED
    BY <1>4, <2>4, <2>5
<1>5. CASE FetchEvent \/ StoreOne(Worker, "ack")
  <2>1. UNCHANGED <<version, streamVars>>
    BY <1>5 DEF FetchEvent, FetchOne, StoreOne, sourceVars, streamVars
  <2>2. pc[Worker] \in {"handle", "store"} /\ pc'[Worker] \in {"store", "ack"}
    <3>1. CASE FetchEvent
      BY <1>2, <3>1 DEF FetchEvent, FetchOne, Goto
    <3>2. CASE StoreOne(Worker, "ack")
      BY <1>2, <3>2 DEF StoreOne, Goto
    <3> QED
      BY <1>5, <3>1, <3>2
  <2> QED
    BY <2>1, <2>2 DEF StreamInv, StreamTyped, WorkerPlaced, NoEventLeftBehind, streamVars
<1>6. ASSUME pc[Worker] \in {"handle", "store", "ack"}, Advance,
             pending' \subseteq pending, blame' \subseteq blame \cup {next},
             blame \subseteq blame', next \in pending' => next \in blame',
             UNCHANGED <<version, stream, group, delivered, since>>
      PROVE  StreamInv'
  <2>1. next <= delivered /\ next' = next + 1 /\ group
    BY <1>6 DEF StreamInv, WorkerPlaced, StreamTyped, Advance
  <2>2. /\ pc'[Worker] \in {"listen", "handle"}
        /\ pc'[Worker] = "listen" <=> next = delivered
    BY <1>2, <1>6 DEF Advance, Goto
  <2>3. StreamTyped'
    BY <1>1, <1>6, <2>1 DEF StreamInv, StreamTyped
  <2>4. NoEventLeftBehind'
    <3> SUFFICES ASSUME NEW i \in pending' PROVE i \in blame' \/ i \in (next + 1)..delivered
      BY <1>6, <2>1 DEF NoEventLeftBehind
    <3>1. i \in Nat /\ i <= delivered /\ (i \in blame \/ next <= i)
      BY <1>1, <1>6
    <3> QED
      BY <1>1, <1>6, <3>1
  <2>5. WorkerPlaced'
    BY <1>1, <1>6, <2>1, <2>2 DEF WorkerPlaced
  <2> QED
    BY <2>3, <2>4, <2>5 DEF StreamInv
<1>7. CASE SkipEvent
  BY <1>6, <1>7 DEF SkipEvent, sourceVars
<1>8. CASE EventFails
  BY <1>6, <1>8 DEF EventFails, sourceVars
<1>9. CASE AckEvent
  BY <1>6, <1>9 DEF AckEvent, sourceVars
<1>10. CASE AckFails
  <2>1. /\ pc[Worker] = "ack" /\ pc'[Worker] = "down" /\ next' = delivered + 1
        /\ pending' \subseteq pending /\ blame' = blame \cup next..delivered
        /\ UNCHANGED <<version, stream, group, delivered, since>>
    BY <1>2, <1>10 DEF AckFails, sourceVars, Goto
  <2>2. StreamTyped'
    BY <1>1, <2>1 DEF StreamInv, StreamTyped
  <2>3. NoEventLeftBehind'
    BY <1>1, <2>1 DEF NoEventLeftBehind
  <2> QED
    BY <2>1, <2>2, <2>3 DEF StreamInv, WorkerPlaced
<1> QED
  BY <1>3, <1>4, <1>5, <1>7, <1>8, <1>9, <1>10 DEF WorkerWorks, WorkerFails

-----------------------------------------------------------------------------
(* Types.                                                                  *)

CoreTyped ==
    /\ listing \in Listings
    /\ row \in [Profile -> Nat] /\ stamp \in [Profile -> 0..MaxSyncs]
    /\ pc \in [Actor -> Places] /\ copy \in [Actor -> [Profile -> Nat]]
    /\ started \in 0..MaxSyncs
    /\ page \in [Sync -> Nat \ {0}] /\ last \in [Sync -> BOOLEAN]
    /\ want \in [Request -> Profile \cup {NoProfile}] /\ fetched \in [Task -> 0..started]
    /\ changes \in Nat /\ troubles \in Nat
    /\ disturbed \subseteq Sync /\ alone \subseteq Sync /\ excused \subseteq Profile

TypeInv == CoreTyped /\ StreamInv

\* What the source lists are profiles, and a copy of one is a copy.
LEMMA Basics ==
    ASSUME CoreTyped, version \in [Profile -> Nat]
    PROVE  /\ Listed(listing) \subseteq Profile /\ Len(listing) \in Nat
           /\ Nothing \in [Profile -> Nat]
           /\ \A p \in Listed(listing) : [Nothing EXCEPT ![p] = version[p]] \in [Profile -> Nat]
<1>1. PICK n \in 0..Cardinality(Profile) : listing \in [1..n -> Profile]
  BY DEF CoreTyped, Listings
<1>2. Listed(listing) \subseteq Profile
  BY <1>1 DEF Listed
<1>3. Nothing \in [Profile -> Nat]
  BY DEF Nothing
<1>4. Len(listing) \in Nat
  BY <1>1
<1>5. ASSUME NEW p \in Listed(listing)
      PROVE  [Nothing EXCEPT ![p] = version[p]] \in [Profile -> Nat]
  BY <1>2, <1>3, <1>5
<1> QED
  BY <1>2, <1>3, <1>4, <1>5

\* What an actor takes in hand are copies.
LEMMA TakeTyped ==
    ASSUME CoreTyped, NEW a \in Actor, NEW c \in [Profile -> Nat], Take(a, c)
    PROVE  copy' \in [Actor -> [Profile -> Nat]] /\ excused' \subseteq Profile
  BY DEF CoreTyped, Take

\* And it has copies, of nothing, when it drops them.
LEMMA DropTyped ==
    ASSUME CoreTyped, NEW a \in Actor, Drop(a)
    PROVE  copy' \in [Actor -> [Profile -> Nat]]
  BY DEF CoreTyped, Drop, Nothing

\* A row that is stored carries the stamp of a run.
LEMMA UpsertTyped ==
    ASSUME CoreTyped, NEW a \in Actor, NEW at \in 0..MaxSyncs, Upsert(a, at)
    PROVE  row' \in [Profile -> Nat] /\ stamp' \in [Profile -> 0..MaxSyncs]
  BY DEF CoreTyped, Upsert

\* An actor's step moves that actor alone.
LEMMA GotoTyped ==
    ASSUME CoreTyped, NEW a \in Actor, NEW to \in Places, Goto(a, to)
    PROVE  /\ pc' \in [Actor -> Places] /\ pc'[a] = to
           /\ a # Worker => pc'[Worker] = pc[Worker]
  BY Constants DEF CoreTyped, Goto, Constantly

\* A source that lists anew keeps the types.
LEMMA RelistTyped ==
    ASSUME TypeInv, NEW p, NEW L \in Listings, Relist(p, L)
    PROVE  CoreTyped'
<1>1. listing' = L /\ changes' \in Nat /\ alone' = {}
  BY DEF TypeInv, CoreTyped, Relist
<1>2. disturbed' \subseteq Sync
  BY DEF TypeInv, CoreTyped, Relist
<1>3. UNCHANGED <<row, stamp, pc, copy, started, page, last, want, fetched, troubles, excused>>
  BY DEF Relist, tableVars, syncVars, taskVars
<1> QED
  BY <1>1, <1>2, <1>3 DEF TypeInv, CoreTyped

\* So does an edit or a removal,
LEMMA SourceTyped ==
    ASSUME TypeInv, NEW p \in Profile,
           EditProfile(p) \/ RemoveProfile(p)
    PROVE  TypeInv'
<1>1. CASE EditProfile(p)
  BY <1>1, EditStream, RelistTyped DEF TypeInv, EditProfile
<1>2. CASE RemoveProfile(p)
  <2>1. UNCHANGED <<version, stream, group, delivered, pending, next, since, blame, pc>>
    BY <1>2 DEF RemoveProfile, Relist
  <2>2. StreamInv'
    BY <2>1, StreamGrows, LenProperties DEF TypeInv, StreamInv, StreamTyped
  <2> QED
    BY <1>2, <2>2, RelistTyped DEF TypeInv, RemoveProfile
<1> QED
  BY <1>1, <1>2

\* A step that is none of the worker's and changes nothing of the stream.
LEMMA StreamRests ==
    ASSUME StreamInv, UNCHANGED <<version, streamVars>>, pc'[Worker] = pc[Worker]
    PROVE  StreamInv'
  BY DEF StreamInv, StreamTyped, WorkerPlaced, NoEventLeftBehind, streamVars

\* a run's end,
LEMMA FinishTyped ==
    ASSUME CoreTyped, NEW s \in Sync, Finish(s)
    PROVE  /\ pc' \in [Actor -> Places] /\ pc'[Worker] = pc[Worker]
           /\ copy' \in [Actor -> [Profile -> Nat]]
           /\ page' \in [Sync -> Nat \ {0}] /\ last' \in [Sync -> BOOLEAN]
           /\ disturbed' \subseteq Sync
<1>1. s \in Actor /\ s # Worker /\ "done" \in Places
  BY Constants DEF Constantly, Places
<1>2. page' \in [Sync -> Nat \ {0}] /\ last' \in [Sync -> BOOLEAN] /\ disturbed' \subseteq Sync
  BY DEF Finish, CoreTyped
<1> QED
  BY <1>1, <1>2, GotoTyped, DropTyped DEF Finish

\* every step of a run,
LEMMA SyncTyped ==
    ASSUME TypeInv, NEW s \in Sync, StartSync \/ SyncStep(s)
    PROVE  TypeInv'
<1>1. s \in Actor /\ s # Worker /\ s \in 0..MaxSyncs /\ MaxSyncs \in Nat
  BY Constants DEF Constantly, Sync
<1>2. CoreTyped /\ StreamInv /\ version \in [Profile -> Nat]
  BY DEF TypeInv, StreamInv, StreamTyped
<1>3. CASE StartSync
  <2>1. /\ started + 1 \in Sync /\ started + 1 \in Actor /\ started + 1 # Worker
        /\ "fetch" \in Places
    BY <1>2, <1>3, Constants DEF StartSync, CoreTyped, Constantly, Sync, Places
  <2>2. pc' \in [Actor -> Places] /\ pc'[Worker] = pc[Worker]
    BY <1>2, <1>3, <2>1, GotoTyped DEF StartSync
  <2>3. started' \in 0..MaxSyncs /\ started <= started' /\ alone' \subseteq Sync
    BY <1>1, <1>2, <1>3, <2>1 DEF StartSync, CoreTyped
  <2>4. UNCHANGED <<listing, changes, version, row, stamp, copy, page, last, want, fetched, streamVars,
                    troubles, disturbed, excused>>
    BY <1>3 DEF StartSync, sourceVars, tableVars, taskVars
  <2>5. fetched' \in [Task -> 0..started']
    BY <1>2, <2>3, <2>4 DEF CoreTyped
  <2>6. CoreTyped'
    BY <1>2, <2>2, <2>3, <2>4, <2>5 DEF CoreTyped
  <2> QED
    BY <1>2, <2>2, <2>4, <2>6, StreamRests DEF TypeInv
<1>4. CASE FetchPage(s)
  <2>1. [p \in Profile |-> IF p \in PageOf(listing, page[s]) THEN version[p] ELSE 0] \in [Profile -> Nat]
    BY <1>2
  <2>2. copy' \in [Actor -> [Profile -> Nat]] /\ excused' \subseteq Profile
    BY <1>1, <1>2, <1>4, <2>1, TakeTyped DEF FetchPage
  <2>3. pc' \in [Actor -> Places] /\ pc'[Worker] = pc[Worker]
    <3>1. "delete" \in Places /\ "store" \in Places
      BY DEF Places
    <3> QED
      BY <1>1, <1>2, <1>4, <3>1, GotoTyped DEF FetchPage
  <2>4. /\ last' = [last EXCEPT ![s] = Len(listing) <= page[s] * Limit]
        /\ UNCHANGED <<listing, changes, version, row, stamp, started, page, want, fetched, streamVars,
                    troubles, disturbed, alone>>
    BY <1>4 DEF FetchPage, sourceVars, tableVars, taskVars
  <2>5. last' \in [Sync -> BOOLEAN]
    <3>1. (Len(listing) <= page[s] * Limit) \in BOOLEAN
      OBVIOUS
    <3> QED
      BY <1>2, <2>4, <3>1, Zenon DEF CoreTyped
  <2>6. CoreTyped'
    BY <1>2, <2>2, <2>3, <2>4, <2>5 DEF CoreTyped
  <2> QED
    BY <1>2, <2>3, <2>4, <2>6, StreamRests DEF TypeInv
<1>5. CASE StorePage(s)
  <2>1. row' \in [Profile -> Nat] /\ stamp' \in [Profile -> 0..MaxSyncs]
    BY <1>1, <1>2, <1>5, UpsertTyped DEF StorePage
  <2>2. copy' \in [Actor -> [Profile -> Nat]]
    BY <1>1, <1>2, <1>5, DropTyped DEF StorePage
  <2>3. pc' \in [Actor -> Places] /\ pc'[Worker] = pc[Worker]
    <3>1. "delete" \in Places /\ "fetch" \in Places
      BY DEF Places
    <3> QED
      BY <1>1, <1>2, <1>5, <3>1, GotoTyped DEF StorePage
  <2>4. page' \in [Sync -> Nat \ {0}]
    BY <1>2, <1>5 DEF StorePage, CoreTyped
  <2>5. disturbed' \subseteq Sync /\ alone' \subseteq Sync
    BY <1>2, <1>5 DEF StorePage, CoreTyped, SetBack, Running
  <2>6. UNCHANGED <<listing, changes, version, started, last, want, fetched, streamVars, troubles, excused>>
    BY <1>5 DEF StorePage, sourceVars, taskVars
  <2>7. CoreTyped'
    BY <1>2, <2>1, <2>2, <2>3, <2>4, <2>5, <2>6 DEF CoreTyped
  <2> QED
    BY <1>2, <2>3, <2>6, <2>7, StreamRests DEF TypeInv
<1>6. CASE DeleteStale(s)
  <2>1. row' \in [Profile -> Nat] /\ stamp' \in [Profile -> 0..MaxSyncs]
    BY <1>1, <1>2, <1>6 DEF DeleteStale, CoreTyped
  <2>2. excused' \subseteq Profile /\ alone' = {}
    BY <1>2, <1>6 DEF DeleteStale, CoreTyped, Stale
  <2>3. Finish(s) /\ UNCHANGED <<listing, changes, version, started, want, fetched, streamVars, troubles>>
    BY <1>6 DEF DeleteStale, sourceVars, taskVars
  <2>4. CoreTyped'
    BY <1>2, <2>1, <2>2, <2>3, FinishTyped DEF CoreTyped
  <2> QED
    BY <1>2, <2>3, <2>4, FinishTyped, StreamRests DEF TypeInv
<1>7. CASE SyncFails(s)
  <2>1. troubles' \in Nat /\ alone' \subseteq Sync
    BY <1>2, <1>7 DEF SyncFails, Trouble, CoreTyped
  <2>2. /\ Finish(s)
        /\ UNCHANGED <<listing, changes, version, row, stamp, started, want, fetched, streamVars, excused>>
    BY <1>7 DEF SyncFails, sourceVars, taskVars, tableVars
  <2>3. CoreTyped'
    BY <1>2, <2>1, <2>2, FinishTyped DEF CoreTyped
  <2> QED
    BY <1>2, <2>2, <2>3, FinishTyped, StreamRests DEF TypeInv
<1> QED
  BY <1>3, <1>4, <1>5, <1>6, <1>7 DEF SyncStep

\* the fetch of one profile,
LEMMA FetchOneTyped ==
    ASSUME TypeInv, NEW t \in Task, NEW p, NEW absent \in Places, FetchOne(t, p, absent)
    PROVE  /\ pc' \in [Actor -> Places] /\ (t # Worker => pc'[Worker] = pc[Worker])
           /\ copy' \in [Actor -> [Profile -> Nat]] /\ excused' \subseteq Profile
           /\ fetched' \in [Task -> 0..started]
           /\ UNCHANGED <<version, listing, changes, row, stamp, started, page, last, troubles,
                          disturbed, alone>>
<1>1. CoreTyped /\ version \in [Profile -> Nat] /\ t \in Actor /\ "store" \in Places
  BY Constants DEF TypeInv, StreamInv, StreamTyped, Constantly, Actor, Places
<1>2. pc' \in [Actor -> Places] /\ (t # Worker => pc'[Worker] = pc[Worker])
  BY <1>1, GotoTyped DEF FetchOne
<1>3. copy' \in [Actor -> [Profile -> Nat]] /\ excused' \subseteq Profile
  <2>1. CASE p \in Listed(listing)
    BY <1>1, <2>1, Basics, TakeTyped DEF FetchOne
  <2>2. CASE p \notin Listed(listing)
    BY <1>1, <2>2, Basics, TakeTyped DEF FetchOne
  <2> QED
    BY <2>1, <2>2
<1>4. fetched' \in [Task -> 0..started]
  BY <1>1 DEF FetchOne, CoreTyped
<1> QED
  BY <1>2, <1>3, <1>4 DEF FetchOne, sourceVars, tableVars, syncVars

\* what is forgotten after it,
LEMMA ForgetTyped ==
    ASSUME CoreTyped, NEW t \in Task, Forget(t)
    PROVE  copy' \in [Actor -> [Profile -> Nat]] /\ fetched' \in [Task -> 0..started]
<1>1. copy' \in [Actor -> [Profile -> Nat]]
  BY DropTyped DEF Forget, Actor
<1>2. fetched' \in [Task -> 0..started]
  BY DEF Forget, CoreTyped
<1> QED
  BY <1>1, <1>2

\* its store,
LEMMA StoreOneTyped ==
    ASSUME TypeInv, NEW t \in Task, NEW to \in Places, StoreOne(t, to)
    PROVE  CoreTyped' /\ (t # Worker => pc'[Worker] = pc[Worker])
<1>1. CoreTyped /\ t \in Actor /\ MaxSyncs \in Nat
  BY Constants DEF TypeInv, Actor, Constantly
<1>2. PICK at \in fetched[t]..started : Upsert(t, at) /\ disturbed' = disturbed \cup SetBack(t, at)
  BY DEF StoreOne
<1>3. at \in 0..MaxSyncs
  BY <1>1 DEF CoreTyped
<1>4. /\ row' \in [Profile -> Nat] /\ stamp' \in [Profile -> 0..MaxSyncs]
      /\ disturbed' \subseteq Sync
  BY <1>1, <1>2, <1>3, UpsertTyped DEF SetBack, Running, CoreTyped
<1>5. copy' \in [Actor -> [Profile -> Nat]] /\ fetched' \in [Task -> 0..started]
  BY <1>1, ForgetTyped DEF StoreOne
<1>6. pc' \in [Actor -> Places] /\ (t # Worker => pc'[Worker] = pc[Worker])
  BY <1>1, GotoTyped DEF StoreOne
<1>7. alone' = {} /\ UNCHANGED <<listing, changes, started, page, last, want, troubles, excused>>
  BY DEF StoreOne, sourceVars, syncVars
<1> QED
  BY <1>1, <1>4, <1>5, <1>6, <1>7 DEF CoreTyped

\* a request,
LEMMA RequestTyped ==
    ASSUME TypeInv, NEW q \in Request, RequestStep(q)
    PROVE  TypeInv'
<1>1. q \in Task /\ q \in Actor /\ q # Worker /\ "idle" \in Places /\ "fetch" \in Places
  BY Constants DEF Constantly, Task, Places
<1>2. CoreTyped /\ StreamInv
  BY DEF TypeInv
<1>3. CASE \E p \in Profile : Ask(q, p)
  <2>1. PICK p \in Profile : Ask(q, p)
    BY <1>3
  <2>2. pc' \in [Actor -> Places] /\ pc'[Worker] = pc[Worker]
    BY <1>1, <1>2, <2>1, GotoTyped DEF Ask
  <2>3. /\ want' = [want EXCEPT ![q] = p]
        /\ UNCHANGED <<listing, changes, version, row, stamp, copy, started, page, last, fetched, streamVars,
                       troubles, disturbed, alone, excused>>
    BY <2>1 DEF Ask, sourceVars, tableVars, syncVars, ghostVars
  <2>4. want' \in [Request -> Profile \cup {NoProfile}]
    BY <1>2, <2>3 DEF CoreTyped
  <2>5. CoreTyped'
    BY <1>2, <2>2, <2>3, <2>4 DEF CoreTyped
  <2> QED
    BY <1>2, <2>2, <2>3, <2>5, StreamRests DEF TypeInv
<1>4. CASE FetchWanted(q)
  <2>1. want' \in [Request -> Profile \cup {NoProfile}]
    BY <1>2, <1>4 DEF FetchWanted, CoreTyped
  <2>2. FetchOne(q, want[q], "idle") /\ UNCHANGED streamVars
    BY <1>4 DEF FetchWanted
  <2>3. CoreTyped'
    BY <1>1, <1>2, <2>1, <2>2, FetchOneTyped DEF CoreTyped
  <2> QED
    BY <1>1, <1>2, <2>2, <2>3, FetchOneTyped, StreamRests DEF TypeInv
<1>5. CASE StoreOne(q, "idle")
  BY <1>1, <1>2, <1>5, StoreOneTyped, StreamRests DEF TypeInv, StoreOne, sourceVars
<1>6. CASE RequestFails(q)
  <2>1. pc' \in [Actor -> Places] /\ pc'[Worker] = pc[Worker]
    BY <1>1, <1>2, <1>6, GotoTyped DEF RequestFails
  <2>2. copy' \in [Actor -> [Profile -> Nat]] /\ fetched' \in [Task -> 0..started]
    BY <1>1, <1>2, <1>6, ForgetTyped DEF RequestFails
  <2>3. want' \in [Request -> Profile \cup {NoProfile}] /\ troubles' \in Nat
    BY <1>2, <1>6 DEF RequestFails, Trouble, CoreTyped
  <2>4. UNCHANGED <<listing, changes, version, row, stamp, started, page, last, streamVars,
                    disturbed, alone, excused>>
    BY <1>6 DEF RequestFails, sourceVars, tableVars, syncVars, ghostVars
  <2>5. CoreTyped'
    BY <1>2, <2>1, <2>2, <2>3, <2>4 DEF CoreTyped
  <2> QED
    BY <1>2, <2>1, <2>4, <2>5, StreamRests DEF TypeInv
<1> QED
  BY <1>3, <1>4, <1>5, <1>6 DEF RequestStep

\* the worker,
LEMMA WorkerTyped ==
    ASSUME TypeInv, WorkerWorks \/ WorkerFails
    PROVE  TypeInv'
<1>1. /\ Worker \in Task /\ Worker \in Actor /\ "listen" \in Places /\ "handle" \in Places
      /\ "down" \in Places /\ "ack" \in Places
  BY Constants DEF Constantly, Task, Places
<1>2. CoreTyped /\ StreamInv
  BY DEF TypeInv
<1>3. StreamInv'
  BY <1>2, WorkerStream DEF CoreTyped
<1>4. CASE EnsureGroup \/ ReadEvents \/ ReadLost \/ SkipEvent \/ AckEvent \/ AckFails
  <2>1. pc' \in [Actor -> Places]
    BY <1>1, <1>2, <1>4, GotoTyped DEF EnsureGroup, ReadEvents, ReadLost, SkipEvent, AckEvent,
       AckFails, Advance
  <2>2. troubles' \in Nat
    BY <1>2, <1>4 DEF EnsureGroup, ReadEvents, ReadLost, SkipEvent, AckEvent, AckFails, Trouble,
       CoreTyped
  <2>3. UNCHANGED <<listing, changes, row, stamp, copy, started, page, last, want, fetched,
                    disturbed, alone, excused>>
    BY <1>4 DEF EnsureGroup, ReadEvents, ReadLost, Deliver, SkipEvent, AckEvent, AckFails,
       sourceVars, tableVars, syncVars, taskVars, ghostVars
  <2>4. CoreTyped'
    BY <1>2, <2>1, <2>2, <2>3 DEF CoreTyped
  <2> QED
    BY <1>3, <2>4 DEF TypeInv
<1>5. CASE FetchEvent
  <2>1. FetchOne(Worker, stream[next].profile, "ack") /\ want' = want
    BY <1>5 DEF FetchEvent
  <2>2. CoreTyped'
    BY <1>1, <1>2, <2>1, FetchOneTyped DEF CoreTyped
  <2> QED
    BY <1>3, <2>2 DEF TypeInv
<1>6. CASE StoreOne(Worker, "ack")
  BY <1>1, <1>3, <1>6, StoreOneTyped DEF TypeInv
<1>7. CASE EventFails
  <2>1. pc' \in [Actor -> Places]
    BY <1>1, <1>2, <1>7, GotoTyped DEF EventFails, Advance
  <2>2. copy' \in [Actor -> [Profile -> Nat]] /\ fetched' \in [Task -> 0..started]
    BY <1>1, <1>2, <1>7, ForgetTyped DEF EventFails
  <2>3. troubles' \in Nat
    BY <1>2, <1>7 DEF EventFails, Trouble, CoreTyped
  <2>4. UNCHANGED <<listing, changes, row, stamp, started, page, last, want, disturbed, alone, excused>>
    BY <1>7 DEF EventFails, sourceVars, tableVars, syncVars, ghostVars
  <2>5. CoreTyped'
    BY <1>2, <2>1, <2>2, <2>3, <2>4 DEF CoreTyped
  <2> QED
    BY <1>3, <2>5 DEF TypeInv
<1> QED
  BY <1>4, <1>5, <1>6, <1>7 DEF WorkerWorks, WorkerFails

\* and a restart.
LEMMA RestartTyped ==
    ASSUME TypeInv, Restart
    PROVE  TypeInv'
<1>1. CoreTyped /\ StreamInv
  BY DEF TypeInv
<1>2. pc' \in [Actor -> Places] /\ pc'[Worker] = "down"
  BY <1>1, Constants DEF Restart, CoreTyped, Places, Constantly
<1>3. copy' \in [Actor -> [Profile -> Nat]]
  BY DEF Restart, Nothing
<1>4. /\ page' \in [Sync -> Nat \ {0}] /\ last' \in [Sync -> BOOLEAN]
      /\ want' \in [Request -> Profile \cup {NoProfile}] /\ fetched' \in [Task -> 0..started]
      /\ disturbed' \subseteq Sync /\ alone' \subseteq Sync /\ troubles' \in Nat
  BY <1>1 DEF Restart, Trouble, CoreTyped
<1>5. UNCHANGED <<listing, changes, version, row, stamp, started, stream, group, delivered, pending,
                  since, excused>>
  BY DEF Restart, sourceVars, tableVars
<1>6. CoreTyped'
  BY <1>1, <1>2, <1>3, <1>4, <1>5 DEF CoreTyped
<1>7. /\ next' = delivered + 1 /\ blame' = blame \cup next..delivered
      /\ delivered \in Nat /\ next \in Nat /\ 1 <= next
  BY <1>1, LenProperties DEF Restart, StreamInv, StreamTyped
<1>8. StreamTyped'
  BY <1>1, <1>5, <1>7 DEF StreamInv, StreamTyped
<1>9. WorkerPlaced'
  BY <1>1, <1>2, <1>5, <1>7 DEF StreamInv, WorkerPlaced
<1>10. NoEventLeftBehind'
  BY <1>1, <1>5, <1>7 DEF StreamInv, NoEventLeftBehind
<1> QED
  BY <1>6, <1>8, <1>9, <1>10 DEF TypeInv, StreamInv

\* The types hold when the service starts.
LEMMA TypeInit == Init => TypeInv
<1> SUFFICES ASSUME Init PROVE TypeInv
  OBVIOUS
<1>1. MaxSyncs \in Nat /\ Worker \in Actor
  BY Constants DEF Constantly
<1>2. CoreTyped
  BY <1>1 DEF Init, CoreTyped, Nothing, Places
<1>3. <<>> \in Seq(Event) /\ Len(<<>>) = 0
  OBVIOUS
<1>4. version \in [Profile -> Nat]
  BY DEF Init
<1>5. StreamTyped
  <2>1. stream = <<>>
    BY DEF Init
  <2>2. delivered = 0 /\ since = 0 /\ pending = {} /\ next = 1 /\ blame = {} /\ group \in BOOLEAN
    BY DEF Init
  <2>3. stream \in Seq(Event) /\ Len(stream) = 0
    BY <1>3, <2>1
  <2>4. delivered \in 0..Len(stream) /\ since \in 0..delivered /\ next \in 1..(delivered + 1)
    BY <2>2, <2>3
  <2>5. pending \subseteq (since + 1)..delivered /\ blame \subseteq 1..delivered
    BY <2>2
  <2> QED
    BY <1>4, <2>2, <2>3, <2>4, <2>5 DEF StreamTyped
<1>6. WorkerPlaced /\ NoEventLeftBehind
  BY <1>1 DEF Init, WorkerPlaced, NoEventLeftBehind
<1> QED
  BY <1>2, <1>5, <1>6 DEF TypeInv, StreamInv

\* And every step keeps them.
LEMMA TypeStep == TypeInv /\ [Next]_vars => TypeInv'
<1> SUFFICES ASSUME TypeInv, [Next]_vars PROVE TypeInv'
  OBVIOUS
<1>1. CASE UNCHANGED vars
  BY <1>1 DEF vars, sourceVars, tableVars, syncVars, taskVars, streamVars, ghostVars, TypeInv, CoreTyped,
     StreamInv, StreamTyped, WorkerPlaced, NoEventLeftBehind
<1>2. ASSUME NEW p \in Profile, EditProfile(p) \/ RemoveProfile(p) PROVE TypeInv'
  BY <1>2, SourceTyped
<1>3. CASE PublishUnnamed
  <2>1. CoreTyped'
    BY <1>3 DEF PublishUnnamed, TypeInv, CoreTyped, sourceVars, tableVars, syncVars, taskVars,
                ghostVars
  <2> QED
    BY <1>3, <2>1, PublishStream DEF TypeInv
<1>4. CASE StartSync
  <2>1. started + 1 \in Sync
    BY <1>4, Constants DEF StartSync, TypeInv, CoreTyped, Sync, Constantly
  <2> QED
    BY <1>4, <2>1, SyncTyped
<1>5. ASSUME NEW s \in Sync, SyncStep(s) PROVE TypeInv'
  BY <1>5, SyncTyped
<1>6. ASSUME NEW q \in Request, RequestStep(q) PROVE TypeInv'
  BY <1>6, RequestTyped
<1>7. CASE WorkerWorks \/ WorkerFails
  BY <1>7, WorkerTyped
<1>8. CASE Restart
  BY <1>8, RestartTyped
<1> QED
  BY <1>1, <1>2, <1>3, <1>4, <1>5, <1>6, <1>7, <1>8 DEF Next

\* Every variable keeps its type: ProfileSync!TypeOK.
THEOREM TypeCorrect == Spec => []TypeOK
<1>1. TypeInv => TypeOK
  BY DEF TypeInv, CoreTyped, StreamInv, StreamTyped, TypeOK, Places
<1> QED
  BY <1>1, TypeInit, TypeStep, PTL DEF Spec

\* Between two reads of the stream nothing delivered is left behind, but what named
\* no profile or met a trouble: ProfileSync!NoEventLeftBehind.
THEOREM NoneLeftBehind == Spec => []NoEventLeftBehind
<1>1. TypeInv => NoEventLeftBehind
  BY DEF TypeInv, StreamInv
<1> QED
  BY <1>1, TypeInit, TypeStep, PTL DEF Spec

-----------------------------------------------------------------------------
(* What a run has done so far.                                             *)

Marks ==
    /\ \A s \in Sync :
           /\ pc[s] \in {"idle", "fetch", "store", "delete", "done"}
           /\ pc[s] # "store" => copy[s] = Nothing
           /\ pc[s] = "idle" => page[s] = 1
           /\ pc[s] \in {"idle", "fetch"} => ~last[s]
           /\ started < s => pc[s] = "idle"
    /\ \A p \in Profile : stamp[p] <= started
    /\ \A p \in Listed(listing) : version[p] # 0
    /\ \A p \in Profile :
           version[p] = 0 => row[p] = 0 /\ \A a \in Actor : copy[a][p] = 0

\* The run s has read the i-th place of the listing.
Reached(s, i) == i <= Covered(s) \/ last[s] \/ pc[s] = "delete"

\* What s has read and is in the table will not be stale at its end.
SparedBy(s) ==
    \A i \in DOMAIN listing : Reached(s, i) =>
        \/ row[listing[i]] = 0
        \/ s <= stamp[listing[i]]
        \/ copy[s][listing[i]] # 0

\* What s has stored, or has in hand, is what the source lists.
MirroredBy(s) ==
    /\ \A p \in Profile : s <= stamp[p] /\ row[p] # 0 =>
           p \in Listed(listing) /\ row[p] = version[p]
    /\ \A p \in Profile : copy[s][p] # 0 => p \in Listed(listing) /\ copy[s][p] = version[p]
    /\ \A i \in DOMAIN listing : Reached(s, i) =>
           \/ s <= stamp[listing[i]] /\ row[listing[i]] = version[listing[i]]
           \/ copy[s][listing[i]] = version[listing[i]]

SyncInv ==
    /\ Marks
    /\ \A s \in Running \ disturbed : SparedBy(s)
    /\ \A s \in Running \cap alone : MirroredBy(s)

\* A listing has each of its profiles in one place.
LEMMA ListingFacts ==
    ASSUME NEW L \in Listings
    PROVE  /\ Len(L) \in Nat /\ DOMAIN L = 1..Len(L)
           /\ \A i \in DOMAIN L : L[i] \in Profile /\ L[i] \in Listed(L)
           /\ \A i, j \in DOMAIN L : L[i] = L[j] => i = j
           /\ \A p \in Listed(L) : \E i \in DOMAIN L : L[i] = p
<1>1. PICK n \in 0..Cardinality(Profile) : L \in [1..n -> Profile]
  BY DEF Listings
<1>2. n \in Nat
  OBVIOUS
<1>3. L \in Seq(Profile) /\ Len(L) = n
  BY <1>1, <1>2
<1>4. \A i, j \in DOMAIN L : L[i] = L[j] => i = j
  BY DEF Listings
<1> QED
  BY <1>1, <1>2, <1>3, <1>4 DEF Listed

\* What is said of a run stays true where its own state, the source and the table stay.
LEMMA RunKept ==
    ASSUME NEW s \in Sync,
           UNCHANGED <<listing, version, row, stamp, pc[s], copy[s], page[s], last[s]>>
    PROVE  (SparedBy(s) => SparedBy(s)') /\ (MirroredBy(s) => MirroredBy(s)')
<1>1. \A i : Reached(s, i)' <=> Reached(s, i)
  BY DEF Reached, Covered
<1> QED
  BY <1>1 DEF SparedBy, MirroredBy, Listed

\* A row is stored by someone else, with a stamp no older than the run.
LEMMA UpsertSpares ==
    ASSUME CoreTyped, NEW s \in Running, NEW a \in Actor, NEW at \in Nat, Upsert(a, at),
           s \notin SetBack(a, at), SparedBy(s),
           UNCHANGED <<listing, pc[s], copy[s], page[s], last[s]>>
    PROVE  SparedBy(s)'
<1>1. \A i : Reached(s, i)' <=> Reached(s, i)
  BY DEF Reached, Covered
<1>2. \A i \in DOMAIN listing : listing[i] \in Profile
  BY ListingFacts DEF CoreTyped
<1>3. ASSUME NEW p \in Profile, row[p] = 0 \/ s <= stamp[p] \/ copy[s][p] # 0
      PROVE  row'[p] = 0 \/ s <= stamp'[p] \/ copy'[s][p] # 0
  <2>1. CASE copy[a][p] = 0
    BY <1>3, <2>1 DEF Upsert
  <2>2. CASE copy[a][p] # 0
    <3>1. copy[a] # Nothing
      BY <2>2 DEF Nothing
    <3>2. s <= at
      BY <3>1 DEF SetBack, Running, Sync
    <3> QED
      BY <2>2, <3>2 DEF Upsert
  <2> QED
    BY <2>1, <2>2
<1> QED
  BY <1>1, <1>2, <1>3 DEF SparedBy

\* Marks survive steps that at most end runs.
LEMMA MarksRest ==
    ASSUME TypeInv, Marks, UNCHANGED <<listing, version, row, stamp, started>>,
           \A s \in Sync :
               \/ UNCHANGED <<pc[s], copy[s], page[s], last[s]>>
               \/ pc[s] # "idle" /\ pc'[s] = "done" /\ copy'[s] = Nothing,
           \A a \in Actor : \A p \in Profile : copy'[a][p] # 0 => version[p] # 0
    PROVE  Marks'
  BY Constants DEF Marks, Listed, Constantly

\* A step that leaves the table and every run it does not end as they were.
LEMMA SyncRests ==
    ASSUME TypeInv, SyncInv, UNCHANGED <<listing, version, row, stamp, started>>,
           disturbed \cap Running' \subseteq disturbed', alone' \subseteq alone,
           \A s \in Sync :
               \/ UNCHANGED <<pc[s], copy[s], page[s], last[s]>>
               \/ pc[s] # "idle" /\ pc'[s] = "done" /\ copy'[s] = Nothing,
           \A a \in Actor : \A p \in Profile : copy'[a][p] # 0 => version[p] # 0
    PROVE  SyncInv'
<1>1. Marks'
  BY MarksRest DEF SyncInv
<1>2. ASSUME NEW s \in Running'
      PROVE  s \in Sync /\ s \in Running /\ UNCHANGED <<pc[s], copy[s], page[s], last[s]>>
  BY <1>2 DEF Running
<1>3. \A s \in Running' \ disturbed' : SparedBy(s)'
  BY <1>2, RunKept DEF SyncInv
<1>4. \A s \in Running' \cap alone' : MirroredBy(s)'
  BY <1>2, RunKept DEF SyncInv
<1> QED
  BY <1>1, <1>3, <1>4 DEF SyncInv

\* A profile that is added or taken off the source disturbs the runs that may miss it.
LEMMA RelistSync ==
    ASSUME TypeInv, SyncInv, NEW p \in Profile, NEW L \in Listings, Relist(p, L),
           \A q \in Profile : version'[q] = 0 => version[q] = 0,
           \A q \in Listed(L) :
               version'[q] # 0 /\ (q \in Listed(listing) \/ version[q] = 0)
    PROVE  SyncInv'
<1>1. /\ listing' = L /\ alone' = {} /\ disturbed' = disturbed \cup {s \in Sync : Slips(s, L)}
      /\ UNCHANGED <<row, stamp, pc, copy, started, page, last>>
  BY DEF Relist, tableVars, syncVars
<1>2. Marks'
  BY <1>1 DEF SyncInv, Marks
<1>3. ASSUME NEW s \in Running' \ disturbed' PROVE SparedBy(s)'
  <2>1. s \in Sync /\ s \in Running \ disturbed /\ ~Slips(s, L) /\ SparedBy(s)
    BY <1>1, <1>3 DEF Running, SyncInv
  <2>2. Covered(s) \in Int /\ Covered(s)' = Covered(s)
    BY <1>1, <2>1, Constants DEF Covered, TypeInv, CoreTyped, Constantly
  <2> SUFFICES ASSUME NEW j \in DOMAIN L, Reached(s, j)'
               PROVE  row[L[j]] = 0 \/ s <= stamp[L[j]] \/ copy[s][L[j]] # 0
    BY <1>1 DEF SparedBy
  <2>3. L[j] \in Profile /\ L[j] \in Listed(L)
    BY ListingFacts
  <2>4. CASE L[j] \notin Listed(listing)
    BY <2>3, <2>4 DEF SyncInv, Marks
  <2>5. CASE L[j] \in Listed(listing)
    <3>1. PICK i \in DOMAIN listing : listing[i] = L[j]
      BY <2>5 DEF Listed
    <3>2. i \in Nat /\ j \in Nat
      BY ListingFacts DEF TypeInv, CoreTyped
    <3>3. j <= Covered(s) \/ last[s] \/ pc[s] = "delete"
      BY <1>1, <2>2 DEF Reached
    <3>4. Reached(s, i)
      BY <2>1, <2>2, <3>1, <3>2, <3>3 DEF Reached, Slips, Running
    <3> QED
      BY <2>1, <3>1, <3>4 DEF SparedBy
  <2> QED
    BY <2>4, <2>5
<1> QED
  BY <1>1, <1>2, <1>3 DEF SyncInv

\* Whatever the source does keeps SyncInv.
LEMMA SourceSync ==
    ASSUME TypeInv, SyncInv, NEW p \in Profile, EditProfile(p) \/ RemoveProfile(p)
    PROVE  SyncInv'
<1>1. version \in [Profile -> Nat] /\ listing \in Listings
  BY DEF TypeInv, StreamInv, StreamTyped, CoreTyped
<1>2. CASE EditProfile(p)
  <2>1. PICK L \in Listings : Listed(L) = Listed(listing) \cup {p} /\ Relist(p, L)
    BY <1>2 DEF EditProfile
  <2>2. version' = [version EXCEPT ![p] = @ + 1] /\ (version[p] = 0 \/ p \in Listed(listing))
    BY <1>2 DEF EditProfile
  <2>3. \A q \in Profile : version'[q] = 0 => version[q] = 0
    BY <1>1, <2>2
  <2>4. ASSUME NEW q \in Listed(L)
        PROVE  version'[q] # 0 /\ (q \in Listed(listing) \/ version[q] = 0)
    <3>1. q \in Profile
      BY <2>4, ListingFacts
    <3>2. q \in Listed(listing) => version[q] # 0
      BY DEF SyncInv, Marks
    <3> QED
      BY <1>1, <2>1, <2>2, <3>1, <3>2
  <2> QED
    BY <2>1, <2>3, <2>4, RelistSync
<1>3. CASE RemoveProfile(p)
  <2>1. PICK L \in Listings : Listed(L) = Listed(listing) \ {p} /\ Relist(p, L)
    BY <1>3 DEF RemoveProfile
  <2>2. version' = version
    BY <1>3 DEF RemoveProfile
  <2>3. \A q \in Listed(L) : version'[q] # 0 /\ (q \in Listed(listing) \/ version[q] = 0)
    BY <2>1, <2>2 DEF SyncInv, Marks
  <2> QED
    BY <2>1, <2>2, <2>3, RelistSync
<1> QED
  BY <1>2, <1>3

\* A run starts with nothing covered.
LEMMA StartSyncs ==
    ASSUME TypeInv, SyncInv, StartSync
    PROVE  SyncInv'
<1>0. started + 1 \in Sync
  BY Constants DEF StartSync, TypeInv, CoreTyped, Sync, Constantly
<1> PICK n \in Sync : n = started + 1
  BY <1>0
<1>1. /\ started \in Nat /\ pc \in [Actor -> Places] /\ n \in Actor
      /\ stamp \in [Profile -> Nat] /\ Sync \subseteq Actor /\ Limit \in Nat /\ Sync \subseteq Nat
  BY Constants DEF StartSync, TypeInv, CoreTyped, Sync, Constantly
<1>2. /\ pc' = [pc EXCEPT ![n] = "fetch"] /\ started' = n
      /\ alone' = alone \cup {n}
      /\ UNCHANGED <<listing, version, row, stamp, copy, page, last, disturbed>>
  BY DEF StartSync, Goto, sourceVars, tableVars
<1>3. /\ pc[n] = "idle" /\ page[n] = 1 /\ ~last[n] /\ copy[n] = Nothing /\ pc'[n] = "fetch"
      /\ \A s \in Sync \ {n} : pc'[s] = pc[s]
  BY <1>1, <1>2 DEF SyncInv, Marks
<1>4. Marks'
  BY <1>1, <1>2, <1>3 DEF SyncInv, Marks
<1>5. \A s \in Running' \ {n} : s \in Running /\ UNCHANGED <<pc[s], copy[s], page[s], last[s]>>
  BY <1>2, <1>3 DEF Running
<1>6. \A i \in DOMAIN listing : ~Reached(n, i)'
  <2>1. Covered(n)' = 0
    BY <1>1, <1>2, <1>3 DEF Covered
  <2> QED
    BY <1>2, <1>3, <2>1, ListingFacts DEF Reached, TypeInv, CoreTyped
<1>7. SparedBy(n)'
  BY <1>2, <1>6 DEF SparedBy
<1>8. MirroredBy(n)'
  <2>1. \A p \in Profile : ~(n <= stamp[p]) /\ copy[n][p] = 0
    BY <1>1, <1>3 DEF SyncInv, Marks, Nothing
  <2> QED
    BY <1>2, <1>6, <2>1 DEF MirroredBy
<1>9. ASSUME NEW s \in Running' \ disturbed' PROVE SparedBy(s)'
  <2>1. s \in Sync
    BY DEF Running
  <2> QED
    BY <1>2, <1>5, <1>7, <2>1, RunKept DEF SyncInv
<1>10. ASSUME NEW s \in Running' \cap alone' PROVE MirroredBy(s)'
  <2>1. s \in Sync /\ (s # n => s \in alone)
    BY <1>2 DEF Running
  <2> QED
    BY <1>2, <1>5, <1>8, <2>1, RunKept DEF SyncInv
<1> QED
  BY <1>4, <1>9, <1>10 DEF SyncInv

\* A page read covers the places up to its end.
LEMMA PageEnds ==
    ASSUME TypeInv, NEW s \in Sync, NEW i \in DOMAIN listing
    PROVE  /\ (page[s] - 1) * Limit + Limit = page[s] * Limit
           /\ i <= page[s] * Limit => i <= (page[s] - 1) * Limit \/ listing[i] \in PageOf(listing, page[s])
           /\ PageOf(listing, page[s]) = {} => i <= (page[s] - 1) * Limit
<1>1. /\ page[s] \in Nat /\ page[s] # 0 /\ Limit \in Nat /\ Limit # 0
      /\ DOMAIN listing = 1..Len(listing) /\ Len(listing) \in Nat
  BY Constants, ListingFacts DEF TypeInv, CoreTyped, Constantly
<1>2. PICK lo \in Nat : lo = (page[s] - 1) * Limit
  BY <1>1
<1>3. page[s] * Limit = lo + Limit
  BY <1>1, <1>2
<1>4. \A k \in DOMAIN listing : lo < k /\ k <= lo + Limit => listing[k] \in PageOf(listing, page[s])
  BY <1>1, <1>2, <1>3 DEF PageOf
<1>5. ASSUME lo < i PROVE PageOf(listing, page[s]) # {}
  <2>1. lo + 1 \in DOMAIN listing /\ lo < lo + 1 /\ lo + 1 <= lo + Limit
    BY <1>1, <1>2, <1>5
  <2> QED
    BY <1>4, <2>1
<1> QED
  BY <1>1, <1>2, <1>3, <1>4, <1>5

\* A page that is fetched is in the run's hands.
LEMMA FetchSync ==
    ASSUME TypeInv, SyncInv, NEW s \in Sync, FetchPage(s)
    PROVE  SyncInv'
<1> DEFINE seen == [p \in Profile |-> IF p \in PageOf(listing, page[s]) THEN version[p] ELSE 0]
<1>1. /\ pc' = [pc EXCEPT ![s] = IF PageOf(listing, page[s]) = {} THEN "delete" ELSE "store"]
      /\ copy' = [copy EXCEPT ![s] = seen]
      /\ last' = [last EXCEPT ![s] = Len(listing) <= page[s] * Limit]
      /\ s <= started /\ pc[s] = "fetch"
      /\ UNCHANGED <<listing, version, row, stamp, started, page, disturbed, alone>>
  BY DEF FetchPage, Goto, Take, sourceVars, tableVars
<1>2. /\ pc \in [Actor -> Places] /\ copy \in [Actor -> [Profile -> Nat]] /\ last \in [Sync -> BOOLEAN]
      /\ s \in Actor /\ Sync \subseteq Actor /\ started \in Nat /\ s \in Nat /\ version \in [Profile -> Nat]
  BY Constants DEF TypeInv, CoreTyped, Constantly, StreamInv, StreamTyped
<1>3. /\ pc'[s] = IF PageOf(listing, page[s]) = {} THEN "delete" ELSE "store"
      /\ copy'[s] = seen /\ copy[s] = Nothing /\ ~last[s]
      /\ PageOf(listing, page[s]) = {} => seen = Nothing
      /\ \A t \in Sync \ {s} : UNCHANGED <<pc[t], copy[t], page[t], last[t]>>
  BY <1>1, <1>2 DEF SyncInv, Marks, Nothing
<1>4. \A p \in Profile : version[p] = 0 => \A a \in Actor : copy'[a][p] = 0
  BY <1>1, <1>2 DEF SyncInv, Marks
<1>5. Marks'
  <2>1. ~(started < s)
    BY <1>1, <1>2
  <2> HIDE DEF seen
  <2> QED
    BY <1>1, <1>3, <1>4, <2>1 DEF SyncInv, Marks, Listed
<1>6. s \in Running
  BY <1>1 DEF Running
<1>7. ASSUME NEW i \in DOMAIN listing, Reached(s, i)'
      PROVE  /\ Reached(s, i) \/ listing[i] \in PageOf(listing, page[s])
             /\ listing[i] \in Profile /\ listing[i] \in Listed(listing)
  <2>1. CASE PageOf(listing, page[s]) = {}
    BY <1>1, <2>1, PageEnds, ListingFacts DEF Reached, Covered, TypeInv, CoreTyped
  <2>2. CASE PageOf(listing, page[s]) # {}
    <3>1. Covered(s)' = page[s] * Limit
      BY <1>1, <1>3, <2>2 DEF Covered
    <3>2. last'[s] => Len(listing) <= page[s] * Limit
      <4>1. last'[s] = (Len(listing) <= page[s] * Limit)
        BY <1>1, <1>2, Zenon
      <4> QED
        BY <4>1, Zenon
    <3>3. page[s] * Limit \in Nat /\ i \in Nat /\ Len(listing) \in Nat /\ i <= Len(listing)
      BY Constants, ListingFacts DEF TypeInv, CoreTyped, Constantly
    <3>4. i <= page[s] * Limit
      BY <1>3, <1>7, <2>2, <3>1, <3>2, <3>3 DEF Reached
    <3> QED
      BY <1>1, <3>4, PageEnds, ListingFacts DEF Reached, Covered, TypeInv, CoreTyped
  <2> QED
    BY <2>1, <2>2
<1>8. \A p \in Listed(listing) : p \in PageOf(listing, page[s]) => copy'[s][p] = version[p] /\ version[p] # 0
  BY <1>3, ListingFacts DEF SyncInv, Marks, TypeInv, CoreTyped
<1>9. ASSUME NEW t \in Running' \ disturbed' PROVE SparedBy(t)'
  <2>1. CASE t = s
    <3>1. SparedBy(s)
      BY <1>1, <1>6, <1>9, <2>1 DEF SyncInv
    <3>2. \A p \in Profile : copy[s][p] = 0
      BY <1>3 DEF Nothing
    <3> QED
      BY <1>1, <1>7, <1>8, <2>1, <3>1, <3>2 DEF SparedBy
  <2>2. CASE t # s
    <3>1. t \in Sync /\ t \in Running \ disturbed /\ UNCHANGED <<pc[t], copy[t], page[t], last[t]>>
      BY <1>1, <1>3, <1>9, <2>2 DEF Running
    <3> QED
      BY <1>1, <3>1, RunKept DEF SyncInv
  <2> QED
    BY <2>1, <2>2
<1>10. ASSUME NEW t \in Running' \cap alone' PROVE MirroredBy(t)'
  <2>1. CASE t = s
    <3>1. MirroredBy(s)
      BY <1>1, <1>6, <1>10, <2>1 DEF SyncInv
    <3>2. \A p \in Profile : copy[s][p] = 0
      BY <1>3 DEF Nothing
    <3>3. \A p \in Profile : copy'[s][p] # 0 => p \in Listed(listing) /\ copy'[s][p] = version[p]
      BY <1>3 DEF PageOf, Listed
    <3>4. ASSUME NEW i \in DOMAIN listing, Reached(s, i)'
          PROVE  \/ s <= stamp[listing[i]] /\ row[listing[i]] = version[listing[i]]
                 \/ copy'[s][listing[i]] = version[listing[i]]
      <4>1. listing[i] \in Profile /\ version[listing[i]] # 0
        BY <1>7, <3>4 DEF SyncInv, Marks
      <4> QED
        BY <1>7, <1>8, <3>1, <3>2, <3>4, <4>1 DEF MirroredBy
    <3> QED
      BY <1>1, <2>1, <3>1, <3>3, <3>4 DEF MirroredBy, Listed
  <2>2. CASE t # s
    <3>1. t \in Sync /\ t \in Running \cap alone /\ UNCHANGED <<pc[t], copy[t], page[t], last[t]>>
      BY <1>1, <1>3, <1>10, <2>2 DEF Running
    <3> QED
      BY <1>1, <3>1, RunKept DEF SyncInv
  <2> QED
    BY <2>1, <2>2
<1> QED
  BY <1>5, <1>9, <1>10 DEF SyncInv

\* When it is stored, its rows have the run's stamp.
LEMMA StoreSync ==
    ASSUME TypeInv, SyncInv, NEW s \in Sync, StorePage(s)
    PROVE  SyncInv'
<1>1. /\ pc' = [pc EXCEPT ![s] = IF last[s] THEN "delete" ELSE "fetch"]
      /\ copy' = [copy EXCEPT ![s] = Nothing]
      /\ page' = [page EXCEPT ![s] = IF last[s] THEN @ ELSE @ + 1]
      /\ Upsert(s, s) /\ s <= started /\ pc[s] = "store"
      /\ disturbed' = disturbed \cup SetBack(s, s) /\ alone' = alone \cap {s}
      /\ UNCHANGED <<listing, version, started, last>>
  BY DEF StorePage, Goto, Drop, sourceVars
<1>2. /\ pc \in [Actor -> Places] /\ copy \in [Actor -> [Profile -> Nat]] /\ page \in [Sync -> Nat \ {0}]
      /\ s \in Actor /\ Sync \subseteq Actor /\ started \in Nat /\ s \in Nat
      /\ row \in [Profile -> Nat] /\ stamp \in [Profile -> Nat] /\ Limit \in Nat
  BY Constants DEF TypeInv, CoreTyped, Constantly
<1>3. /\ pc'[s] = IF last[s] THEN "delete" ELSE "fetch"
      /\ copy'[s] = Nothing /\ page'[s] = IF last[s] THEN page[s] ELSE page[s] + 1
      /\ \A t \in Sync \ {s} : UNCHANGED <<pc[t], copy[t], page[t], last[t]>>
  BY <1>1, <1>2
<1>4. \A p \in Profile : /\ row'[p] = IF copy[s][p] = 0 THEN row[p] ELSE copy[s][p]
                         /\ stamp'[p] = IF copy[s][p] = 0 THEN stamp[p] ELSE s
  BY <1>1 DEF Upsert
<1>5. Marks'
  <2>1. \A p \in Profile : version[p] = 0 => row'[p] = 0 /\ \A a \in Actor : copy'[a][p] = 0
    BY <1>1, <1>2, <1>4 DEF SyncInv, Marks, Nothing
  <2>2. \A p \in Profile : stamp'[p] <= started
    BY <1>1, <1>4 DEF SyncInv, Marks
  <2>3. \A t \in Sync :
           /\ pc'[t] \in {"idle", "fetch", "store", "delete", "done"}
           /\ pc'[t] # "store" => copy'[t] = Nothing
           /\ pc'[t] = "idle" => page'[t] = 1
           /\ pc'[t] \in {"idle", "fetch"} => ~last'[t]
           /\ started < t => pc'[t] = "idle"
    <3>1. ~(started < s)
      BY <1>1, <1>2
    <3> QED
      BY <1>1, <1>3, <3>1 DEF SyncInv, Marks
  <2> QED
    BY <1>1, <2>1, <2>2, <2>3 DEF SyncInv, Marks, Listed
<1>6. s \in Running
  BY <1>1 DEF Running
<1>7. \A i \in DOMAIN listing : Reached(s, i)' => Reached(s, i)
  <2>1. CASE last[s]
    BY <2>1 DEF Reached
  <2>2. CASE ~last[s]
    <3>1. Covered(s)' = (page'[s] - 1) * Limit /\ page'[s] - 1 = page[s]
      <4>1. pc'[s] = "fetch" /\ page'[s] = page[s] + 1 /\ page[s] \in Nat
        BY <1>2, <1>3, <2>2
      <4> QED
        BY <4>1 DEF Covered
    <3>2. Covered(s) = page[s] * Limit
      BY <1>1 DEF Covered
    <3> QED
      BY <1>1, <1>3, <2>2, <3>1, <3>2 DEF Reached
  <2> QED
    BY <2>1, <2>2
<1>8. \A i \in DOMAIN listing : listing[i] \in Profile
  BY ListingFacts DEF TypeInv, CoreTyped
<1>9. ASSUME NEW t \in Running' \ disturbed' PROVE SparedBy(t)'
  <2>1. CASE t = s
    <3>1. SparedBy(s)
      BY <1>1, <1>6, <1>9, <2>1 DEF SyncInv
    <3> QED
      BY <1>1, <1>2, <1>4, <1>7, <1>8, <2>1, <3>1 DEF SparedBy
  <2>2. CASE t # s
    <3>1. /\ t \in Sync /\ t \in Running \ disturbed /\ UNCHANGED <<pc[t], copy[t], page[t], last[t]>>
          /\ t \notin SetBack(s, s) /\ SparedBy(t)
      BY <1>1, <1>3, <1>9, <2>2 DEF Running, SyncInv
    <3> QED
      BY <1>1, <1>2, <3>1, UpsertSpares DEF TypeInv
  <2> QED
    BY <2>1, <2>2
<1>10. ASSUME NEW t \in Running' \cap alone' PROVE MirroredBy(t)'
  <2>1. t = s /\ MirroredBy(s)
    BY <1>1, <1>6, <1>10 DEF SyncInv
  <2>2. \A p \in Profile : s <= stamp'[p] /\ row'[p] # 0 => p \in Listed(listing) /\ row'[p] = version[p]
    BY <1>4, <2>1 DEF MirroredBy
  <2>3. \A p \in Profile : copy'[s][p] = 0
    BY <1>3 DEF Nothing
  <2>4. ASSUME NEW i \in DOMAIN listing, Reached(s, i)'
        PROVE  s <= stamp'[listing[i]] /\ row'[listing[i]] = version[listing[i]]
    <3>1. /\ listing[i] \in Profile /\ version[listing[i]] # 0
          /\ (s <= stamp[listing[i]] /\ row[listing[i]] = version[listing[i]])
             \/ copy[s][listing[i]] = version[listing[i]]
      BY <1>5, <1>7, <1>8, <2>1, <2>4, ListingFacts DEF MirroredBy, TypeInv, CoreTyped, SyncInv, Marks
    <3>2. copy[s][listing[i]] # 0 => copy[s][listing[i]] = version[listing[i]]
      BY <2>1, <3>1 DEF MirroredBy
    <3> QED
      BY <1>2, <1>4, <3>1, <3>2
  <2> QED
    BY <1>1, <2>1, <2>2, <2>3, <2>4 DEF MirroredBy, Listed
<1> QED
  BY <1>5, <1>9, <1>10 DEF SyncInv

\* The deletion spares what the run covered, and that is the whole listing.
LEMMA DeleteSync ==
    ASSUME TypeInv, SyncInv, NEW s \in Sync, DeleteStale(s)
    PROVE  SyncInv'
<1>1. /\ pc' = [pc EXCEPT ![s] = "done"] /\ copy' = [copy EXCEPT ![s] = Nothing]
      /\ page' = [page EXCEPT ![s] = 1] /\ last' = [last EXCEPT ![s] = FALSE]
      /\ disturbed' = disturbed \ {s} /\ alone' = {} /\ s <= started
      /\ row'   = [p \in Profile |-> IF p \in Stale(s) THEN 0 ELSE row[p]]
      /\ stamp' = [p \in Profile |-> IF p \in Stale(s) THEN 0 ELSE stamp[p]]
      /\ UNCHANGED <<listing, version, started>>
  BY DEF DeleteStale, Finish, Goto, Drop, sourceVars
<1>2. /\ pc \in [Actor -> Places] /\ copy \in [Actor -> [Profile -> Nat]]
      /\ s \in Actor /\ Sync \subseteq Actor /\ started \in Nat /\ s \in Nat
      /\ page \in [Sync -> Nat \ {0}] /\ last \in [Sync -> BOOLEAN]
      /\ row \in [Profile -> Nat] /\ stamp \in [Profile -> Nat]
  BY Constants DEF TypeInv, CoreTyped, Constantly
<1>3. /\ pc'[s] = "done" /\ copy'[s] = Nothing
      /\ \A t \in Sync \ {s} : UNCHANGED <<pc[t], copy[t], page[t], last[t]>>
  BY <1>1, <1>2
<1>4. Marks'
  <2>1. \A p \in Profile : version[p] = 0 => row'[p] = 0 /\ \A a \in Actor : copy'[a][p] = 0
    BY <1>1, <1>2 DEF SyncInv, Marks, Nothing
  <2>2. \A p \in Profile : stamp'[p] <= started
    BY <1>1, <1>2 DEF SyncInv, Marks
  <2>3. ~(started < s)
    BY <1>1, <1>2
  <2> QED
    BY <1>1, <1>3, <2>1, <2>2, <2>3 DEF SyncInv, Marks, Listed
<1>5. ASSUME NEW t \in Running' \ disturbed' PROVE SparedBy(t)'
  <2>1. t # s /\ t \in Sync /\ t \in Running \ disturbed
    BY <1>1, <1>3, <1>5 DEF Running
  <2>2. UNCHANGED <<pc[t], copy[t], page[t], last[t]>> /\ SparedBy(t)
    BY <1>3, <2>1 DEF SyncInv
  <2>3. \A i : Reached(t, i)' <=> Reached(t, i)
    BY <2>2 DEF Reached, Covered
  <2>4. \A i \in DOMAIN listing : listing[i] \in Profile
    BY ListingFacts DEF TypeInv, CoreTyped
  <2> QED
    BY <1>1, <2>2, <2>3, <2>4 DEF SparedBy
<1> QED
  BY <1>1, <1>4, <1>5 DEF SyncInv

\* A profile stored by a request or the worker is stamped from its fetch on; the runs it sets back are disturbed.
LEMMA StoreOneSync ==
    ASSUME TypeInv, SyncInv, NEW t \in Task, NEW to \in Places, StoreOne(t, to)
    PROVE  SyncInv'
<1>1. PICK at \in fetched[t]..started : Upsert(t, at) /\ disturbed' = disturbed \cup SetBack(t, at)
  BY DEF StoreOne
<1>2. /\ pc' = [pc EXCEPT ![t] = to] /\ copy' = [copy EXCEPT ![t] = Nothing] /\ alone' = {}
      /\ UNCHANGED <<listing, version, started, page, last>>
  BY DEF StoreOne, Forget, Drop, Goto, sourceVars, syncVars
<1>3. /\ pc \in [Actor -> Places] /\ copy \in [Actor -> [Profile -> Nat]]
      /\ t \in Actor /\ t \notin Sync /\ Sync \subseteq Actor /\ at \in Nat /\ at <= started
      /\ row \in [Profile -> Nat] /\ stamp \in [Profile -> Nat]
  BY Constants DEF TypeInv, CoreTyped, Constantly, Actor, Task
<1>4. \A s \in Sync : UNCHANGED <<pc[s], copy[s], page[s], last[s]>>
  BY <1>2, <1>3
<1>5. Marks'
  <2>1. \A p \in Profile : version[p] = 0 => row'[p] = 0 /\ \A a \in Actor : copy'[a][p] = 0
    BY <1>1, <1>2, <1>3 DEF SyncInv, Marks, Nothing, Upsert
  <2>2. \A p \in Profile : stamp'[p] <= started
    BY <1>1, <1>3 DEF SyncInv, Marks, Upsert
  <2> QED
    BY <1>2, <1>4, <2>1, <2>2 DEF SyncInv, Marks, Listed
<1>6. ASSUME NEW s \in Running' \ disturbed' PROVE SparedBy(s)'
  <2>1. s \in Running \ disturbed /\ s \in Sync /\ s \notin SetBack(t, at) /\ SparedBy(s)
    BY <1>1, <1>4, <1>6 DEF Running, SyncInv
  <2> QED
    BY <1>1, <1>2, <1>3, <1>4, <2>1, UpsertSpares DEF TypeInv
<1> QED
  BY <1>2, <1>5, <1>6 DEF SyncInv

\* Fetching one changes no row.
LEMMA FetchOneSync ==
    ASSUME TypeInv, SyncInv, NEW t \in Task, NEW p, NEW absent \in Places, FetchOne(t, p, absent)
    PROVE  SyncInv'
<1>1. /\ pc' = [pc EXCEPT ![t] = IF p \in Listed(listing) THEN "store" ELSE absent]
      /\ copy' = [copy EXCEPT ![t] = IF p \in Listed(listing) THEN [Nothing EXCEPT ![p] = version[p]]
                                     ELSE Nothing]
      /\ UNCHANGED <<listing, version, row, stamp, started, page, last, disturbed, alone>>
  BY DEF FetchOne, Goto, Take, sourceVars, tableVars, syncVars
<1>2. /\ pc \in [Actor -> Places] /\ copy \in [Actor -> [Profile -> Nat]]
      /\ t \in Actor /\ t \notin Sync /\ Sync \subseteq Actor
  BY Constants DEF TypeInv, CoreTyped, Constantly, Actor, Task
<1>3. \A s \in Sync : UNCHANGED <<pc[s], copy[s], page[s], last[s]>>
  BY <1>1, <1>2
<1>4. \A q \in Profile : copy'[t][q] # 0 => q = p /\ q \in Listed(listing)
  <2>1. CASE p \in Listed(listing)
    BY <1>1, <1>2, <2>1 DEF Nothing
  <2>2. CASE p \notin Listed(listing)
    BY <1>1, <1>2, <2>2 DEF Nothing
  <2> QED
    BY <2>1, <2>2
<1>5. \A a \in Actor : \A q \in Profile : copy'[a][q] # 0 => version[q] # 0
  <2> SUFFICES ASSUME NEW a \in Actor, NEW q \in Profile, copy'[a][q] # 0 PROVE version[q] # 0
    OBVIOUS
  <2>1. CASE a = t
    BY <1>4, <2>1 DEF SyncInv, Marks
  <2>2. CASE a # t
    BY <1>1, <1>2, <2>2 DEF SyncInv, Marks
  <2> QED
    BY <2>1, <2>2
<1> QED
  BY <1>1, <1>3, <1>5, SyncRests

\* SyncInv holds when the service starts.
LEMMA SyncInit == Init => SyncInv
<1> SUFFICES ASSUME Init PROVE SyncInv
  OBVIOUS
<1>1. /\ \A p \in Profile : row[p] = 0 /\ stamp[p] = 0
      /\ \A a \in Actor : copy[a] = Nothing /\ \A p \in Profile : copy[a][p] = 0
      /\ \A s \in Sync : pc[s] = "idle" /\ page[s] = 1 /\ ~last[s]
      /\ started = 0 /\ listing \in Listings
  BY Constants DEF Init, Nothing, Constantly
<1>2. \A p \in Listed(listing) : version[p] # 0
  BY <1>1, ListingFacts DEF Init
<1>3. Running = {}
  BY <1>1 DEF Running
<1>4. Marks
  BY <1>1, <1>2, Constants DEF Marks, Constantly
<1> QED
  BY <1>3, <1>4 DEF SyncInv

\* The tasks' other steps leave the table and the runs alone; so does a run that fails.
LEMMA TroubleSync ==
    ASSUME TypeInv, SyncInv,
           \/ Restart
           \/ \E s \in Sync : SyncFails(s)
    PROVE  SyncInv'
<1>1. /\ pc \in [Actor -> Places] /\ copy \in [Actor -> [Profile -> Nat]] /\ Sync \subseteq Actor
      /\ Worker \notin Sync /\ Request \cap Sync = {}
      /\ page \in [Sync -> Nat \ {0}] /\ last \in [Sync -> BOOLEAN]
  BY Constants DEF TypeInv, CoreTyped, Constantly
<1>2. CASE Restart
  <2>1. /\ \A s \in Sync : pc'[s] = IF s \in Running THEN "done" ELSE pc[s]
        /\ \A a \in Actor : copy'[a] = Nothing
        /\ \A s \in Sync : page'[s] = 1 /\ ~last'[s]
        /\ UNCHANGED <<listing, version, row, stamp, started>>
    BY <1>1, <1>2 DEF Restart, sourceVars, tableVars
  <2>2. Running' = {}
    BY <2>1 DEF Running
  <2>3. \A p \in Profile : \A a \in Actor : copy'[a][p] = 0
    BY <2>1 DEF Nothing
  <2>4. ASSUME NEW s \in Sync
        PROVE  /\ pc'[s] \in {"idle", "fetch", "store", "delete", "done"}
               /\ pc'[s] # "store" => copy'[s] = Nothing
               /\ pc'[s] = "idle" => page'[s] = 1
               /\ pc'[s] \in {"idle", "fetch"} => ~last'[s]
               /\ started < s => pc'[s] = "idle"
    BY <1>1, <2>1 DEF SyncInv, Marks, Running
  <2>5. Marks'
    BY <2>1, <2>3, <2>4 DEF SyncInv, Marks, Listed
  <2> QED
    BY <2>2, <2>5 DEF SyncInv
<1>3. ASSUME NEW s \in Sync, SyncFails(s) PROVE SyncInv'
  <2>1. /\ pc' = [pc EXCEPT ![s] = "done"] /\ copy' = [copy EXCEPT ![s] = Nothing]
        /\ page' = [page EXCEPT ![s] = 1] /\ last' = [last EXCEPT ![s] = FALSE]
        /\ disturbed' = disturbed \ {s} /\ alone' = alone \ {s} /\ pc[s] # "idle"
        /\ UNCHANGED <<listing, version, row, stamp, started>>
    BY <1>3 DEF SyncFails, Finish, Goto, Drop, sourceVars, tableVars, Running
  <2>2. \A t \in Sync : \/ UNCHANGED <<pc[t], copy[t], page[t], last[t]>>
                        \/ pc[t] # "idle" /\ pc'[t] = "done" /\ copy'[t] = Nothing
    BY <1>1, <2>1
  <2>3. disturbed \cap Running' \subseteq disturbed'
    BY <1>1, <2>1 DEF Running
  <2>4. \A a \in Actor : \A p \in Profile : copy'[a][p] # 0 => version[p] # 0
    BY <1>1, <2>1 DEF SyncInv, Marks, Nothing
  <2> QED
    BY <2>1, <2>2, <2>3, <2>4, SyncRests
<1> QED
  BY <1>2, <1>3

\* A request keeps it,
LEMMA RequestSync ==
    ASSUME TypeInv, SyncInv, NEW q \in Request, RequestStep(q)
    PROVE  SyncInv'
<1>1. /\ pc \in [Actor -> Places] /\ copy \in [Actor -> [Profile -> Nat]] /\ Sync \subseteq Actor
      /\ q \in Task /\ q \notin Sync /\ "idle" \in Places
  BY Constants DEF TypeInv, CoreTyped, Constantly, Task, Places
<1>2. ASSUME NEW p \in Profile, Ask(q, p) PROVE SyncInv'
  <2>1. /\ pc' = [pc EXCEPT ![q] = "fetch"]
        /\ UNCHANGED <<listing, version, row, stamp, copy, started, page, last, disturbed, alone>>
    BY <1>2 DEF Ask, Goto, sourceVars, tableVars, syncVars, ghostVars
  <2>2. \A s \in Sync : UNCHANGED <<pc[s], copy[s], page[s], last[s]>>
    BY <1>1, <2>1
  <2>3. \A a \in Actor : \A r \in Profile : copy'[a][r] # 0 => version[r] # 0
    BY <2>1 DEF SyncInv, Marks
  <2> QED
    BY <2>1, <2>2, <2>3, SyncRests
<1>3. CASE FetchWanted(q)
  BY <1>1, <1>3, FetchOneSync DEF FetchWanted
<1>4. CASE StoreOne(q, "idle")
  BY <1>1, <1>4, StoreOneSync
<1>5. CASE RequestFails(q)
  <2>1. /\ pc' = [pc EXCEPT ![q] = "idle"] /\ copy' = [copy EXCEPT ![q] = Nothing]
        /\ UNCHANGED <<listing, version, row, stamp, started, page, last, disturbed, alone>>
    BY <1>5 DEF RequestFails, Goto, Forget, Drop, sourceVars, tableVars, syncVars, ghostVars
  <2>2. \A s \in Sync : UNCHANGED <<pc[s], copy[s], page[s], last[s]>>
    BY <1>1, <2>1
  <2>3. \A a \in Actor : \A r \in Profile : copy'[a][r] # 0 => version[r] # 0
    BY <1>1, <2>1 DEF SyncInv, Marks, Nothing
  <2> QED
    BY <2>1, <2>2, <2>3, SyncRests
<1> QED
  BY <1>2, <1>3, <1>4, <1>5 DEF RequestStep

\* the worker keeps it,
LEMMA WorkerSync ==
    ASSUME TypeInv, SyncInv, WorkerWorks \/ WorkerFails
    PROVE  SyncInv'
<1>1. /\ pc \in [Actor -> Places] /\ copy \in [Actor -> [Profile -> Nat]] /\ Sync \subseteq Actor
      /\ Worker \in Task /\ Worker \notin Sync /\ "ack" \in Places
  BY Constants DEF TypeInv, CoreTyped, Constantly, Places
<1>2. CASE FetchEvent
  BY <1>1, <1>2, FetchOneSync DEF FetchEvent
<1>3. CASE StoreOne(Worker, "ack")
  BY <1>1, <1>3, StoreOneSync
<1>4. CASE EnsureGroup \/ ReadEvents \/ ReadLost \/ SkipEvent \/ AckEvent \/ AckFails \/ EventFails
  <2>1. \A s \in Sync : pc'[s] = pc[s]
    BY <1>1, <1>4 DEF EnsureGroup, ReadEvents, ReadLost, SkipEvent, AckEvent, AckFails, EventFails,
       Advance, Goto
  <2>2. UNCHANGED <<listing, version, row, stamp, started, page, last, disturbed, alone>>
    BY <1>4 DEF EnsureGroup, ReadEvents, ReadLost, Deliver, SkipEvent, AckEvent, AckFails, EventFails,
       sourceVars, tableVars, syncVars, ghostVars
  <2>3. copy' = copy \/ copy' = [copy EXCEPT ![Worker] = Nothing]
    BY <1>4 DEF EnsureGroup, ReadEvents, ReadLost, Deliver, SkipEvent, AckEvent, AckFails, EventFails,
       Forget, Drop
  <2>4. \A s \in Sync : UNCHANGED <<pc[s], copy[s], page[s], last[s]>>
    BY <1>1, <2>1, <2>2, <2>3
  <2>5. \A a \in Actor : \A r \in Profile : copy'[a][r] # 0 => version[r] # 0
    BY <1>1, <2>3 DEF SyncInv, Marks, Nothing
  <2> QED
    BY <2>2, <2>4, <2>5, SyncRests
<1> QED
  BY <1>2, <1>3, <1>4 DEF WorkerWorks, WorkerFails

\* and so does every step.
LEMMA SyncStepKept == TypeInv /\ SyncInv /\ [Next]_vars => SyncInv'
<1> SUFFICES ASSUME TypeInv, SyncInv, [Next]_vars PROVE SyncInv'
  OBVIOUS
<1>1. CASE UNCHANGED vars \/ PublishUnnamed
  <2>1. UNCHANGED <<listing, version, row, stamp, pc, copy, started, page, last, disturbed, alone>>
    BY <1>1 DEF PublishUnnamed, vars, sourceVars, tableVars, syncVars, ghostVars
  <2>2. \A a \in Actor : \A p \in Profile : copy'[a][p] # 0 => version[p] # 0
    BY <2>1 DEF SyncInv, Marks
  <2> QED
    BY <2>1, <2>2, SyncRests
<1>2. ASSUME NEW p \in Profile, EditProfile(p) \/ RemoveProfile(p) PROVE SyncInv'
  BY <1>2, SourceSync
<1>3. CASE StartSync
  BY <1>3, StartSyncs
<1>4. ASSUME NEW s \in Sync, SyncStep(s) PROVE SyncInv'
  BY <1>4, FetchSync, StoreSync, DeleteSync, TroubleSync DEF SyncStep
<1>5. ASSUME NEW q \in Request, RequestStep(q) PROVE SyncInv'
  BY <1>5, RequestSync
<1>6. CASE WorkerWorks \/ WorkerFails
  BY <1>6, WorkerSync
<1>7. CASE Restart
  BY <1>7, TroubleSync
<1> QED
  BY <1>1, <1>2, <1>3, <1>4, <1>5, <1>6, <1>7 DEF Next

\* The only steps that take a run from its delete to its end.
LEMMA Ends ==
    ASSUME TypeInv, Next, NEW s \in Sync, pc[s] = "delete", pc'[s] = "done"
    PROVE  DeleteStale(s) \/ (row' = row /\ troubles' # troubles)
<1>1. /\ pc \in [Actor -> Places] /\ Sync \subseteq Actor /\ s \in Actor
      /\ Worker \notin Sync /\ Request \cap Sync = {} /\ Sync \subseteq Nat /\ started \in Nat
      /\ troubles \in Nat
  BY Constants DEF TypeInv, CoreTyped, Constantly
<1>2. \A a \in Actor \ {s} : \A to : ~Goto(a, to)
  BY <1>1 DEF Goto
<1>3. ~(\E p \in Profile : EditProfile(p) \/ RemoveProfile(p)) /\ ~PublishUnnamed
  BY DEF EditProfile, RemoveProfile, Relist, PublishUnnamed
<1>4. ~StartSync
  BY <1>1 DEF StartSync, Goto
<1>5. \A t \in Sync : SyncStep(t) => DeleteStale(s) \/ (row' = row /\ troubles' # troubles)
  <2> SUFFICES ASSUME NEW t \in Sync, SyncStep(t)
               PROVE  DeleteStale(s) \/ (row' = row /\ troubles' # troubles)
    OBVIOUS
  <2>1. t = s
    BY <1>1, <1>2 DEF SyncStep, FetchPage, StorePage, DeleteStale, SyncFails, Finish
  <2>2. CASE SyncFails(s)
    BY <1>1, <2>2 DEF SyncFails, Trouble, tableVars
  <2> QED
    BY <2>1, <2>2 DEF SyncStep, FetchPage, StorePage
<1>6. \A q \in Request : ~RequestStep(q)
  <2>1. \A q \in Request : q \in Actor \ {s}
    BY <1>1 DEF Actor, Task
  <2> QED
    BY <1>2, <2>1 DEF RequestStep, Ask, FetchWanted, FetchOne, StoreOne, RequestFails
<1>7. ~WorkerWorks /\ ~WorkerFails
  <2>1. Worker \in Actor \ {s}
    BY <1>1 DEF Actor, Task
  <2> QED
    BY <1>2, <2>1 DEF WorkerWorks, WorkerFails, EnsureGroup, ReadEvents, ReadLost, SkipEvent, FetchEvent,
       FetchOne, StoreOne, AckEvent, AckFails, EventFails, Advance
<1>8. Restart => row' = row /\ troubles' # troubles
  BY <1>1 DEF Restart, Trouble, tableVars
<1> QED
  BY <1>3, <1>4, <1>5, <1>6, <1>7, <1>8 DEF Next

\* A run that nothing disturbed deletes no profile the source lists:
\* ProfileSync!SyncSparesListed.
THEOREM ListedSpared == Spec => SyncSparesListed
<1> DEFINE Spares == \A s \in Sync :
        pc[s] = "delete" /\ pc'[s] = "done" /\ s \notin disturbed =>
            \A p \in Listed(listing) : row[p] # 0 => row'[p] # 0
<1>1. TypeInv /\ SyncInv /\ [Next]_vars => [Spares]_vars
  <2> SUFFICES ASSUME TypeInv, SyncInv, Next, NEW s \in Sync, pc[s] = "delete", pc'[s] = "done",
                      s \notin disturbed, NEW p \in Listed(listing), row[p] # 0
               PROVE  row'[p] # 0
    BY DEF Spares
  <2>1. p \in Profile
    BY Basics DEF TypeInv, StreamInv, StreamTyped
  <2>2. CASE DeleteStale(s)
    <3>1. PICK i \in DOMAIN listing : listing[i] = p
      BY DEF Listed
    <3>2. SparedBy(s) /\ Reached(s, i) /\ copy[s][p] = 0
      BY <2>1 DEF SyncInv, Marks, Running, Reached, Nothing
    <3>3. s <= stamp[p] /\ s \in Nat /\ stamp[p] \in Nat
      BY <2>1, <3>1, <3>2, Constants DEF SparedBy, Constantly, TypeInv, CoreTyped
    <3>4. p \notin Stale(s)
      BY <3>3 DEF Stale
    <3> QED
      BY <2>1, <2>2, <3>4 DEF DeleteStale
  <2> QED
    BY <2>2, Ends
<1> QED
  BY <1>1, TypeInit, TypeStep, SyncInit, SyncStepKept, PTL DEF Spec, SyncSparesListed

\* A run beside which nothing else happened leaves the table as the source is:
\* ProfileSync!LoneSyncMirrors.
THEOREM LoneMirrors == Spec => LoneSyncMirrors
<1> DEFINE Mirrors == \A s \in Sync :
        pc[s] = "delete" /\ pc'[s] = "done" /\ s \in alone /\ troubles' = troubles =>
            row' = [p \in Profile |-> IF p \in Listed(listing) THEN version[p] ELSE 0]
<1>1. TypeInv /\ SyncInv /\ [Next]_vars => [Mirrors]_vars
  <2> SUFFICES ASSUME TypeInv, SyncInv, Next, NEW s \in Sync, pc[s] = "delete", pc'[s] = "done",
                      s \in alone, troubles' = troubles
               PROVE  row' = [p \in Profile |-> IF p \in Listed(listing) THEN version[p] ELSE 0]
    BY DEF Mirrors
  <2>1. row' = [p \in Profile |-> IF p \in Stale(s) THEN 0 ELSE row[p]]
    BY Ends DEF DeleteStale
  <2>2. MirroredBy(s) /\ \A p \in Profile : copy[s][p] = 0
    BY DEF SyncInv, Marks, Running, Nothing
  <2>3. ASSUME NEW p \in Profile, p \in Listed(listing)
        PROVE  p \notin Stale(s) /\ row[p] = version[p]
    <3>1. PICK i \in DOMAIN listing : listing[i] = p
      BY <2>3 DEF Listed
    <3>2. Reached(s, i) /\ version[p] # 0
      BY <2>3 DEF Reached, SyncInv, Marks
    <3>3. s <= stamp[p] /\ row[p] = version[p] /\ s \in Nat /\ stamp[p] \in Nat
      BY <2>2, <3>1, <3>2, Constants DEF MirroredBy, Constantly, TypeInv, CoreTyped
    <3> QED
      BY <3>3 DEF Stale
  <2>4. ASSUME NEW p \in Profile, p \notin Listed(listing)
        PROVE  p \in Stale(s) \/ row[p] = 0
    <3>1. s \in Nat /\ stamp[p] \in Nat
      BY Constants DEF Constantly, TypeInv, CoreTyped
    <3> QED
      BY <2>2, <2>4, <3>1 DEF MirroredBy, Stale
  <2> QED
    BY <2>1, <2>3, <2>4
<1> QED
  BY <1>1, TypeInit, TypeStep, SyncInit, SyncStepKept, PTL DEF Spec, LoneSyncMirrors

-----------------------------------------------------------------------------
(* What an acknowledged event leaves in the table.                         *)

\* Nothing is newer than the source, and a profile that is not excused is in
\* hand in one version at a time, no older than its row.
Hands ==
    /\ \A p \in Profile : row[p] <= version[p] /\ \A a \in Actor : copy[a][p] <= version[p]
    /\ \A p \in Profile \ excused :
           /\ \A a, b \in Actor : copy[a][p] # 0 /\ copy[b][p] # 0 => copy[a][p] = copy[b][p]
           /\ \A a \in Actor : copy[a][p] # 0 => row[p] <= copy[a][p]

\* An event announces a version the source has had.
Announced ==
    \A i \in 1..Len(stream) : stream[i].profile # NoProfile =>
        /\ stream[i].profile \in Profile
        /\ 1 <= stream[i].version /\ stream[i].version <= version[stream[i].profile]

\* The worker's batch is pending, and what it stores is what the event announced.
Batch ==
    /\ next..delivered \subseteq pending
    /\ pc[Worker] = "store" =>
           /\ stream[next].profile \in Profile
           /\ stream[next].version <= copy[Worker][stream[next].profile]
           /\ copy[Worker][stream[next].profile] # 0

Applied(i) ==
    stream[i].profile \in Listed(listing) \ excused =>
        stream[i].version <= row[stream[i].profile]

Answered == Acked \cup {i \in {next} : pc[Worker] = "ack"}

EventInv == Hands /\ Announced /\ Batch /\ \A i \in Answered : Applied(i)

\* The row of a profile that stays listed and not excused gets no older.
RowsKept ==
    \A p \in Profile : p \in Listed(listing)' \ excused' /\ version[p] # 0 =>
        p \in Listed(listing) \ excused /\ row[p] <= row'[p]

\* What is taken in hand is as the source has it, and no row gets older.
LEMMA TakeHands ==
    ASSUME TypeInv, Hands, NEW a \in Actor, NEW c \in [Profile -> Nat], Take(a, c),
           \A p \in Profile : c[p] \in {0, version[p]},
           UNCHANGED <<listing, version, row>>
    PROVE  Hands' /\ RowsKept
<1>1. /\ copy' = [copy EXCEPT ![a] = c]
      /\ excused' = excused \cup {p \in Profile : c[p] # 0 /\ \E b \in Actor \ {a} : copy[b][p] \notin {0, c[p]}}
  BY DEF Take
<1>2. /\ copy \in [Actor -> [Profile -> Nat]] /\ row \in [Profile -> Nat] /\ version \in [Profile -> Nat]
  BY DEF TypeInv, CoreTyped, StreamInv, StreamTyped
<1>3. /\ copy'[a] = c
      /\ \A b \in Actor \ {a} : copy'[b] = copy[b]
  BY <1>1, <1>2
<1>4. \A p \in Profile : row[p] <= version[p] /\ \A b \in Actor : copy'[b][p] <= version[p]
  BY <1>2, <1>3 DEF Hands
<1>5. ASSUME NEW p \in Profile \ excused'
      PROVE  /\ \A b, d \in Actor : copy'[b][p] # 0 /\ copy'[d][p] # 0 => copy'[b][p] = copy'[d][p]
             /\ \A b \in Actor : copy'[b][p] # 0 => row[p] <= copy'[b][p]
  <2>1. p \in Profile \ excused
    BY <1>1, <1>5
  <2>2. c[p] # 0 => \A b \in Actor \ {a} : copy[b][p] \in {0, c[p]}
    BY <1>1, <1>5
  <2>3. c[p] # 0 => row[p] <= c[p]
    BY DEF Hands
  <2> QED
    BY <1>3, <2>1, <2>2, <2>3 DEF Hands
<1>6. RowsKept
  BY <1>1, <1>2 DEF RowsKept, Listed
<1> QED
  BY <1>4, <1>5, <1>6 DEF Hands

\* What is stored is as new as what was in hand, and no row gets older.
LEMMA StoreHands ==
    ASSUME TypeInv, Hands, NEW a \in Actor, NEW at, Upsert(a, at), Drop(a),
           UNCHANGED <<listing, version, excused>>
    PROVE  /\ Hands' /\ RowsKept
           /\ \A p \in Profile : copy[a][p] # 0 => row'[p] = copy[a][p]
<1>1. /\ copy \in [Actor -> [Profile -> Nat]] /\ row \in [Profile -> Nat] /\ version \in [Profile -> Nat]
  BY DEF TypeInv, CoreTyped, StreamInv, StreamTyped
<1>2. /\ \A p \in Profile : copy'[a][p] = 0
      /\ \A b \in Actor \ {a} : copy'[b] = copy[b]
      /\ \A p \in Profile : row'[p] = IF copy[a][p] = 0 THEN row[p] ELSE copy[a][p]
  BY <1>1 DEF Drop, Nothing, Upsert
<1>3. \A p \in Profile : row'[p] <= version[p] /\ \A b \in Actor : copy'[b][p] <= version[p]
  BY <1>1, <1>2 DEF Hands
<1>4. ASSUME NEW p \in Profile \ excused
      PROVE  /\ \A b, d \in Actor : copy'[b][p] # 0 /\ copy'[d][p] # 0 => copy'[b][p] = copy'[d][p]
             /\ \A b \in Actor : copy'[b][p] # 0 => row'[p] <= copy'[b][p]
             /\ row[p] <= row'[p]
  BY <1>1, <1>2 DEF Hands
<1>5. RowsKept
  BY <1>4 DEF RowsKept, Listed
<1> QED
  BY <1>2, <1>3, <1>4, <1>5 DEF Hands

\* Nothing new is taken, and rows are only deleted.
LEMMA FewerHands ==
    ASSUME TypeInv, Hands, TypeInv',
           \A p \in Profile : /\ version[p] <= version'[p]
                              /\ row'[p] \in {0, row[p]}
                              /\ \A a \in Actor : copy'[a][p] \in {0, copy[a][p]},
           excused \subseteq excused'
    PROVE  Hands'
<1>1. /\ copy \in [Actor -> [Profile -> Nat]] /\ row \in [Profile -> Nat] /\ version \in [Profile -> Nat]
      /\ version' \in [Profile -> Nat]
  BY DEF TypeInv, CoreTyped, StreamInv, StreamTyped
<1>2. ASSUME NEW p \in Profile
      PROVE  row'[p] <= version'[p] /\ \A a \in Actor : copy'[a][p] <= version'[p]
  <2>1. /\ row[p] <= version[p] /\ row[p] \in Nat /\ version[p] \in Nat /\ version'[p] \in Nat
        /\ version[p] <= version'[p] /\ row'[p] \in {0, row[p]}
    BY <1>1 DEF Hands
  <2>2. \A a \in Actor : copy[a][p] \in Nat /\ copy[a][p] <= version[p] /\ copy'[a][p] \in {0, copy[a][p]}
    BY <1>1 DEF Hands
  <2> QED
    BY <2>1, <2>2
<1>3. ASSUME NEW p \in Profile \ excused'
      PROVE  /\ \A a, b \in Actor : copy'[a][p] # 0 /\ copy'[b][p] # 0 => copy'[a][p] = copy'[b][p]
             /\ \A a \in Actor : copy'[a][p] # 0 => row'[p] <= copy'[a][p]
  <2>1. p \in Profile \ excused /\ row[p] \in Nat /\ row'[p] \in {0, row[p]}
    BY <1>1, <1>3
  <2>2. \A a \in Actor : copy[a][p] \in Nat /\ copy'[a][p] \in {0, copy[a][p]}
    BY <1>1
  <2> QED
    BY <2>1, <2>2 DEF Hands
<1> QED
  BY <1>2, <1>3 DEF Hands

\* An event names a profile, or none, and a version.
LEMMA EventTyped ==
    ASSUME TypeInv, NEW i \in 1..Len(stream)
    PROVE  stream[i].profile \in Profile \cup {NoProfile} /\ stream[i].version \in Nat
<1>1. stream \in Seq(Event)
  BY DEF TypeInv, StreamInv, StreamTyped
<1>2. stream[i] \in Event
  BY <1>1
<1> QED
  BY <1>2 DEF Event

\* What is listed are profiles.
LEMMA ListedTyped ==
    ASSUME NEW L \in Listings
    PROVE  Listed(L) \subseteq Profile
  BY ListingFacts

\* What is answered stays applied where no row gets older.
LEMMA AnswersKept ==
    ASSUME TypeInv, EventInv, RowsKept, listing' \in Listings, row' \in [Profile -> Nat],
           \A i \in 1..Len(stream) : stream'[i] = stream[i],
           NEW i \in 1..Len(stream), Applied(i)
    PROVE  Applied(i)'
<1>1. Listed(listing') \subseteq Profile /\ Listed(listing)' = Listed(listing')
  BY ListedTyped DEF Listed
<1>2. SUFFICES ASSUME stream[i].profile \in Listed(listing)' \ excused'
               PROVE  stream[i].version <= row'[stream[i].profile]
  BY DEF Applied
<1>3. stream[i].profile \in Profile /\ stream[i].version \in Nat /\ stream[i].profile # NoProfile
  BY <1>1, <1>2, EventTyped, Constants DEF Constantly
<1>4. 1 <= stream[i].version /\ stream[i].version <= version[stream[i].profile]
  BY <1>3 DEF EventInv, Announced
<1>5. version[stream[i].profile] # 0
  BY <1>3, <1>4
<1>6. stream[i].profile \in Listed(listing) \ excused /\ row[stream[i].profile] <= row'[stream[i].profile]
  BY <1>2, <1>3, <1>5 DEF RowsKept
<1>7. stream[i].version <= row[stream[i].profile] /\ row[stream[i].profile] \in Nat
      /\ row'[stream[i].profile] \in Nat
  BY <1>3, <1>6 DEF Applied, TypeInv, CoreTyped
<1> QED
  BY <1>3, <1>6, <1>7

\* What the worker's place in the stream is made of.
LEMMA Placed ==
    ASSUME TypeInv
    PROVE  /\ Len(stream) \in Nat /\ delivered \in Nat /\ since \in Nat /\ next \in Nat
           /\ delivered <= Len(stream) /\ 1 <= next /\ next <= delivered + 1
           /\ pc[Worker] \in {"handle", "store", "ack"} => next <= delivered
           /\ Answered \subseteq 1..Len(stream)
           /\ Count \in Nat /\ 0 < Count
<1>1. /\ Len(stream) \in Nat /\ delivered \in 0..Len(stream) /\ since \in 0..delivered
      /\ next \in 1..(delivered + 1)
      /\ pc[Worker] \in {"handle", "store", "ack"} => next <= delivered
  BY LenProperties DEF TypeInv, StreamInv, StreamTyped, WorkerPlaced
<1>2. Answered \subseteq 1..Len(stream)
  BY <1>1 DEF Answered, Acked
<1> QED
  BY <1>1, <1>2, Constants DEF Constantly

\* A step that is none of the worker's.
LEMMA OthersKept ==
    ASSUME TypeInv, EventInv, TypeInv', Hands', Announced', RowsKept,
           \A i \in 1..Len(stream) : stream'[i] = stream[i],
           UNCHANGED <<delivered, since, pending, next, pc[Worker], copy[Worker]>>
    PROVE  EventInv'
<1>1. Answered' = Answered
  BY DEF Answered, Acked
<1>2. \A i \in Answered' : Applied(i)'
  <2>1. listing' \in Listings /\ row' \in [Profile -> Nat]
    BY DEF TypeInv, CoreTyped
  <2> QED
    BY <1>1, <2>1, Placed, AnswersKept DEF EventInv
<1>3. Batch'
  <2>1. pc[Worker] = "store" => next \in 1..Len(stream)
    BY Placed
  <2> QED
    BY <2>1 DEF EventInv, Batch
<1> QED
  BY <1>2, <1>3 DEF EventInv

\* An edit announces the version it makes.
LEMMA EditAnnounced ==
    ASSUME TypeInv, EventInv, NEW p \in Profile, EditProfile(p)
    PROVE  Announced' /\ \A i \in 1..Len(stream) : stream'[i] = stream[i]
<1>1. /\ version' = [version EXCEPT ![p] = version[p] + 1] /\ version \in [Profile -> Nat]
      /\ stream \in Seq(Event)
  BY DEF EditProfile, TypeInv, StreamInv, StreamTyped
<1>2. version'[p] \in Nat /\ 1 <= version'[p] /\ \A q \in Profile : version[q] <= version'[q]
  BY <1>1
<1>3. PICK n \in 0..1 : Publish(n, p, version'[p])
  BY DEF EditProfile
<1>4. /\ Len(stream') = Len(stream) + n /\ Len(stream) \in Nat
      /\ \A i \in 1..Len(stream) : stream'[i] = stream[i]
      /\ \A i \in 1..Len(stream') :
             i > Len(stream) => stream'[i] = [profile |-> p, version |-> version'[p]]
  BY <1>1, <1>2, <1>3, PublishTyped, LenProperties
<1>5. ASSUME NEW i \in 1..Len(stream'), stream'[i].profile # NoProfile
      PROVE  /\ stream'[i].profile \in Profile
             /\ 1 <= stream'[i].version /\ stream'[i].version <= version'[stream'[i].profile]
  <2>1. CASE i > Len(stream)
    <3>1. stream'[i].profile = p /\ stream'[i].version = version'[p]
      BY <1>4, <1>5, <2>1
    <3> QED
      BY <1>2, <3>1
  <2>2. CASE ~(i > Len(stream))
    <3>1. i \in 1..Len(stream) /\ stream'[i] = stream[i]
      BY <1>4, <2>2
    <3>2. /\ stream[i].profile \in Profile /\ stream[i].version \in Nat /\ 1 <= stream[i].version
          /\ stream[i].version <= version[stream[i].profile]
      BY <1>5, <3>1, EventTyped DEF EventInv, Announced
    <3> QED
      BY <1>1, <1>2, <3>1, <3>2
  <2> QED
    BY <2>1, <2>2
<1> QED
  BY <1>4, <1>5 DEF Announced

\* What the source does keeps EventInv.
LEMMA SourceEvents ==
    ASSUME TypeInv, SyncInv, EventInv, NEW p \in Profile, EditProfile(p) \/ RemoveProfile(p)
    PROVE  EventInv'
<1>1. TypeInv' /\ version \in [Profile -> Nat]
  BY SourceTyped DEF TypeInv, StreamInv, StreamTyped
<1>2. UNCHANGED <<row, copy, pc, delivered, since, pending, next, excused>>
  BY DEF EditProfile, RemoveProfile, Relist, tableVars
<1>3. \A q \in Profile : version[q] <= version'[q]
  BY <1>1 DEF EditProfile, RemoveProfile
<1>4. Hands'
  BY <1>1, <1>2, <1>3, FewerHands DEF EventInv
<1>5. PICK L \in Listings : listing' = L /\ \A q \in Listed(L) : q \in Listed(listing) \/ version[q] = 0
  BY DEF EditProfile, RemoveProfile, Relist
<1>6. RowsKept
  BY <1>2, <1>5 DEF RowsKept, Listed, TypeInv, CoreTyped
<1>7. Announced' /\ \A i \in 1..Len(stream) : stream'[i] = stream[i]
  <2>1. CASE EditProfile(p)
    BY <2>1, EditAnnounced
  <2>2. CASE RemoveProfile(p)
    BY <2>2 DEF RemoveProfile, EventInv, Announced
  <2> QED
    BY <2>1, <2>2
<1> QED
  BY <1>1, <1>2, <1>4, <1>6, <1>7, OthersKept

\* So does an event that names no profile,
LEMMA UnnamedEvents ==
    ASSUME TypeInv, EventInv, TypeInv', PublishUnnamed
    PROVE  EventInv'
<1>1. UNCHANGED <<listing, version, row, copy, pc, delivered, since, pending, next, excused>>
  BY DEF PublishUnnamed, sourceVars, tableVars, ghostVars
<1>2. Hands' /\ RowsKept
  BY <1>1 DEF EventInv, Hands, RowsKept, Listed, TypeInv, CoreTyped
<1>3. Publish(1, NoProfile, 0) /\ 1 \in 0..1 /\ 0 \in Nat /\ stream \in Seq(Event)
  BY DEF PublishUnnamed, TypeInv, StreamInv, StreamTyped
<1>4. /\ Len(stream') = Len(stream) + 1 /\ Len(stream) \in Nat
      /\ \A i \in 1..Len(stream) : stream'[i] = stream[i]
      /\ \A i \in 1..Len(stream') :
             i > Len(stream) => stream'[i] = [profile |-> NoProfile, version |-> 0]
  BY <1>3, PublishTyped, LenProperties
<1>5. ASSUME NEW i \in 1..Len(stream'), stream'[i].profile # NoProfile
      PROVE  i \in 1..Len(stream) /\ stream'[i] = stream[i]
  <2>1. ~(i > Len(stream))
    BY <1>4, <1>5
  <2> QED
    BY <1>4, <2>1
<1>6. Announced'
  BY <1>1, <1>5 DEF EventInv, Announced
<1> QED
  BY <1>1, <1>2, <1>4, <1>6, OthersKept

\* A step that is none of the worker's and nothing to the stream or the source.
LEMMA QuietEvents ==
    ASSUME TypeInv, EventInv, TypeInv', Hands', RowsKept,
           UNCHANGED <<version, streamVars>>, UNCHANGED <<pc[Worker], copy[Worker]>>
    PROVE  EventInv'
<1>1. Announced' /\ UNCHANGED <<stream, delivered, since, pending, next>>
  BY DEF EventInv, Announced, streamVars
<1> QED
  BY <1>1, OthersKept

\* a run,
LEMMA SyncEvents ==
    ASSUME TypeInv, SyncInv, EventInv, TypeInv', NEW s \in Sync, StartSync \/ SyncStep(s)
    PROVE  EventInv'
<1>1. /\ s \in Actor /\ s # Worker /\ Sync \subseteq Actor /\ Worker \in Actor /\ Worker \notin Sync
      /\ pc \in [Actor -> Places] /\ copy \in [Actor -> [Profile -> Nat]]
      /\ version \in [Profile -> Nat] /\ row \in [Profile -> Nat]
  BY Constants DEF Constantly, TypeInv, CoreTyped, StreamInv, StreamTyped
<1>2. Hands
  BY DEF EventInv
<1>3. CASE StartSync
  <2>1. UNCHANGED <<listing, version, row, copy, excused, streamVars>> /\ pc'[Worker] = pc[Worker]
    <3>1. started + 1 \in Sync
      BY <1>3, Constants DEF StartSync, TypeInv, CoreTyped, Sync, Constantly
    <3> QED
      BY <1>1, <1>3, <3>1 DEF StartSync, Goto, sourceVars, tableVars
  <2>2. Hands' /\ RowsKept
    BY <1>1, <1>2, <2>1 DEF Hands, RowsKept, Listed
  <2> QED
    BY <2>1, <2>2, QuietEvents
<1>4. CASE FetchPage(s)
  <2> DEFINE seen == [p \in Profile |-> IF p \in PageOf(listing, page[s]) THEN version[p] ELSE 0]
  <2>1. seen \in [Profile -> Nat] /\ \A p \in Profile : seen[p] \in {0, version[p]}
    BY <1>1
  <2>2. /\ Take(s, seen) /\ UNCHANGED <<listing, version, row, streamVars>>
        /\ UNCHANGED <<pc[Worker], copy[Worker]>>
    BY <1>1, <1>4 DEF FetchPage, Take, Goto, sourceVars, tableVars
  <2> HIDE DEF seen
  <2>3. Hands' /\ RowsKept
    BY <1>1, <1>2, <2>1, <2>2, TakeHands
  <2> QED
    BY <2>2, <2>3, QuietEvents
<1>5. CASE StorePage(s)
  <2>1. /\ Upsert(s, s) /\ Drop(s) /\ UNCHANGED <<listing, version, excused, streamVars>>
        /\ UNCHANGED <<pc[Worker], copy[Worker]>>
    BY <1>1, <1>5 DEF StorePage, Drop, Goto, sourceVars
  <2> QED
    BY <1>1, <1>2, <2>1, StoreHands, QuietEvents
<1>6. CASE DeleteStale(s)
  <2>1. /\ pc[s] = "delete" /\ copy' = [copy EXCEPT ![s] = Nothing]
        /\ row' = [p \in Profile |-> IF p \in Stale(s) THEN 0 ELSE row[p]]
        /\ excused' = IF s \in disturbed THEN excused \cup Stale(s) ELSE excused
        /\ UNCHANGED <<listing, version, streamVars>> /\ UNCHANGED <<pc[Worker], copy[Worker]>>
    BY <1>1, <1>6 DEF DeleteStale, Finish, Drop, Goto, sourceVars
  <2>2. Hands'
    <3>1. \A p \in Profile : /\ version[p] <= version'[p]
                             /\ row'[p] \in {0, row[p]}
                             /\ \A a \in Actor : copy'[a][p] \in {0, copy[a][p]}
      BY <1>1, <2>1 DEF Nothing
    <3> QED
      BY <1>2, <2>1, <3>1, FewerHands
  <2>3. ASSUME NEW p \in Listed(listing), p \notin excused' PROVE p \notin Stale(s)
    <3>1. CASE s \in disturbed
      BY <2>1, <2>3, <3>1
    <3>2. CASE s \notin disturbed
      <4>1. PICK i \in DOMAIN listing : listing[i] = p
        BY DEF Listed
      <4>2. p \in Profile
        BY Basics DEF TypeInv, StreamInv, StreamTyped
      <4>3. SparedBy(s) /\ Reached(s, i) /\ copy[s][p] = 0
        BY <2>1, <3>2, <4>2 DEF SyncInv, Marks, Running, Reached, Nothing
      <4>4. (row[p] = 0 \/ s <= stamp[p]) /\ s \in Nat /\ stamp[p] \in Nat
        BY <4>1, <4>2, <4>3, Constants DEF SparedBy, Constantly, TypeInv, CoreTyped
      <4> QED
        BY <4>4 DEF Stale
    <3> QED
      BY <3>1, <3>2
  <2>4. RowsKept
    BY <1>1, <2>1, <2>3 DEF RowsKept, Listed
  <2> QED
    BY <2>1, <2>2, <2>4, QuietEvents
<1>7. CASE SyncFails(s)
  <2>1. /\ copy' = [copy EXCEPT ![s] = Nothing] /\ UNCHANGED <<listing, version, row, excused, streamVars>>
        /\ UNCHANGED <<pc[Worker], copy[Worker]>>
    BY <1>1, <1>7 DEF SyncFails, Finish, Drop, Goto, sourceVars, tableVars
  <2>2. \A p \in Profile : /\ version[p] <= version'[p]
                           /\ row'[p] \in {0, row[p]}
                           /\ \A a \in Actor : copy'[a][p] \in {0, copy[a][p]}
    BY <1>1, <2>1 DEF Nothing
  <2>3. Hands' /\ RowsKept
    BY <1>1, <1>2, <2>1, <2>2, FewerHands DEF RowsKept, Listed
  <2> QED
    BY <2>1, <2>3, QuietEvents
<1> QED
  BY <1>3, <1>4, <1>5, <1>6, <1>7 DEF SyncStep

\* What a task takes is nothing, or the version of a profile the source lists.
LEMMA FetchOneHands ==
    ASSUME TypeInv, Hands, NEW t \in Task, NEW p, NEW absent \in Places, FetchOne(t, p, absent)
    PROVE  /\ Hands' /\ RowsKept /\ UNCHANGED <<listing, version, row>>
           /\ \A a \in Actor \ {t} : UNCHANGED <<pc[a], copy[a]>>
           /\ p \in Listed(listing) => p \in Profile /\ pc'[t] = "store" /\ copy'[t][p] = version[p]
           /\ p \notin Listed(listing) => pc'[t] = absent
<1>1. /\ t \in Actor /\ pc \in [Actor -> Places] /\ copy \in [Actor -> [Profile -> Nat]]
      /\ version \in [Profile -> Nat] /\ CoreTyped
  BY DEF Actor, TypeInv, CoreTyped, StreamInv, StreamTyped
<1>2. PICK c : c = IF p \in Listed(listing) THEN [Nothing EXCEPT ![p] = version[p]] ELSE Nothing
  OBVIOUS
<1>3. /\ c \in [Profile -> Nat] /\ \A q \in Profile : c[q] \in {0, version[q]}
      /\ p \in Listed(listing) => p \in Profile /\ c[p] = version[p]
  <2>1. CASE p \in Listed(listing)
    BY <1>1, <1>2, <2>1, Basics DEF Nothing
  <2>2. CASE p \notin Listed(listing)
    BY <1>1, <1>2, <2>2, Basics DEF Nothing
  <2> QED
    BY <2>1, <2>2
<1>4. /\ Take(t, c) /\ UNCHANGED <<listing, version, row>>
      /\ pc' = [pc EXCEPT ![t] = IF p \in Listed(listing) THEN "store" ELSE absent]
  BY <1>2 DEF FetchOne, Goto, sourceVars, tableVars
<1>5. Hands' /\ RowsKept
  BY <1>1, <1>3, <1>4, TakeHands
<1>6. copy' = [copy EXCEPT ![t] = c]
  BY <1>4 DEF Take
<1> QED
  BY <1>1, <1>3, <1>4, <1>5, <1>6

\* a request,
LEMMA RequestEvents ==
    ASSUME TypeInv, EventInv, TypeInv', NEW q \in Request, RequestStep(q)
    PROVE  EventInv'
<1>1. /\ q \in Task /\ q \in Actor /\ q # Worker /\ Worker \in Actor /\ "idle" \in Places
      /\ pc \in [Actor -> Places] /\ copy \in [Actor -> [Profile -> Nat]]
      /\ version \in [Profile -> Nat] /\ row \in [Profile -> Nat]
  BY Constants DEF Constantly, Task, Places, TypeInv, CoreTyped, StreamInv, StreamTyped
<1>2. Hands
  BY DEF EventInv
<1>3. ASSUME NEW p \in Profile, Ask(q, p) PROVE EventInv'
  <2>1. UNCHANGED <<listing, version, row, copy, excused, streamVars>> /\ pc'[Worker] = pc[Worker]
    BY <1>1, <1>3 DEF Ask, Goto, sourceVars, tableVars, ghostVars
  <2>2. Hands' /\ RowsKept
    BY <1>1, <1>2, <2>1 DEF Hands, RowsKept, Listed
  <2> QED
    BY <2>1, <2>2, QuietEvents
<1>4. CASE FetchWanted(q)
  <2>1. FetchOne(q, want[q], "idle") /\ UNCHANGED streamVars
    BY <1>4 DEF FetchWanted
  <2> QED
    BY <1>1, <1>2, <2>1, FetchOneHands, QuietEvents
<1>5. CASE StoreOne(q, "idle")
  <2>1. PICK at : Upsert(q, at)
    BY <1>5 DEF StoreOne
  <2>2. /\ Drop(q) /\ UNCHANGED <<listing, version, excused, streamVars>>
        /\ UNCHANGED <<pc[Worker], copy[Worker]>>
    BY <1>1, <1>5 DEF StoreOne, Forget, Drop, Goto, sourceVars
  <2> QED
    BY <1>1, <1>2, <2>1, <2>2, StoreHands, QuietEvents
<1>6. CASE RequestFails(q)
  <2>1. /\ copy' = [copy EXCEPT ![q] = Nothing] /\ UNCHANGED <<listing, version, row, excused, streamVars>>
        /\ UNCHANGED <<pc[Worker], copy[Worker]>>
    BY <1>1, <1>6 DEF RequestFails, Forget, Drop, Goto, sourceVars, tableVars, ghostVars
  <2>2. \A p \in Profile : /\ version[p] <= version'[p]
                           /\ row'[p] \in {0, row[p]}
                           /\ \A a \in Actor : copy'[a][p] \in {0, copy[a][p]}
    BY <1>1, <2>1 DEF Nothing
  <2>3. Hands' /\ RowsKept
    BY <1>1, <1>2, <2>1, <2>2, FewerHands DEF RowsKept, Listed
  <2> QED
    BY <2>1, <2>3, QuietEvents
<1> QED
  BY <1>3, <1>4, <1>5, <1>6 DEF RequestStep

\* A step of the worker's that answers only what it was about to answer.
LEMMA WorkerAnswers ==
    ASSUME TypeInv, EventInv, TypeInv', Hands', RowsKept, UNCHANGED <<version, stream>>, Batch',
           \A i \in Answered' : i \in Answered \/ (i \in 1..Len(stream) /\ Applied(i)')
    PROVE  EventInv'
<1>1. listing' \in Listings /\ row' \in [Profile -> Nat]
  BY DEF TypeInv, CoreTyped
<1>2. Announced'
  BY DEF EventInv, Announced
<1>3. \A i \in Answered : Applied(i)'
  BY <1>1, Placed, AnswersKept DEF EventInv
<1> QED
  BY <1>2, <1>3 DEF EventInv

\* On to the next event, and the one before is acknowledged only after its handling.
LEMMA AdvanceEvents ==
    ASSUME TypeInv, EventInv, TypeInv', Hands', RowsKept,
           pc'[Worker] \in {"listen", "handle", "down"},
           next' = next + 1 \/ next' = delivered + 1,
           UNCHANGED <<version, stream, delivered, since>>,
           pending' = pending \/ (pc[Worker] = "ack" /\ pending' = pending \ {next})
    PROVE  EventInv'
<1>1. Batch'
  <2>1. next'..delivered \subseteq next..delivered /\ next \notin next'..delivered
    BY Placed
  <2> QED
    BY <2>1 DEF EventInv, Batch
<1>2. Answered' \subseteq Answered
  BY DEF Answered, Acked
<1> QED
  BY <1>1, <1>2, WorkerAnswers

\* the worker,
LEMMA WorkerEvents ==
    ASSUME TypeInv, EventInv, TypeInv', WorkerWorks \/ WorkerFails
    PROVE  EventInv'
<1>1. /\ Worker \in Task /\ Worker \in Actor /\ "ack" \in Places
      /\ pc \in [Actor -> Places] /\ copy \in [Actor -> [Profile -> Nat]]
      /\ version \in [Profile -> Nat] /\ row \in [Profile -> Nat]
  BY Constants DEF Constantly, Places, TypeInv, CoreTyped, StreamInv, StreamTyped
<1>2. Hands /\ Batch
  BY DEF EventInv
<1>3. ASSUME UNCHANGED <<listing, version, row, copy, excused>>
      PROVE  Hands' /\ RowsKept
  BY <1>1, <1>2, <1>3 DEF Hands, RowsKept, Listed
<1>4. CASE EnsureGroup
  <2>1. /\ UNCHANGED <<listing, version, row, copy, excused, stream, pending>>
        /\ pc[Worker] = "down" /\ pc'[Worker] = "listen"
    BY <1>1, <1>4 DEF EnsureGroup, Goto, sourceVars, tableVars, ghostVars
  <2>2. CASE group /\ UNCHANGED <<delivered, since, next>>
    <3>1. Answered' \subseteq Answered /\ Batch'
      BY <1>2, <2>1, <2>2 DEF Answered, Acked, Batch
    <3> QED
      BY <1>3, <2>1, <3>1, WorkerAnswers
  <2>3. CASE ~group /\ delivered' = Len(stream) /\ since' = Len(stream) /\ next' = Len(stream) + 1
    <3>1. Answered' = {} /\ Batch'
      BY <2>1, <2>3, Placed DEF Answered, Acked, Batch
    <3> QED
      BY <1>3, <2>1, <3>1, WorkerAnswers
  <2> QED
    BY <1>4, <2>2, <2>3 DEF EnsureGroup
<1>5. CASE ReadEvents \/ ReadLost
  <2>1. /\ UNCHANGED <<listing, version, row, copy, excused, stream, since>>
        /\ pc[Worker] = "listen" /\ pc'[Worker] \in {"handle", "down"}
        /\ delivered' = IF Len(stream) < delivered + Count THEN Len(stream) ELSE delivered + Count
        /\ pending' = pending \cup (delivered + 1)..delivered' /\ delivered < Len(stream)
        /\ next' = delivered + 1 \/ next' = delivered' + 1
    BY <1>1, <1>5 DEF ReadEvents, ReadLost, Deliver, Goto, sourceVars, tableVars, ghostVars
  <2>2. delivered' \in Nat /\ delivered < delivered'
    BY <2>1, Placed
  <2>3. Batch'
    BY <2>1, <2>2, Placed DEF Batch
  <2>4. Answered' \subseteq Answered
    <3> SUFFICES ASSUME NEW i \in Answered' PROVE i \in Answered
      OBVIOUS
    <3>1. i \in (since + 1)..delivered' /\ i \notin pending'
      BY <2>1 DEF Answered, Acked
    <3>2. i \in (since + 1)..delivered /\ i \notin pending
      BY <2>1, <2>2, <3>1, Placed
    <3> QED
      BY <3>2 DEF Answered, Acked
  <2> QED
    BY <1>3, <2>1, <2>3, <2>4, WorkerAnswers
<1>6. CASE SkipEvent \/ AckEvent \/ AckFails
  <2>1. /\ UNCHANGED <<listing, version, row, copy, excused, stream, delivered, since>>
        /\ pc'[Worker] \in {"listen", "handle", "down"}
        /\ next' = next + 1 \/ next' = delivered + 1
        /\ pending' = pending \/ (pc[Worker] = "ack" /\ pending' = pending \ {next})
    BY <1>1, <1>6 DEF SkipEvent, AckEvent, AckFails, Advance, Goto, sourceVars, tableVars, ghostVars
  <2> QED
    BY <1>3, <2>1, AdvanceEvents
<1>7. CASE EventFails
  <2>1. /\ UNCHANGED <<listing, version, row, excused, stream, delivered, since, pending>>
        /\ copy' = [copy EXCEPT ![Worker] = Nothing]
        /\ pc'[Worker] \in {"listen", "handle"} /\ next' = next + 1
    BY <1>1, <1>7 DEF EventFails, Advance, Forget, Drop, Goto, sourceVars, tableVars, ghostVars
  <2>2. \A p \in Profile : /\ version[p] <= version'[p]
                           /\ row'[p] \in {0, row[p]}
                           /\ \A a \in Actor : copy'[a][p] \in {0, copy[a][p]}
    BY <1>1, <2>1 DEF Nothing
  <2>3. Hands' /\ RowsKept
    BY <1>1, <1>2, <2>1, <2>2, FewerHands DEF RowsKept, Listed
  <2> QED
    BY <2>1, <2>3, AdvanceEvents
<1>8. CASE FetchEvent
  <2>1. /\ pc[Worker] = "handle" /\ FetchOne(Worker, stream[next].profile, "ack")
        /\ UNCHANGED <<stream, delivered, pending, next, since>>
        /\ stream[next].profile # NoProfile
    BY <1>8 DEF FetchEvent, streamVars
  <2>2. PICK p : p = stream[next].profile
    OBVIOUS
  <2>3. /\ Hands' /\ RowsKept /\ UNCHANGED <<listing, version, row>>
        /\ p \in Listed(listing) => p \in Profile /\ pc'[Worker] = "store" /\ copy'[Worker][p] = version[p]
        /\ p \notin Listed(listing) => pc'[Worker] = "ack"
    BY <1>1, <1>2, <2>1, <2>2, FetchOneHands
  <2>4. next \in 1..Len(stream)
    BY <2>1, Placed
  <2>5. stream[next].version \in Nat /\ 1 <= stream[next].version /\ stream[next].version <= version[p]
    BY <2>1, <2>2, <2>4, EventTyped DEF EventInv, Announced
  <2>6. Batch'
    <3>1. p \in Listed(listing) => version[p] # 0 /\ version[p] \in Nat
      BY <1>1, <2>3, <2>5
    <3> QED
      BY <1>2, <2>1, <2>2, <2>3, <2>5, <3>1 DEF Batch
  <2>7. ASSUME NEW i \in Answered' PROVE i \in Answered \/ (i \in 1..Len(stream) /\ Applied(i)')
    <3>1. i \in Acked \/ (i = next /\ pc'[Worker] = "ack")
      BY <2>1, <2>7 DEF Answered, Acked
    <3>2. pc'[Worker] = "ack" => p \notin Listed(listing)
      BY <2>3
    <3> QED
      BY <2>1, <2>2, <2>3, <2>4, <3>1, <3>2 DEF Answered, Applied, Listed
  <2> QED
    BY <2>1, <2>3, <2>6, <2>7, WorkerAnswers
<1>9. CASE StoreOne(Worker, "ack")
  <2>1. PICK at : Upsert(Worker, at)
    BY <1>9 DEF StoreOne
  <2>2. /\ Drop(Worker) /\ UNCHANGED <<listing, version, excused, stream, delivered, pending, next, since>>
        /\ pc[Worker] = "store" /\ pc'[Worker] = "ack"
    BY <1>1, <1>9 DEF StoreOne, Forget, Goto, sourceVars, streamVars
  <2>3. /\ Hands' /\ RowsKept
        /\ \A p \in Profile : copy[Worker][p] # 0 => row'[p] = copy[Worker][p]
    BY <1>1, <1>2, <2>1, <2>2, StoreHands
  <2>4. /\ stream[next].profile \in Profile /\ next \in 1..Len(stream)
        /\ stream[next].version <= row'[stream[next].profile]
    BY <1>2, <2>2, <2>3, Placed DEF Batch
  <2>5. Batch'
    BY <1>2, <2>2 DEF Batch
  <2>6. ASSUME NEW i \in Answered' PROVE i \in Answered \/ (i \in 1..Len(stream) /\ Applied(i)')
    <3>1. i \in Acked \/ i = next
      BY <2>2, <2>6 DEF Answered, Acked
    <3> QED
      BY <2>2, <2>4, <3>1 DEF Answered, Applied
  <2> QED
    BY <2>2, <2>3, <2>5, <2>6, WorkerAnswers
<1> QED
  BY <1>4, <1>5, <1>6, <1>7, <1>8, <1>9 DEF WorkerWorks, WorkerFails

\* and a restart.
LEMMA RestartEvents ==
    ASSUME TypeInv, EventInv, TypeInv', Restart
    PROVE  EventInv'
<1>1. /\ \A a \in Actor : copy'[a] = Nothing
      /\ pc'[Worker] = "down" /\ next' = delivered + 1
      /\ UNCHANGED <<listing, version, row, excused, stream, delivered, since, pending>>
  BY Constants DEF Restart, Constantly, sourceVars, tableVars
<1>2. version \in [Profile -> Nat] /\ row \in [Profile -> Nat]
  BY DEF TypeInv, CoreTyped, StreamInv, StreamTyped
<1>3. \A p \in Profile : /\ version[p] <= version'[p]
                         /\ row'[p] \in {0, row[p]}
                         /\ \A a \in Actor : copy'[a][p] \in {0, copy[a][p]}
  BY <1>1, <1>2 DEF Nothing
<1>4. Hands' /\ RowsKept
  BY <1>1, <1>2, <1>3, FewerHands DEF EventInv, RowsKept, Listed
<1> QED
  BY <1>1, <1>4, AdvanceEvents

\* EventInv holds when the service starts.
LEMMA EventInit == Init => EventInv
<1> SUFFICES ASSUME Init PROVE EventInv
  OBVIOUS
<1>1. /\ \A p \in Profile : row[p] = 0 /\ version[p] \in Nat
      /\ \A a \in Actor : \A p \in Profile : copy[a][p] = 0
      /\ pc[Worker] = "down" /\ pending = {} /\ next = 1 /\ delivered = 0 /\ since = 0
  BY Constants DEF Init, Nothing, Constantly
<1>2. Len(stream) = 0
  BY DEF Init
<1>3. Hands
  BY <1>1 DEF Hands
<1>4. Announced
  BY <1>2 DEF Announced
<1>5. Answered = {} /\ Batch
  BY <1>1 DEF Answered, Acked, Batch
<1> QED
  BY <1>3, <1>4, <1>5 DEF EventInv

\* And every step keeps it.
LEMMA EventStep == TypeInv /\ SyncInv /\ EventInv /\ [Next]_vars => EventInv'
<1> SUFFICES ASSUME TypeInv, SyncInv, EventInv, [Next]_vars PROVE EventInv'
  OBVIOUS
<1>1. TypeInv'
  BY TypeStep
<1>2. CASE UNCHANGED vars
  BY <1>2 DEF vars, sourceVars, tableVars, streamVars, ghostVars, EventInv, Hands, Announced, Batch,
     Answered, Acked, Applied, Listed
<1>3. ASSUME NEW p \in Profile, EditProfile(p) \/ RemoveProfile(p) PROVE EventInv'
  BY <1>3, SourceEvents
<1>4. CASE PublishUnnamed
  BY <1>1, <1>4, UnnamedEvents
<1>5. CASE StartSync
  <2>1. started + 1 \in Sync
    BY <1>5, Constants DEF StartSync, TypeInv, CoreTyped, Sync, Constantly
  <2> QED
    BY <1>1, <1>5, <2>1, SyncEvents
<1>6. ASSUME NEW s \in Sync, SyncStep(s) PROVE EventInv'
  BY <1>1, <1>6, SyncEvents
<1>7. ASSUME NEW q \in Request, RequestStep(q) PROVE EventInv'
  BY <1>1, <1>7, RequestEvents
<1>8. CASE WorkerWorks \/ WorkerFails
  BY <1>1, <1>8, WorkerEvents
<1>9. CASE Restart
  BY <1>1, <1>9, RestartEvents
<1> QED
  BY <1>2, <1>3, <1>4, <1>5, <1>6, <1>7, <1>8, <1>9 DEF Next

\* An acknowledged event has been carried out: ProfileSync!AckedEventApplied.
THEOREM AckedApplied == Spec => []AckedEventApplied
<1>1. EventInv => AckedEventApplied
  BY DEF EventInv, Answered, Applied, AckedEventApplied
<1> QED
  BY <1>1, TypeInit, TypeStep, SyncInit, SyncStepKept, EventInit, EventStep, PTL DEF Spec
=============================================================================
