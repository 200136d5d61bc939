---------------------------- MODULE ProfileSync ----------------------------
(***************************************************************************)
(* The copy of the seeker service's profiles that the BAP keeps.           *)
(*                                                                         *)
(* A cron run pages through everything the source lists, stores each page  *)
(* and, once through, deletes the rows it did not see                      *)
(* (cron/fetch_profiles.rs). Beside it a profile is fetched alone, for an  *)
(* event the source sent through a Redis stream                            *)
(* (workers/redis_event_worker.rs) or for a request that misses it         *)
(* (db/profiles.rs: get_or_sync_profile). All of them run at once: a read  *)
(* of the source and the store of what it returned are separate steps.     *)
(*                                                                         *)
(* Time is the number of cron runs begun: a run stamps rows with its own   *)
(* number, and now() lies between the last run's start and the next one's. *)
(***************************************************************************)
EXTENDS Naturals, FiniteSets, Sequences

CONSTANTS
    Profile,
    Request,      \* requests that look a profile up at the same time
    Worker,       \* the event worker
    NoProfile,    \* what an event names that carries no profile id
    Limit,        \* profiles to a page (100 in the code)
    Count,        \* events to a read of the stream (10 in the code)
    MaxBusy,      \* bound: cron runs and requests at work at the same time
    MaxSyncs,     \* bound: cron runs
    MaxChanges,   \* bound: changes of the source
    MaxEvents,    \* bound: events published
    MaxUnnamed,   \* bound: how many of them name no profile
    MaxTroubles   \* bound: failing calls and restarts

Sync  == 1..MaxSyncs
Task  == Request \cup {Worker}
Actor == Sync \cup Task

ASSUME ProfileSyncAssumption ==
    /\ NoProfile \notin Profile /\ Worker \notin Request
    /\ Task \cap Nat = {}
    /\ Limit \in Nat \ {0} /\ Count \in Nat \ {0}
    /\ {MaxBusy, MaxSyncs, MaxChanges, MaxEvents, MaxUnnamed, MaxTroubles} \subseteq Nat

VARIABLES
    listing,    \* the source: the order in which it lists its profiles
    version,    \* the source: the version of each; 0: not created yet
    row,        \* profiles.hash: the version stored; 0: no row
    stamp,      \* profiles.last_synced_at
    pc, copy,   \* where each actor stands, and the versions it has in hand
    started,    \* cron runs begun
    page, last, \* the page a run is at, and whether it was the last
    want,       \* the profile a request looks for
    fetched,    \* when a request or the worker fetched what it has in hand
    stream,     \* the events, and the version each one announces
    group,      \* the consumer group exists
    delivered,  \* the group's last delivered event
    pending,    \* events delivered and not acknowledged
    next,       \* the event the worker is at; past delivered: none
    changes, troubles,  \* (bounds)
    \* History variables: no action reads them.
    since,      \* the events that were there before the group
    disturbed,  \* runs that missed a listed profile, or saw an older stamp stored
    alone,      \* runs beside which nothing else happened
    excused,    \* profiles whose row need not be right
    blame       \* events whose handling met a trouble

sourceVars == <<listing, version, changes>>
tableVars  == <<row, stamp>>
syncVars   == <<started, page, last>>
taskVars   == <<want, fetched>>
streamVars == <<stream, group, delivered, pending, next, since, blame>>
ghostVars  == <<disturbed, alone, excused>>

vars == <<sourceVars, tableVars, pc, copy, syncVars, taskVars, streamVars,
          troubles, ghostVars>>

\* No profile twice in a listing.
Listings ==
    {L \in UNION {[1..n -> Profile] : n \in 0..Cardinality(Profile)} :
        \A i, j \in DOMAIN L : L[i] = L[j] => i = j}

Listed(L) == {L[i] : i \in DOMAIN L}

\* The n-th page of a listing.
PageOf(L, n) ==
    {L[i] : i \in {k \in DOMAIN L : (n - 1) * Limit < k /\ k <= n * Limit}}

Nothing == [p \in Profile |-> 0]

Event == [profile : Profile \cup {NoProfile}, version : Nat]

TypeOK ==
    /\ listing \in Listings /\ version \in [Profile -> Nat]
    /\ row \in [Profile -> Nat] /\ stamp \in [Profile -> 0..MaxSyncs]
    /\ pc \in [Actor -> {"idle", "fetch", "store", "delete", "done",
                         "down", "listen", "handle", "ack"}]
    /\ copy \in [Actor -> [Profile -> Nat]]
    /\ started \in 0..MaxSyncs
    /\ page \in [Sync -> Nat \ {0}] /\ last \in [Sync -> BOOLEAN]
    /\ want \in [Request -> Profile \cup {NoProfile}] /\ fetched \in [Task -> 0..started]
    /\ stream \in Seq(Event) /\ group \in BOOLEAN
    /\ delivered \in 0..Len(stream) /\ since \in 0..delivered
    /\ pending \subseteq (since + 1)..delivered
    /\ next \in 1..(delivered + 1)
    /\ changes \in Nat /\ troubles \in Nat
    /\ disturbed \subseteq Sync /\ alone \subseteq Sync
    /\ excused \subseteq Profile /\ blame \subseteq 1..delivered

Init ==
    /\ listing \in Listings
    /\ version = [p \in Profile |-> IF p \in Listed(listing) THEN 1 ELSE 0]
    /\ row = Nothing /\ stamp = Nothing
    /\ pc = [a \in Actor |-> IF a = Worker THEN "down" ELSE "idle"]
    /\ copy = [a \in Actor |-> Nothing]
    /\ started = 0
    /\ page = [s \in Sync |-> 1] /\ last = [s \in Sync |-> FALSE]
    /\ want = [q \in Request |-> NoProfile] /\ fetched = [t \in Task |-> 0]
    /\ stream = <<>> /\ group = FALSE /\ delivered = 0 /\ since = 0
    /\ pending = {} /\ next = 1 /\ blame = {}
    /\ changes = 0 /\ troubles = 0
    /\ disturbed = {} /\ alone = {} /\ excused = {}

-----------------------------------------------------------------------------
Running == {s \in Sync : pc[s] \in {"fetch", "store", "delete"}}
Asking  == {q \in Request : pc[q] # "idle"}
Room    == Cardinality(Running \cup Asking) < MaxBusy

Goto(a, to) == pc' = [pc EXCEPT ![a] = to]

\* What goes wrong goes wrong at most MaxTroubles times.
Trouble == troubles < MaxTroubles /\ troubles' = troubles + 1

\* An actor reads versions from the source and will store them; a profile that
\* another one has in hand in another version is excused.
Take(a, c) ==
    /\ copy' = [copy EXCEPT ![a] = c]
    /\ excused' = excused \cup
           {p \in Profile : c[p] # 0 /\ \E b \in Actor \ {a} : copy[b][p] \notin {0, c[p]}}

Drop(a) == copy' = [copy EXCEPT ![a] = Nothing]

\* Mutant: a row that is stored as it was keeps its last_synced_at.
UpsertChanged(a, at) ==
    /\ row'   = [p \in Profile |-> IF copy[a][p] = 0 THEN row[p] ELSE copy[a][p]]
    /\ stamp' = [p \in Profile |-> IF copy[a][p] \in {0, row[p]} THEN stamp[p] ELSE at]

\* Store what an actor has in hand, and say when it was last synced.
Upsert(a, at) ==
    /\ row'   = [p \in Profile |-> IF copy[a][p] = 0 THEN row[p] ELSE copy[a][p]]
    /\ stamp' = [p \in Profile |-> IF copy[a][p] = 0 THEN stamp[p] ELSE at]

\* Runs beside which a row is stored with a stamp from before they began.
SetBack(a, at) == {s \in Running : at < s /\ copy[a] # Nothing}

-----------------------------------------------------------------------------
(* The source, outside this repository.                                    *)

\* The pages s has read cover the first Covered(s) places of the listing.
Covered(s) == IF pc[s] = "store" THEN page[s] * Limit ELSE (page[s] - 1) * Limit

\* A profile that s has not read yet moves to a page that s has read.
Slips(s, L) ==
    /\ pc[s] \in {"fetch", "store"} /\ ~last[s]
    /\ \E i \in DOMAIN listing, j \in DOMAIN L :
           listing[i] = L[j] /\ Covered(s) < i /\ j <= Covered(s)

\* The source's list becomes L: p, and nothing else, came, went or moved.
Relist(p, L) ==
    /\ \A i, j \in DOMAIN listing :
           i < j /\ p \notin {listing[i], listing[j]} =>
               \E k, l \in DOMAIN L : k < l /\ L[k] = listing[i] /\ L[l] = listing[j]
    /\ changes < MaxChanges
    /\ changes' = changes + 1 /\ listing' = L
    /\ disturbed' = disturbed \cup {s \in Sync : Slips(s, L)}
    /\ alone' = {}
    /\ UNCHANGED <<tableVars, pc, copy, syncVars, taskVars, group, delivered, pending, next,
                   since, blame, troubles, excused>>

\* The source posts n events, and handle_events puts each on the stream.
Publish(n, p, v) ==
    /\ Len(stream) + n <= MaxEvents
    /\ stream' = stream \o [i \in 1..n |-> [profile |-> p, version |-> v]]

\* A profile is created, or edited and perhaps listed elsewhere. The event for it
\* may not be posted; when the worker takes it is up to the worker.
EditProfile(p) ==
    /\ version[p] = 0 \/ p \in Listed(listing)
    /\ version' = [version EXCEPT ![p] = @ + 1]
    /\ \E L \in Listings : Listed(L) = Listed(listing) \cup {p} /\ Relist(p, L)
    /\ \E n \in 0..1 : Publish(n, p, version'[p])

\* A profile is deleted, for good.
RemoveProfile(p) ==
    /\ p \in Listed(listing)
    /\ \E L \in Listings : Listed(L) = Listed(listing) \ {p} /\ Relist(p, L)
    /\ UNCHANGED <<version, stream>>

\* An event that names no profile.
PublishUnnamed ==
    /\ Cardinality({i \in DOMAIN stream : stream[i].profile = NoProfile}) < MaxUnnamed
    /\ Publish(1, NoProfile, 0)
    /\ UNCHANGED <<sourceVars, tableVars, pc, copy, syncVars, taskVars, group, delivered,
                   pending, next, since, blame, troubles, ghostVars>>

-----------------------------------------------------------------------------
(* The cron run.                                                           *)

\* A run that ended keeps nothing.
Finish(s) ==
    /\ Goto(s, "done") /\ Drop(s)
    /\ page' = [page EXCEPT ![s] = 1] /\ last' = [last EXCEPT ![s] = FALSE]
    /\ disturbed' = disturbed \ {s}

StartSync ==
    /\ started < MaxSyncs /\ Room
    /\ started' = started + 1
    /\ Goto(started + 1, "fetch")
    /\ alone' = alone \cup {started + 1}
    /\ UNCHANGED <<sourceVars, tableVars, copy, page, last, taskVars, streamVars, troubles,
                   disturbed, excused>>

\* A page that is not there ends the run as the last one does.
FetchPage(s) ==
    /\ s <= started /\ pc[s] = "fetch"
    /\ Goto(s, IF PageOf(listing, page[s]) = {} THEN "delete" ELSE "store")
    /\ Take(s, [p \in Profile |-> IF p \in PageOf(listing, page[s]) THEN version[p] ELSE 0])
    /\ last' = [last EXCEPT ![s] = Len(listing) <= page[s] * Limit]
    /\ UNCHANGED <<sourceVars, tableVars, started, page, taskVars, streamVars, troubles,
                   disturbed, alone>>

StorePage(s) ==
    /\ s <= started /\ pc[s] = "store"
    /\ Upsert(s, s) /\ Drop(s)
    /\ Goto(s, IF last[s] THEN "delete" ELSE "fetch")
    /\ page' = [page EXCEPT ![s] = IF last[s] THEN @ ELSE @ + 1]
    /\ disturbed' = disturbed \cup SetBack(s, s)
    /\ alone' = alone \cap {s}
    /\ UNCHANGED <<sourceVars, started, last, taskVars, streamVars, troubles, excused>>

\* Mutant: rows of the run before are spared, too.
StaleLate(s) == {p \in Profile : row[p] # 0 /\ stamp[p] + 1 < s}

\* Rows last synced before the run began.
Stale(s) == {p \in Profile : row[p] # 0 /\ stamp[p] < s}

DeleteStale(s) ==
    /\ s <= started /\ pc[s] = "delete"
    /\ row'   = [p \in Profile |-> IF p \in Stale(s) THEN 0 ELSE row[p]]
    /\ stamp' = [p \in Profile |-> IF p \in Stale(s) THEN 0 ELSE stamp[p]]
    /\ Finish(s)
    /\ alone' = {}
    /\ excused' = IF s \in disturbed THEN excused \cup Stale(s) ELSE excused
    /\ UNCHANGED <<sourceVars, started, taskVars, streamVars, troubles>>

\* A failing fetch or store ends the run before it deletes; so does a failing
\* delete, which is only logged.
SyncFails(s) ==
    /\ s \in Running /\ Trouble
    /\ Finish(s)
    /\ alone' = alone \ {s}
    /\ UNCHANGED <<sourceVars, tableVars, started, taskVars, streamVars, excused>>

-----------------------------------------------------------------------------
(* A profile fetched alone (services/profiles.rs: sync_profile_by_id).     *)

\* The source answers with the profile, or with nothing.
FetchOne(t, p, absent) ==
    /\ Goto(t, IF p \in Listed(listing) THEN "store" ELSE absent)
    /\ Take(t, IF p \in Listed(listing) THEN [Nothing EXCEPT ![p] = version[p]] ELSE Nothing)
    /\ fetched' = [fetched EXCEPT ![t] = IF p \in Listed(listing) THEN started ELSE 0]
    /\ UNCHANGED <<sourceVars, tableVars, syncVars, troubles, disturbed, alone>>

\* What a task had in hand is gone.
Forget(t) == Drop(t) /\ fetched' = [fetched EXCEPT ![t] = 0]

\* last_synced_at is the time after the answer and before the store.
StoreOne(t, to) ==
    /\ pc[t] = "store"
    /\ \E at \in fetched[t]..started :
           Upsert(t, at) /\ disturbed' = disturbed \cup SetBack(t, at)
    /\ Forget(t)
    /\ Goto(t, to)
    /\ alone' = {}
    /\ UNCHANGED <<sourceVars, syncVars, want, streamVars, troubles, excused>>

\* A request fetches the profile it does not find.
Ask(q, p) ==
    /\ pc[q] = "idle" /\ row[p] = 0 /\ Room
    /\ Goto(q, "fetch") /\ want' = [want EXCEPT ![q] = p]
    /\ UNCHANGED <<sourceVars, tableVars, copy, syncVars, fetched, streamVars, troubles,
                   ghostVars>>

FetchWanted(q) ==
    /\ pc[q] = "fetch" /\ FetchOne(q, want[q], "idle")
    /\ want' = [want EXCEPT ![q] = NoProfile]
    /\ UNCHANGED streamVars

\* The error is logged; the request looks the profile up again all the same.
RequestFails(q) ==
    /\ pc[q] \in {"fetch", "store"} /\ Trouble
    /\ Goto(q, "idle") /\ Forget(q) /\ want' = [want EXCEPT ![q] = NoProfile]
    /\ UNCHANGED <<sourceVars, tableVars, syncVars, streamVars, ghostVars>>

RequestStep(q) ==
    \/ \E p \in Profile : Ask(q, p)
    \/ FetchWanted(q)
    \/ StoreOne(q, "idle")
    \/ RequestFails(q)

-----------------------------------------------------------------------------
(* The event worker.                                                       *)

\* Mutant: the group starts behind the next event.
EnsureGroupPast ==
    /\ pc[Worker] = "down"
    /\ Goto(Worker, "listen") /\ group' = TRUE
    /\ \/ /\ group
          /\ UNCHANGED <<delivered, since, next>>
       \/ /\ ~group
          /\ delivered' = Len(stream) + 1 /\ since' = delivered' /\ next' = delivered' + 1
    /\ UNCHANGED <<sourceVars, tableVars, copy, syncVars, taskVars, stream, pending, blame,
                   troubles, ghostVars>>

\* The group is made once, and starts behind the events that are there.
EnsureGroup ==
    /\ pc[Worker] = "down"
    /\ Goto(Worker, "listen") /\ group' = TRUE
    /\ \/ /\ group
          /\ UNCHANGED <<delivered, since, next>>
       \/ /\ ~group
          /\ delivered' = Len(stream) /\ since' = Len(stream) /\ next' = Len(stream) + 1
    /\ UNCHANGED <<sourceVars, tableVars, copy, syncVars, taskVars, stream, pending, blame,
                   troubles, ghostVars>>

\* Redis hands out new events only; they are pending from now on.
Deliver ==
    /\ pc[Worker] = "listen" /\ delivered < Len(stream)
    /\ delivered' = IF Len(stream) < delivered + Count THEN Len(stream) ELSE delivered + Count
    /\ pending' = pending \cup (delivered + 1)..delivered'
    /\ UNCHANGED <<sourceVars, tableVars, copy, syncVars, taskVars, stream, group, since,
                   ghostVars>>

ReadEvents ==
    /\ Deliver
    /\ Goto(Worker, "handle") /\ next' = delivered + 1
    /\ UNCHANGED <<blame, troubles>>

\* The reply to a read is lost with the connection.
ReadLost ==
    /\ Deliver /\ Trouble
    /\ Goto(Worker, "down") /\ next' = delivered' + 1
    /\ blame' = blame \cup (delivered + 1)..delivered'

\* Mutant: one event of a batch is handled.
AdvanceAlone ==
    /\ Goto(Worker, "listen")
    /\ next' = delivered + 1

\* On to the next event of the batch.
Advance ==
    /\ Goto(Worker, IF next = delivered THEN "listen" ELSE "handle")
    /\ next' = next + 1

\* An event without a profile id is neither handled nor acknowledged.
SkipEvent ==
    /\ pc[Worker] = "handle" /\ stream[next].profile = NoProfile
    /\ Advance /\ blame' = blame \cup {next}
    /\ UNCHANGED <<sourceVars, tableVars, copy, syncVars, taskVars, stream, group, delivered,
                   pending, since, troubles, ghostVars>>

\* An event for a profile the source no longer lists is done with.
FetchEvent ==
    /\ pc[Worker] = "handle" /\ stream[next].profile # NoProfile
    /\ FetchOne(Worker, stream[next].profile, "ack")
    /\ UNCHANGED <<want, streamVars>>

\* Mutant: an event that was not carried out is acknowledged.
EventFailsAcked ==
    /\ pc[Worker] \in {"handle", "store"} /\ stream[next].profile # NoProfile
    /\ Trouble
    /\ Advance /\ Forget(Worker) /\ pending' = pending \ {next}
    /\ UNCHANGED <<sourceVars, tableVars, syncVars, want, stream, group, delivered, blame,
                   since, ghostVars>>

\* The error is logged, and the event stays pending.
EventFails ==
    /\ pc[Worker] \in {"handle", "store"} /\ stream[next].profile # NoProfile
    /\ Trouble
    /\ Advance /\ Forget(Worker) /\ blame' = blame \cup {next}
    /\ UNCHANGED <<sourceVars, tableVars, syncVars, want, stream, group, delivered, pending,
                   since, ghostVars>>

AckEvent ==
    /\ pc[Worker] = "ack"
    /\ Advance /\ pending' = pending \ {next}
    /\ UNCHANGED <<sourceVars, tableVars, copy, syncVars, taskVars, stream, group, delivered,
                   since, blame, troubles, ghostVars>>

\* A failing acknowledgement, which Redis may have carried out, ends the batch.
AckFails ==
    /\ pc[Worker] = "ack" /\ Trouble
    /\ Goto(Worker, "down") /\ next' = delivered + 1
    /\ pending' \in {pending, pending \ {next}}
    /\ blame' = blame \cup next..delivered
    /\ UNCHANGED <<sourceVars, tableVars, copy, syncVars, taskVars, stream, group, delivered,
                   since, ghostVars>>

WorkerWorks ==
    \/ EnsureGroup \/ ReadEvents \/ SkipEvent \/ FetchEvent
    \/ StoreOne(Worker, "ack") \/ AckEvent

WorkerFails == ReadLost \/ EventFails \/ AckFails

\* The process restarts: what it had in memory is gone.
Restart ==
    /\ Trouble
    /\ pc' = [a \in Actor |-> IF a = Worker THEN "down"
                              ELSE IF a \in Running THEN "done"
                              ELSE IF a \in Request THEN "idle" ELSE pc[a]]
    /\ copy' = [a \in Actor |-> Nothing]
    /\ page' = [s \in Sync |-> 1] /\ last' = [s \in Sync |-> FALSE]
    /\ want' = [q \in Request |-> NoProfile] /\ fetched' = [t \in Task |-> 0]
    /\ next' = delivered + 1 /\ blame' = blame \cup next..delivered
    /\ disturbed' = {} /\ alone' = {}
    /\ UNCHANGED <<sourceVars, tableVars, started, stream, group, delivered, pending, since,
                   excused>>

-----------------------------------------------------------------------------
SyncStep(s) == FetchPage(s) \/ StorePage(s) \/ DeleteStale(s) \/ SyncFails(s)

Next ==
    \/ \E p \in Profile : EditProfile(p) \/ RemoveProfile(p)
    \/ PublishUnnamed
    \/ StartSync
    \/ \E s \in Sync : SyncStep(s)
    \/ \E q \in Request : RequestStep(q)
    \/ WorkerWorks
    \/ WorkerFails
    \/ Restart

Spec == Init /\ [][Next]_vars

-----------------------------------------------------------------------------
\* A run deletes no profile the source lists (cron/fetch_profiles.rs:172-181),
\* whatever is created, edited, removed, synced alone or deleted meanwhile,
\* unless a profile it had not read slipped to a page it had, or a row was stored
\* beside it by someone who began, or fetched, before the run.
SyncSparesListed ==
    [][\A s \in Sync : pc[s] = "delete" /\ pc'[s] = "done" /\ s \notin disturbed =>
           \A p \in Listed(listing) : row[p] # 0 => row'[p] # 0]_vars

\* A run beside which nothing else happened leaves the table as the source is:
\* every listed profile in its version, no other (cron/fetch_profiles.rs:74-181).
LoneSyncMirrors ==
    [][\A s \in Sync : pc[s] = "delete" /\ pc'[s] = "done" /\ s \in alone
                       /\ troubles' = troubles =>
           row' = [p \in Profile |-> IF p \in Listed(listing) THEN version[p] ELSE 0]]_vars

\* An acknowledged event has been carried out: the row is the version the event
\* announced or a newer one, as long as the source lists the profile
\* (redis_event_worker.rs:60-74). Excused are profiles that two actors had in
\* hand at once in different versions, of which the older may be stored last, and
\* those that a disturbed run deleted.
Acked == ((since + 1)..delivered) \ pending

AckedEventApplied ==
    \A i \in Acked :
        LET p == stream[i].profile
        IN  p \in Listed(listing) \ excused => row[p] >= stream[i].version

\* Between two reads of the stream nothing delivered is left behind: what is
\* neither acknowledged nor in the batch at hand named no profile or met a trouble
\* of its own or of its batch (redis_event_worker.rs:46-79). The worker asks for
\* new events only, so what it leaves behind it never sees again.
NoEventLeftBehind == pending \subseteq blame \cup next..delivered
=============================================================================
