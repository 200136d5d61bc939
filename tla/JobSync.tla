------------------------------ MODULE JobSync ------------------------------
(***************************************************************************)
(* The hourly refresh of the jobs table from the BPPs of the network.      *)
(*                                                                         *)
(* cron/fetch_jobs.rs broadcasts a search for page 1 under a fresh         *)
(* transaction id; every BPP answers with an on_search callback that       *)
(* carries one page of its open jobs, and the handler of the callback      *)
(* (handle_cron_on_search_v2, services/search.rs) stores the page, records *)
(* it in Redis, asks that BPP for the next page, and, when the number of   *)
(* recorded pages equals the number the callback announces, deactivates    *)
(* every job of the BPP that this transaction did not store.               *)
(*                                                                         *)
(* Several handlers run at once: an on_search may be delivered twice, late *)
(* or never, two refreshes may overlap, and a handler may stop between any *)
(* two of its awaits.                                                      *)
(***************************************************************************)
EXTENDS Naturals, FiniteSets

CONSTANTS
    Bpp,          \* the provider platforms of the network
    Job,          \* the jobs they publish, in the order they list them
    Home,         \* Home[j]: the BPP that publishes job j
    Limit,        \* jobs in a page (30 in cron/fetch_jobs.rs)
    MaxTxn,       \* bound: refreshes started by the cron
    Handler,      \* bound: on_search handlers that run at the same time
    MaxDups,      \* bound: callbacks delivered once more
    MaxFaults,    \* bound: faults that hit one refresh at one BPP
    MaxChanges,   \* bound: jobs opened or closed by the BPPs
    NoMsg         \* the message of a handler that is not running

ASSUME JobSyncAssumption ==
    /\ Job \subseteq Nat
    /\ IsFiniteSet(Job)
    /\ Home \in [Job -> Bpp]
    /\ Limit \in Nat \ {0}
    /\ MaxTxn \in Nat /\ MaxDups \in Nat /\ MaxFaults \in Nat /\ MaxChanges \in Nat

VARIABLES
    open,         \* the jobs the BPPs list now                      (external)
    changes,      \* how many times a BPP opened or closed a job      (bound)
    started,      \* transactions started; transaction t is cron-<uuid> number t
    asked,        \* searches posted and not yet answered
    net,          \* on_search callbacks on their way
    dups,         \* callbacks delivered once more                    (bound)
    active,       \* table jobs: rows with is_active
    lastTxn,      \* table jobs: column transaction_id (0: an earlier refresh)
    index,        \* jobs that have a vector in the FAISS index
    received,     \* Redis set pagination:{txn}:{bpp}:{limit}:received
    triggered,    \* Redis keys pagination:{txn}:{bpp}:{limit}:triggered:{page}
    pc,           \* where each handler stands
    msg,          \* the callback a handler was called with
    got,          \* the pages SMEMBERS returned to a handler
    stale,        \* deactivated jobs a handler has yet to take out of FAISS
    spawned,      \* embedding-and-matching tasks spawned for a BPP
    \* History variables: no action reads them.
    faults,       \* faults that hit a run
    dirty,        \* runs whose stored pages need not be the BPP's listing
    seen,         \* pages of a run that a handler recorded
    expired,      \* runs whose Redis keys expired
    posted,       \* searches posted
    reposted      \* searches posted more than once

tableVars  == <<active, lastTxn, index>>
redisVars  == <<received, triggered>>
netVars    == <<asked, net, dups>>
bppVars    == <<open, changes>>
procVars   == <<pc, msg, got, stale>>
ghostVars  == <<faults, dirty, seen, expired, posted, reposted>>

vars == <<bppVars, started, netVars, tableVars, redisVars, procVars, spawned, ghostVars>>

-----------------------------------------------------------------------------
Txn  == 1..MaxTxn

\* A run is one refresh at one BPP: the Redis keys and the clean-up are per run.
Run  == Txn \X Bpp

\* The pages that `total` jobs fill: (total + limit - 1) / limit.
TotalPages(total) == (total + Limit - 1) \div Limit

Search   == [run : Run, page : Nat]
OnSearch == [run : Run, page : Nat, jobs : SUBSET Job, total : Nat]

JobsOf(b)  == {j \in Job : Home[j] = b}
Listing(b) == open \cap JobsOf(b)

\* A BPP lists its open jobs in a fixed order, Limit to a page.
PageNo(S, j)  == TotalPages(Cardinality({i \in S : i <= j}))
PageOf(S, p)  == {j \in S : PageNo(S, j) = p}

\* p is the greatest recorded page: received_pages.iter().max()
IsLast(S, p) == p \in S /\ \A q \in S : q <= p

StartedRuns  == {r \in Run : r[1] <= started}
OtherRuns(r) == {q \in StartedRuns : q[2] = r[2] /\ q # r}

TypeOK ==
    /\ open \subseteq Job /\ changes \in Nat
    /\ started \in 0..MaxTxn
    /\ asked \subseteq Search
    /\ net \subseteq OnSearch /\ dups \in Nat
    /\ active \subseteq Job /\ index \subseteq Job
    /\ lastTxn \in [Job -> 0..MaxTxn]
    /\ received \in [Run -> SUBSET Nat] /\ triggered \in [Run -> SUBSET Nat]
    /\ pc \in [Handler -> {"idle", "store", "record", "read", "trigger", "send",
                           "deactivate", "purge"}]
    /\ msg \in [Handler -> OnSearch \cup {NoMsg}]
    /\ \A h \in Handler : pc[h] # "idle" => msg[h] \in OnSearch
    /\ got \in [Handler -> SUBSET Nat] /\ stale \in [Handler -> SUBSET Job]
    /\ spawned \in [Bpp -> Nat]
    /\ faults \in [Run -> Nat]
    /\ dirty \subseteq Run /\ expired \subseteq Run
    /\ seen \in [Run -> SUBSET Nat]
    /\ posted \subseteq Search /\ reposted \subseteq Search

\* The service starts on a table that an earlier refresh left behind: any rows
\* may be active, and their vectors are in the index.
Init ==
    /\ open \in SUBSET Job /\ changes = 0
    /\ started = 0
    /\ asked = {} /\ net = {} /\ dups = 0
    /\ active \in SUBSET Job /\ index = active
    /\ lastTxn = [j \in Job |-> 0]
    /\ received = [r \in Run |-> {}] /\ triggered = [r \in Run |-> {}]
    /\ pc = [h \in Handler |-> "idle"] /\ msg = [h \in Handler |-> NoMsg]
    /\ got = [h \in Handler |-> {}] /\ stale = [h \in Handler |-> {}]
    /\ spawned = [b \in Bpp |-> 0]
    /\ faults = [r \in Run |-> 0]
    /\ dirty = {} /\ expired = {}
    /\ seen = [r \in Run |-> {}]
    /\ posted = {} /\ reposted = {}

-----------------------------------------------------------------------------
(* The cron and the network *)

\* A fault that hits run r; the bound keeps the model finite.
Fault(r) ==
    /\ faults[r] < MaxFaults
    /\ faults' = [faults EXCEPT ![r] = @ + 1]

Post(s) ==
    /\ posted' = posted \cup {s}
    /\ reposted' = IF s \in posted THEN reposted \cup {s} ELSE reposted

\* fetch_jobs::run: one search for page 1, without bpp_id, under a fresh
\* transaction id; the network hands it to every BPP.
StartRefresh ==
    /\ started < MaxTxn
    /\ started' = started + 1
    /\ asked' = asked \cup [run : {started + 1} \X Bpp, page : {1}]
    /\ posted' = posted \cup [run : {started + 1} \X Bpp, page : {1}]
    /\ UNCHANGED <<bppVars, net, dups, tableVars, redisVars, procVars, spawned,
                   faults, dirty, seen, expired, reposted>>

\* The BPP answers a search with the page it asks for and its number of open
\* jobs, as they are now.                                            (external)
Answer(s) ==
    LET b == s.run[2] IN
    /\ s \in asked
    /\ asked' = asked \ {s}
    /\ net' = net \cup {[run |-> s.run, page |-> s.page,
                         jobs |-> PageOf(Listing(b), s.page),
                         total |-> Cardinality(Listing(b))]}
    /\ UNCHANGED <<bppVars, started, dups, tableVars, redisVars, procVars, spawned,
                   ghostVars>>

LoseSearch(s) ==
    /\ s \in asked
    /\ asked' = asked \ {s}
    /\ Fault(s.run)
    /\ UNCHANGED <<bppVars, started, net, dups, tableVars, redisVars, procVars, spawned,
                   dirty, seen, expired, posted, reposted>>

LoseCallback(m) ==
    /\ m \in net
    /\ net' = net \ {m}
    /\ Fault(m.run)
    /\ UNCHANGED <<bppVars, started, asked, dups, tableVars, redisVars, procVars, spawned,
                   dirty, seen, expired, posted, reposted>>

\* A BPP closes or publishes job j while refreshes are under way: pages
\* answered before and after do not fit together.                    (external)
ChangeCatalogue(j) ==
    /\ changes < MaxChanges
    /\ changes' = changes + 1
    /\ open' = IF j \in open THEN open \ {j} ELSE open \cup {j}
    /\ dirty' = dirty \cup {r \in StartedRuns : r[2] = Home[j]}
    /\ UNCHANGED <<started, netVars, tableVars, redisVars, procVars, spawned,
                   faults, seen, expired, posted, reposted>>

\* The Redis keys of a run live 1800 s beyond the last handler that touched
\* them; a handler takes far less.
ExpireKeys(r) ==
    /\ received[r] # {}
    /\ \A h \in Handler : pc[h] # "idle" => msg[h].run # r
    /\ received' = [received EXCEPT ![r] = {}]
    /\ triggered' = [triggered EXCEPT ![r] = {}]
    /\ Fault(r)
    /\ expired' = expired \cup {r}
    /\ UNCHANGED <<bppVars, started, netVars, tableVars, procVars, spawned,
                   dirty, seen, posted, reposted>>

-----------------------------------------------------------------------------
(* handle_cron_on_search_v2, one action per await *)

\* Mutant: the payload is given up before the handler is done with it.
GotoDropsMsg(h, from, to) ==
    /\ pc[h] = from
    /\ pc' = [pc EXCEPT ![h] = to]
    /\ msg' = [msg EXCEPT ![h] = NoMsg]

\* The control of handler h leaves `from`; an idle handler keeps nothing.
Goto(h, from, to) ==
    /\ pc[h] = from
    /\ pc' = [pc EXCEPT ![h] = to]
    /\ msg' = IF to = "idle" THEN [msg EXCEPT ![h] = NoMsg] ELSE msg

\* axum runs the handler of a delivered callback; the network may keep a
\* callback to deliver it again.
Receive(h, m) ==
    /\ pc[h] = "idle" /\ m \in net
    /\ pc' = [pc EXCEPT ![h] = "store"]
    /\ msg' = [msg EXCEPT ![h] = m]
    /\ \/ net' = net \ {m} /\ dups' = dups
       \/ net' = net /\ dups < MaxDups /\ dups' = dups + 1
    /\ UNCHANGED <<bppVars, started, asked, tableVars, redisVars, got, stale, spawned,
                   ghostVars>>

\* After the page is stored or not: a callback that announces no jobs is
\* acknowledged and nothing else happens.
AfterStore(h) == IF msg[h].total = 0 THEN "idle" ELSE "record"

\* Mutant: the upsert leaves transaction_id alone when the row is active.
StoreJobsKeepsTxn(h) ==
    LET r == msg[h].run IN
    /\ Goto(h, "store", AfterStore(h))
    /\ active' = active \cup msg[h].jobs
    /\ lastTxn' = [j \in Job |-> IF j \in msg[h].jobs \ active THEN r[1] ELSE lastTxn[j]]
    /\ dirty' = dirty \cup OtherRuns(r)
    /\ UNCHANGED <<bppVars, started, netVars, index, redisVars, got, stale, spawned,
                   faults, seen, expired, posted, reposted>>

\* One INSERT ... ON CONFLICT for all the jobs of the page. Whatever the row
\* was, it is active now and of this transaction.
StoreJobs(h) ==
    LET r == msg[h].run IN
    /\ Goto(h, "store", AfterStore(h))
    /\ active' = active \cup msg[h].jobs
    /\ lastTxn' = [j \in Job |-> IF j \in msg[h].jobs THEN r[1] ELSE lastTxn[j]]
    /\ dirty' = dirty \cup OtherRuns(r)
    /\ UNCHANGED <<bppVars, started, netVars, index, redisVars, got, stale, spawned,
                   faults, seen, expired, posted, reposted>>

\* The statement fails: the error is logged and the handler goes on.
StoreFails(h) ==
    LET r == msg[h].run IN
    /\ Goto(h, "store", AfterStore(h))
    /\ Fault(r)
    /\ dirty' = dirty \cup {r}
    /\ UNCHANGED <<bppVars, started, netVars, tableVars, redisVars, got, stale, spawned,
                   seen, expired, posted, reposted>>

\* hset_nx total_pages (never read), sadd page, expire both keys.
RecordPage(h) ==
    LET r == msg[h].run IN
    /\ Goto(h, "record", "read")
    /\ received' = [received EXCEPT ![r] = @ \cup {msg[h].page}]
    /\ seen' = [seen EXCEPT ![r] = @ \cup {msg[h].page}]
    /\ UNCHANGED <<bppVars, started, netVars, tableVars, triggered, got, stale, spawned,
                   faults, dirty, expired, posted, reposted>>

\* Mutant: the clean-up starts one page early.
AfterPagingEarly(h, pages) ==
    IF Cardinality(pages) + 1 >= TotalPages(msg[h].total) THEN "deactivate" ELSE "idle"

\* Where the handler goes when no further page is to be asked for.
AfterPaging(h, pages) ==
    IF Cardinality(pages) = TotalPages(msg[h].total) THEN "deactivate" ELSE "idle"

\* Mutant: the last page is not asked for.
ReadPagesShort(h, last) ==
    LET pages == received[msg[h].run] IN
    /\ IsLast(pages, last)
    /\ Goto(h, "read", IF last + 1 < TotalPages(msg[h].total)
                       THEN "trigger" ELSE AfterPaging(h, pages))
    /\ got' = [got EXCEPT ![h] = IF pc'[h] = "idle" THEN {} ELSE pages]
    /\ UNCHANGED <<bppVars, started, netVars, tableVars, redisVars, stale, spawned,
                   ghostVars>>

\* smembers, and next_page = max + 1 against this callback's page count.
ReadPages(h, last) ==
    LET pages == received[msg[h].run] IN
    /\ IsLast(pages, last)
    /\ Goto(h, "read", IF last + 1 <= TotalPages(msg[h].total)
                       THEN "trigger" ELSE AfterPaging(h, pages))
    /\ got' = [got EXCEPT ![h] = IF pc'[h] = "idle" THEN {} ELSE pages]
    /\ UNCHANGED <<bppVars, started, netVars, tableVars, redisVars, stale, spawned,
                   ghostVars>>

\* Mutant: set instead of set_nx, every handler asks for the next page.
TriggerAlways(h, last) ==
    LET r == msg[h].run IN
    /\ IsLast(got[h], last)
    /\ Goto(h, "trigger", "send")
    /\ triggered' = [triggered EXCEPT ![r] = @ \cup {last + 1}]
    /\ UNCHANGED <<bppVars, started, netVars, tableVars, received, got, stale,
                   spawned, ghostVars>>

\* set_nx on the key of the next page: only one handler gets to ask for it.
Trigger(h, last) ==
    LET r == msg[h].run IN
    /\ IsLast(got[h], last)
    /\ Goto(h, "trigger", IF last + 1 \notin triggered[r]
                          THEN "send" ELSE AfterPaging(h, got[h]))
    /\ triggered' = [triggered EXCEPT ![r] = @ \cup {last + 1}]
    /\ got' = [got EXCEPT ![h] = IF pc'[h] = "idle" THEN {} ELSE @]
    /\ UNCHANGED <<bppVars, started, netVars, tableVars, received, stale, spawned,
                   ghostVars>>

\* send_open_jobs_search for the next page. When the post fails the error is
\* logged, and the page is not asked for again: its trigger key is set.
SendNext(h, last) ==
    LET r == msg[h].run
        s == [run |-> r, page |-> last + 1] IN
    /\ IsLast(got[h], last)
    /\ Goto(h, "send", AfterPaging(h, got[h]))
    /\ \/ asked' = asked \cup {s} /\ faults' = faults
       \/ asked' = asked /\ Fault(r)
    /\ Post(s)
    /\ got' = [got EXCEPT ![h] = IF pc'[h] = "idle" THEN {} ELSE @]
    /\ UNCHANGED <<bppVars, started, net, dups, tableVars, redisVars, stale, spawned,
                   dirty, seen, expired>>

\* Mutant: the clean-up forgets transaction_id.
StaleJobsOfAny(r) == active \cap JobsOf(r[2])

\* The rows deactivate_stale_jobs updates and returns.
StaleJobs(r) == {j \in active \cap JobsOf(r[2]) : lastTxn[j] # r[1]}

\* Mutant: the UPDATE does not return the ids.
DeactivateBlind(h) ==
    LET r == msg[h].run IN
    /\ Goto(h, "deactivate", "purge")
    /\ active' = active \ StaleJobs(r)
    /\ dirty' = dirty \cup OtherRuns(r)
    /\ UNCHANGED <<bppVars, started, netVars, lastTxn, index, redisVars, got, stale,
                   spawned, faults, seen, expired, posted, reposted>>

\* deactivate_stale_jobs; when the statement fails there is nothing to purge.
Deactivate(h) ==
    LET r == msg[h].run IN
    /\ Goto(h, "deactivate", "purge")
    /\ \/ /\ active' = active \ StaleJobs(r)
          /\ stale' = [stale EXCEPT ![h] = StaleJobs(r)]
          /\ faults' = faults
          /\ dirty' = dirty \cup OtherRuns(r)
       \/ Fault(r) /\ UNCHANGED <<active, stale, dirty>>
    /\ UNCHANGED <<bppVars, started, netVars, lastTxn, index, redisVars, got, spawned,
                   seen, expired, posted, reposted>>

\* faiss.remove, one job at a time; an error is logged and the vector stays.
Purge(h, j) ==
    /\ pc[h] = "purge" /\ j \in stale[h]
    /\ stale' = [stale EXCEPT ![h] = @ \ {j}]
    /\ \/ index' = index \ {j} /\ faults' = faults
       \/ index' = index /\ Fault(msg[h].run)
    /\ UNCHANGED <<bppVars, started, netVars, active, lastTxn, redisVars, pc, msg, got,
                   spawned, dirty, seen, expired, posted, reposted>>

\* The index is saved and the embedding-and-matching task is spawned.
Finish(h) ==
    /\ stale[h] = {}
    /\ Goto(h, "purge", "idle")
    /\ got' = [got EXCEPT ![h] = {}]
    /\ spawned' = [spawned EXCEPT ![msg[h].run[2]] = @ + 1]
    /\ UNCHANGED <<bppVars, started, netVars, tableVars, redisVars, stale, ghostVars>>

\* The handler ends at one of its awaits: no Redis connection (it acknowledges
\* and returns), a Redis error (an unwrap panics), or the caller hangs up and
\* axum drops the future.
HandlerStops(h) ==
    /\ pc[h] # "idle"
    /\ Goto(h, pc[h], "idle")
    /\ got' = [got EXCEPT ![h] = {}]
    /\ stale' = [stale EXCEPT ![h] = {}]
    /\ Fault(msg[h].run)
    /\ UNCHANGED <<bppVars, started, netVars, tableVars, redisVars, spawned,
                   dirty, seen, expired, posted, reposted>>

-----------------------------------------------------------------------------
HandlerStep(h) ==
    \/ StoreJobs(h) \/ StoreFails(h) \/ RecordPage(h)
    \/ pc[h] = "read" /\ \E last \in received[msg[h].run] : ReadPages(h, last)
    \/ \E last \in got[h] : Trigger(h, last) \/ SendNext(h, last)
    \/ Deactivate(h) \/ (\E j \in Job : Purge(h, j)) \/ Finish(h)

Next ==
    \/ StartRefresh
    \/ \E s \in asked : Answer(s) \/ LoseSearch(s)
    \/ \E m \in net : LoseCallback(m)
    \/ \E j \in Job : ChangeCatalogue(j)
    \/ \E r \in Run : ExpireKeys(r)
    \/ \E h \in Handler : HandlerStep(h) \/ HandlerStops(h)
    \/ \E h \in Handler, m \in net : Receive(h, m)

Spec == Init /\ [][Next]_vars

\* tokio polls every handler that can run; the cron scheduler fires; a BPP
\* answers and the network delivers what no fault removes.
Fairness ==
    /\ WF_vars(StartRefresh)
    /\ \A r \in Run :
         /\ WF_vars(\E s \in asked : s.run = r /\ Answer(s))
         /\ WF_vars(\E h \in Handler, m \in net : m.run = r /\ Receive(h, m))
    /\ \A h \in Handler : WF_vars(HandlerStep(h))

FairSpec == Spec /\ Fairness

-----------------------------------------------------------------------------
(* Properties *)

\* However callbacks are duplicated, reordered or handled at the same time, and
\* even when the Redis keys expire in between, a handler goes to the clean-up
\* only when every page up to the count it announces has been recorded by some
\* handler of the run (received_pages.len() == total_pages, search.rs:913, is a
\* count: it means this only because pages are asked for one after the other).
CleanUpSeesEveryPage ==
    \A h \in Handler :
        pc[h] = "deactivate" => 1..TotalPages(msg[h].total) \subseteq seen[msg[h].run]

\* The strengthening that makes it inductive: the pages a run has seen have no
\* hole, because page p is only asked for once page p - 1 was recorded, and what
\* a handler counts or takes the maximum of are pages the run has seen.
InOrder(r, p) == p = 1 \/ (p > 1 /\ p - 1 \in seen[r])

NoHole(S) == \A p \in S : p >= 1 /\ 1..p \subseteq S

PagesInOrder ==
    /\ \A r \in Run : NoHole(seen[r])
    /\ \A r \in Run : received[r] \subseteq seen[r] /\ IsFiniteSet(received[r])
    /\ \A s \in asked : InOrder(s.run, s.page)
    /\ \A m \in net : InOrder(m.run, m.page)
    /\ \A h \in Handler : pc[h] # "idle" => InOrder(msg[h].run, msg[h].page)
    /\ \A h \in Handler : pc[h] \in {"trigger", "send", "deactivate"} =>
         got[h] \subseteq seen[msg[h].run] /\ IsFiniteSet(got[h])
    /\ \A h \in Handler : pc[h] = "deactivate" =>
         Cardinality(got[h]) = TotalPages(msg[h].total)

\* Handlers that run at the same time for the same run never ask the BPP for
\* the same page twice, as long as the keys of the run live (set_nx on the
\* trigger key, search.rs:890-892).
PageAskedOnce ==
    \A s \in reposted : s.run \in expired

\* Its strengthening: while the keys of a run live, whatever was posted has its
\* trigger key, and a handler about to post holds the key of its page alone.
NextSearch(h, last) == [run |-> msg[h].run, page |-> last + 1]

Sending(h, last) == pc[h] = "send" /\ last \in got[h] /\ IsLast(got[h], last)

TriggersHeld ==
    /\ \A s \in posted \ [run : expired, page : Nat] :
         s.page = 1 \/ s.page \in triggered[s.run]
    /\ \A h \in Handler : \A last \in got[h] :
         Sending(h, last) /\ msg[h].run \notin expired =>
             last + 1 \in triggered[msg[h].run] /\ NextSearch(h, last) \notin posted
    /\ \A h, k \in Handler : \A last \in got[h] \cap got[k] :
         Sending(h, last) /\ Sending(k, last) /\ msg[h].run = msg[k].run =>
             h = k \/ msg[h].run \in expired

\* Every callback of run r that will be handled has been.
Over(r) ==
    /\ r \in StartedRuns
    /\ \A s \in asked : s.run # r
    /\ \A m \in net : m.run # r
    /\ \A h \in Handler : pc[h] # "idle" => msg[h].run # r

InSync(b) == active \cap JobsOf(b) = Listing(b)

\* A run that met no fault, during which the BPP changed nothing and no other
\* refresh stored a page of it or cleaned up, leaves the active rows of the BPP equal to the
\* jobs it lists: nothing open is deactivated, nothing closed survives. The
\* case of a BPP that lists nothing is apart (OpenJobsSynced).
CleanRunSyncs ==
    \A r \in Run :
        (Over(r) /\ faults[r] = 0 /\ r \notin dirty /\ Listing(r[2]) # {}) => InSync(r[2])

\* What config/example.yaml says of the cron: "runs periodically to sync open
\* jobs". The code returns before the clean-up when the BPP announces a total
\* of zero (search.rs:859-861).
OpenJobsSynced ==
    \A r \in Run : (Over(r) /\ faults[r] = 0 /\ r \notin dirty) => InSync(r[2])

\* The handler takes vectors out of the index one by one, long after its UPDATE
\* (search.rs:930-937): unless the run is dirty, none of the jobs it still has
\* to take out has become active again.
PurgeSparesActiveJobs ==
    \A h \in Handler :
        pc[h] = "purge" /\ msg[h].run \notin dirty => stale[h] \cap active = {}

\* What both rest on. Whatever is under way was posted, by a refresh that started,
\* and a callback carries jobs of its BPP: those of its page as the BPP lists them
\* now, unless the run is dirty.
Posted(r, p) == [run |-> r, page |-> p] \in posted

AllPosted ==
    /\ \A s \in posted : s.run[1] <= started
    /\ asked \subseteq posted
    /\ \A m \in net : Posted(m.run, m.page)
    /\ \A h \in Handler : pc[h] # "idle" => Posted(msg[h].run, msg[h].page)
    /\ \A r \in Run : \A p \in seen[r] : Posted(r, p)

Fits(m) ==
    /\ m.jobs \subseteq JobsOf(m.run[2])
    /\ m.run \notin dirty => /\ m.jobs = PageOf(Listing(m.run[2]), m.page)
                            /\ m.total = Cardinality(Listing(m.run[2]))

CallbacksFit ==
    /\ \A m \in net : Fits(m)
    /\ \A h \in Handler : pc[h] # "idle" => Fits(msg[h])

\* A page that was recorded, or is about to be, is in the table.
InTable(r, p) == \A j \in PageOf(Listing(r[2]), p) : j \in active /\ lastTxn[j] = r[1]

PagesInTable ==
    /\ \A r \in Run \ dirty : \A p \in seen[r] : InTable(r, p)
    /\ \A h \in Handler :
         pc[h] = "record" /\ msg[h].run \notin dirty => InTable(msg[h].run, msg[h].page)

\* What a handler has to take out is neither listed nor active.
StaleIsOut ==
    \A h \in Handler :
        /\ pc[h] # "purge" => stale[h] = {}
        /\ pc[h] = "purge" /\ msg[h].run \notin dirty =>
             LET b == msg[h].run[2] IN stale[h] \subseteq JobsOf(b) \ (Listing(b) \cup active)

RowsInv == AllPosted /\ CallbacksFit /\ PagesInTable /\ StaleIsOut

\* And for CleanRunSyncs: the pages of a run that goes well are asked for up to its
\* last, the chain is never cut, and it ends in a clean-up.
GoesWell(r) == r \in StartedRuns \ dirty /\ faults[r] = 0 /\ Listing(r[2]) # {}

Pages(r) == TotalPages(Cardinality(Listing(r[2])))

At(h, r, places) == pc[h] \in places /\ msg[h].run = r

\* The keys of a run are what its handlers recorded, until they expire.
KeysTrue ==
    /\ \A r \in Run : IF r \in expired THEN faults[r] # 0 ELSE received[r] = seen[r]
    /\ \A r \in Run \ StartedRuns : triggered[r] = {}

\* A row is of a refresh that started, and listed, unless the run is dirty.
RowsTagged ==
    /\ \A j \in Job : lastTxn[j] <= started
    /\ \A r \in StartedRuns \ dirty : \A j \in JobsOf(r[2]) :
         lastTxn[j] = r[1] => j \in Listing(r[2])

UnderWay(r, p) ==
    \/ [run |-> r, page |-> p] \in asked
    \/ \E m \in net : m.run = r /\ m.page = p
    \/ \E h \in Handler : At(h, r, {"store", "record"}) /\ msg[h].page = p
    \/ \E h \in Handler : At(h, r, {"send"}) /\ IsLast(got[h], p - 1)

\* A page that was claimed is recorded or on its way to be.
NoPageLost(r) == \A p \in {1} \cup triggered[r] : p \in seen[r] \/ UnderWay(r, p)

\* No page behind the last is asked for.
NoPageBeyond(r) ==
    /\ \A s \in posted : s.run = r => s.page <= Pages(r)
    /\ \A h \in Handler : \A p \in got[h] :
         At(h, r, {"trigger", "send"}) /\ IsLast(got[h], p) => p + 1 <= Pages(r)

\* Some handler is to claim the page after the last that was recorded.
NextClaimed(r) ==
    \A p \in seen[r] : p < Pages(r) =>
        \/ p + 1 \in triggered[r]
        \/ \E h \in Handler : At(h, r, {"read"})
        \/ \E h \in Handler : At(h, r, {"trigger"}) /\ IsLast(got[h], p)

\* Once the last page is recorded, some handler is to clean up, or has.
LastCleansUp(r) ==
    Pages(r) \in seen[r] =>
        InSync(r[2]) \/ \E h \in Handler : At(h, r, {"read", "deactivate"})

Chain(r) == NoPageLost(r) /\ NoPageBeyond(r) /\ NextClaimed(r) /\ LastCleansUp(r)

ChainUnbroken == \A r \in Run : GoesWell(r) => Chain(r)

\* What StaleVectorsLeave comes to when things fail: a vector of a job that is no longer
\* active is in the hands of a handler that will take it out, or a refresh of its BPP met
\* a fault (search.rs:921-937: the ids are in the memory of one handler alone, and the
\* next clean-up returns active rows only).
VectorsAccounted ==
    \A j \in index \ active :
        \/ \E h \in Handler : pc[h] = "purge" /\ j \in stale[h]
        \/ \E r \in Run : r[2] = Home[j] /\ faults[r] # 0

\* For a handler takes out only jobs of the BPP of its callback.
StaleOfBpp ==
    \A h \in Handler :
        stale[h] \subseteq IF pc[h] = "purge" THEN JobsOf(msg[h].run[2]) ELSE {}

\* Without faults and changes, every refresh of a BPP that lists a job comes to
\* its clean-up and spawns the embedding-and-matching task.
EveryRefreshCompletes ==
    \A b \in Bpp : (started = MaxTxn /\ Listing(b) # {}) ~> spawned[b] >= MaxTxn

\* A job that has been deactivated leaves the vector index, or is active again.
StaleVectorsLeave ==
    \A j \in Job : (j \in index \ active) ~> (j \notin index \/ j \in active)
=============================================================================
