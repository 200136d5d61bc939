---------------------------- MODULE MatchScores ----------------------------
(***************************************************************************)
(* The scores of jobs for profiles (table job_profile_matches).            *)
(*                                                                         *)
(* A match run (utils/match_score.rs: calculate_match_score) looks for     *)
(* pairs to score: stale ones, then those of new jobs, of new profiles,    *)
(* and what is still missing. It reads the rows of a pair, computes the    *)
(* score, which takes seconds, and stores it under the hashes the rows had *)
(* when they were read. Runs are spawned after every profile sync, job     *)
(* refresh and event, so they overlap, and rows change under them.         *)
(*                                                                         *)
(* A text stands for its hash; a SELECT, or two in a row, is one step.     *)
(***************************************************************************)
EXTENDS Naturals, FiniteSets

CONSTANTS
    Job,           \* rows of the jobs table, numbered in the order of their ids
    Profile,       \* rows of the profiles table
    Run,           \* match runs at the same time
    Created,       \* created_at of each job
    Rating,        \* the score of a job for a profile, once both are embedded
    Batch,         \* jobs or profiles to a batch (config: batch, at least 1)
    MissingLimit,  \* pairs the last phase looks at (5000 in the code)
    MaxChanges,    \* bound: changes of jobs and profiles
    MaxTroubles,   \* bound: failing calls and restarts
    NoMatch

Pair == Job \X Profile

ASSUME MatchScoresAssumption ==
    /\ Job \subseteq Nat /\ IsFiniteSet(Job) /\ Job \cap Profile = {}
    /\ Created \in [Job -> Nat] /\ Rating \in [Pair -> 0..10]
    /\ Batch \in Nat \ {0} /\ MissingLimit \in Nat
    /\ MaxChanges \in Nat /\ MaxTroubles \in Nat

VARIABLES
    jobs,        \* the text of each job and the text its embedding is of; 0: none
    profiles,    \* the text of each profile; 0: no row
    gone,        \* profiles that were deleted: a new row gets a new id
    match,       \* job_profile_matches, by job and profile
    pc,          \* where each run stands
    newJobs, newProfiles,  \* what a run found new and has yet to take up
    pairs,       \* the stale or missing pairs it has yet to read
    batch,       \* the new jobs or profiles at hand, yet to be read
    snap,        \* the rows of the other table as the batch found them
    hand,        \* pairs of rows, read and yet to be scored
    changes, troubles,  \* (bounds)
    \* History variables: no action reads them.
    late,        \* jobs that were given the embedding of an older text
    calm         \* runs beside which nothing else happened

tableVars == <<jobs, profiles, gone, match>>
runVars   == <<pc, newJobs, newProfiles, pairs, batch, snap, hand>>

vars == <<tableVars, runVars, changes, troubles, late, calm>>

JobRow == [text : Nat, emb : Nat]
NoJob  == [text |-> 0, emb |-> 0]

\* What was read of a job and a profile.
Rows == [job : Job, profile : Profile, row : JobRow, text : Nat]

\* A score, and what it was computed from: 0 for want of an embedding.
Match == [jobHash : Nat, profileHash : Nat, emb : Nat, text : Nat, score : 0..10]

ASSUME NoMatchAssumption == NoMatch \notin Match

\* The rows that the snapshot of a run holds.
Snap == [jobs : [Job -> JobRow], profiles : [Profile -> Nat]]
NoSnap == [jobs |-> [j \in Job |-> NoJob], profiles |-> [p \in Profile |-> 0]]

TypeOK ==
    /\ jobs \in [Job -> JobRow] /\ profiles \in [Profile -> Nat]
    /\ \A j \in Job : jobs[j].emb <= jobs[j].text
    /\ gone \subseteq {p \in Profile : profiles[p] = 0}
    /\ match \in [Pair -> Match \cup {NoMatch}]
    /\ \A x \in Pair : match[x] # NoMatch => jobs[x[1]].text # 0 /\ profiles[x[2]] # 0
    /\ pc \in [Run -> {"idle", "found", "missing"}]
    /\ newJobs \in [Run -> SUBSET Job] /\ newProfiles \in [Run -> SUBSET Profile]
    /\ pairs \in [Run -> SUBSET Pair]
    /\ batch \in [Run -> SUBSET (Job \cup Profile)]
    /\ snap \in [Run -> Snap]
    /\ hand \in [Run -> SUBSET Rows]
    /\ changes \in Nat /\ troubles \in Nat
    /\ late \subseteq Job /\ calm \subseteq Run

\* The runs begin on whatever jobs and profiles are there.
Init ==
    /\ jobs \in [Job -> {NoJob, [text |-> 1, emb |-> 0], [text |-> 1, emb |-> 1]}]
    /\ profiles \in [Profile -> {0, 1}] /\ gone = {}
    /\ match = [x \in Pair |-> NoMatch]
    /\ pc = [r \in Run |-> "idle"]
    /\ newJobs = [r \in Run |-> {}] /\ newProfiles = [r \in Run |-> {}]
    /\ pairs = [r \in Run |-> {}] /\ batch = [r \in Run |-> {}]
    /\ snap = [r \in Run |-> NoSnap] /\ hand = [r \in Run |-> {}]
    /\ changes = 0 /\ troubles = 0 /\ late = {} /\ calm = {}

-----------------------------------------------------------------------------
(* What the runs look for.                                                 *)

Stored == {x \in Pair : jobs[x[1]].text # 0 /\ profiles[x[2]] # 0}

NewJobs ==
    {j \in Job : jobs[j].text # 0 /\ \A p \in Profile : match[j, p] = NoMatch}

NewProfiles ==
    {p \in Profile : profiles[p] # 0 /\ \A j \in Job : match[j, p] = NoMatch}

\* Mutant: a profile that changed makes no match stale.
StalePairsOfJobs ==
    {x \in Stored : match[x] # NoMatch /\ match[x].jobHash # jobs[x[1]].text}

StalePairs ==
    {x \in Stored : /\ match[x] # NoMatch
                    /\ \/ match[x].jobHash # jobs[x[1]].text
                       \/ match[x].profileHash # profiles[x[2]]}

MissingPairs == {x \in Stored : match[x] = NoMatch}

-----------------------------------------------------------------------------
(* The tables change under the runs.                                       *)

Change ==
    /\ changes < MaxChanges /\ changes' = changes + 1
    /\ calm' = {}
    /\ UNCHANGED <<runVars, troubles>>

\* A job is stored with a text that is new; its embedding is dropped.
StoreJob(j) ==
    /\ Change
    /\ jobs' = [jobs EXCEPT ![j] = [text |-> @.text + 1, emb |-> 0]]
    /\ UNCHANGED <<profiles, gone, match, late>>

EmbedJob(j) ==
    /\ jobs[j].text # 0 /\ jobs[j].emb = 0
    /\ jobs' = [jobs EXCEPT ![j].emb = jobs[j].text]
    /\ calm' = {}
    /\ UNCHANGED <<profiles, gone, match, runVars, changes, troubles, late>>

\* The embedding of a text that has been replaced meanwhile (see VectorIndex).
EmbedLate(j) ==
    /\ j \notin late
    /\ \E e \in 1..jobs[j].text : e < jobs[j].text /\ jobs' = [jobs EXCEPT ![j].emb = e]
    /\ late' = late \cup {j} /\ calm' = {}
    /\ UNCHANGED <<profiles, gone, match, runVars, changes, troubles>>

StoreProfile(p) ==
    /\ Change
    /\ p \notin gone /\ profiles' = [profiles EXCEPT ![p] = @ + 1]
    /\ UNCHANGED <<jobs, gone, match, late>>

\* Mutant: without the cascade.
DeleteProfileAlone(p) ==
    /\ Change
    /\ profiles[p] # 0
    /\ profiles' = [profiles EXCEPT ![p] = 0] /\ gone' = gone \cup {p}
    /\ UNCHANGED <<jobs, match, late>>

\* The matches of a profile go with it (ON DELETE CASCADE).
DeleteProfile(p) ==
    /\ Change
    /\ profiles[p] # 0
    /\ profiles' = [profiles EXCEPT ![p] = 0] /\ gone' = gone \cup {p}
    /\ match' = [x \in Pair |-> IF x[2] = p THEN NoMatch ELSE match[x]]
    /\ UNCHANGED <<jobs, late>>

-----------------------------------------------------------------------------
(* A match run.                                                            *)

Trouble == troubles < MaxTroubles /\ troubles' = troubles + 1

\* r has scored what it read, and read what it took up.
Free(r) == hand[r] = {} /\ batch[r] = {}

\* chunk_vec: the next Batch of what is left, in whatever order it was selected.
Chunks(S) ==
    {B \in SUBSET S : Cardinality(B) = IF Cardinality(S) < Batch THEN Cardinality(S) ELSE Batch}

Find(r) ==
    /\ pc[r] = "idle"
    /\ pc' = [pc EXCEPT ![r] = "found"]
    /\ newJobs' = [newJobs EXCEPT ![r] = NewJobs]
    /\ newProfiles' = [newProfiles EXCEPT ![r] = NewProfiles]
    /\ pairs' = [pairs EXCEPT ![r] = StalePairs]
    /\ calm' = calm \cup {r}
    /\ UNCHANGED <<tableVars, batch, snap, hand, changes, troubles, late>>

\* A stale or missing pair is read; a profile that is gone is passed over.
ReadPair(r) ==
    /\ Free(r)
    /\ \E x \in pairs[r] :
        /\ pairs' = [pairs EXCEPT ![r] = @ \ {x}]
        /\ hand' = [hand EXCEPT ![r] =
               {y \in {[job |-> x[1], profile |-> x[2], row |-> jobs[x[1]],
                        text |-> profiles[x[2]]]} : y.text # 0}]
    /\ UNCHANGED <<tableVars, pc, newJobs, newProfiles, batch, snap, changes, troubles, late, calm>>

\* A batch of new jobs, unless there is no profile.
TakeJobs(r) ==
    /\ pc[r] = "found" /\ pairs[r] = {} /\ Free(r) /\ newJobs[r] # {}
    /\ \E B \in Chunks(newJobs[r]) :
        LET some == \E p \in Profile : profiles[p] # 0
        IN  /\ newJobs' = [newJobs EXCEPT ![r] = @ \ B]
            /\ batch' = [batch EXCEPT ![r] = IF some THEN B ELSE {}]
            /\ snap' = [snap EXCEPT ![r].profiles = profiles]
    /\ UNCHANGED <<tableVars, pc, newProfiles, pairs, hand, changes, troubles, late, calm>>

\* Past the last of a batch, what it found is dropped.
Taken(r, b) ==
    /\ batch' = [batch EXCEPT ![r] = @ \ {b}]
    /\ snap' = IF batch[r] = {b} THEN [snap EXCEPT ![r] = NoSnap] ELSE snap

\* A new job is read, and is to be scored for the profiles of the batch.
ReadJob(r, j) ==
    /\ j \in batch[r] /\ hand[r] = {}
    /\ Taken(r, j)
    /\ hand' = [hand EXCEPT ![r] =
           {y \in {[job |-> j, profile |-> p, row |-> jobs[j], text |-> snap[r].profiles[p]] :
                       p \in Profile} : y.text # 0}]
    /\ UNCHANGED <<tableVars, pc, newJobs, newProfiles, pairs, changes, troubles, late, calm>>

\* A batch of new profiles, unless there is no job.
TakeProfiles(r) ==
    /\ pc[r] = "found" /\ pairs[r] = {} /\ Free(r) /\ newJobs[r] = {} /\ newProfiles[r] # {}
    /\ \E B \in Chunks(newProfiles[r]) :
        LET some == \E j \in Job : jobs[j].text # 0
        IN  /\ newProfiles' = [newProfiles EXCEPT ![r] = @ \ B]
            /\ batch' = [batch EXCEPT ![r] = IF some THEN B ELSE {}]
            /\ snap' = [snap EXCEPT ![r].jobs = jobs]
    /\ UNCHANGED <<tableVars, pc, newJobs, pairs, hand, changes, troubles, late, calm>>

\* A new profile is read, unless it is gone, to be scored for the jobs of the batch.
ReadProfile(r, p) ==
    /\ p \in batch[r] /\ hand[r] = {}
    /\ Taken(r, p)
    /\ hand' = [hand EXCEPT ![r] =
           {y \in {[job |-> j, profile |-> p, row |-> snap[r].jobs[j], text |-> profiles[p]] :
                       j \in Job} : y.row.text # 0 /\ y.text # 0}]
    /\ UNCHANGED <<tableVars, pc, newJobs, newProfiles, pairs, changes, troubles, late, calm>>

\* The last phase looks at the pairs that are still without a score, at most
\* MissingLimit of them in no order.
FetchMissing(r) ==
    /\ pc[r] = "found" /\ pairs[r] = {} /\ Free(r) /\ newJobs[r] = {} /\ newProfiles[r] = {}
    /\ pc' = [pc EXCEPT ![r] = "missing"]
    /\ \/ /\ Cardinality(MissingPairs) <= MissingLimit
          /\ pairs' = [pairs EXCEPT ![r] = MissingPairs]
          /\ UNCHANGED calm
       \/ /\ Cardinality(MissingPairs) > MissingLimit
          /\ \E S \in SUBSET MissingPairs :
                Cardinality(S) = MissingLimit /\ pairs' = [pairs EXCEPT ![r] = S]
          /\ calm' = calm \ {r}
    /\ UNCHANGED <<tableVars, newJobs, newProfiles, batch, snap, hand, changes, troubles, late>>

\* Mutant: the profile's hash is read again when the score is stored.
ScoreOfLate(y) ==
    IF y.row.emb = 0
    THEN [jobHash |-> y.row.text, profileHash |-> profiles[y.profile],
          emb |-> 0, text |-> 0, score |-> 0]
    ELSE [jobHash |-> y.row.text, profileHash |-> profiles[y.profile],
          emb |-> y.row.emb, text |-> y.text, score |-> Rating[y.job, y.profile]]

\* The score of what was read: zero if the job has no embedding yet.
ScoreOf(y) ==
    IF y.row.emb = 0
    THEN [jobHash |-> y.row.text, profileHash |-> y.text, emb |-> 0, text |-> 0, score |-> 0]
    ELSE [jobHash |-> y.row.text, profileHash |-> y.text,
          emb |-> y.row.emb, text |-> y.text, score |-> Rating[y.job, y.profile]]

\* Mutant: a score that is there is not replaced.
StoreScoreOnce(r, y, m) ==
    /\ y \in hand[r]
    /\ hand' = [hand EXCEPT ![r] = @ \ {y}]
    /\ match' = IF profiles[y.profile] = 0 \/ match[y.job, y.profile] # NoMatch THEN match
                ELSE [match EXCEPT ![<<y.job, y.profile>>] = m]
    /\ UNCHANGED <<jobs, profiles, gone, pc, newJobs, newProfiles, pairs, batch, snap,
                   changes, late>>

\* A score is stored, unless the profile is gone (foreign key).
StoreScore(r, y, m) ==
    /\ y \in hand[r]
    /\ hand' = [hand EXCEPT ![r] = @ \ {y}]
    /\ match' = IF profiles[y.profile] = 0 THEN match
                ELSE [match EXCEPT ![<<y.job, y.profile>>] = m]
    /\ UNCHANGED <<jobs, profiles, gone, pc, newJobs, newProfiles, pairs, batch, snap,
                   changes, late>>

Upsert(r) ==
    /\ \E y \in hand[r] : StoreScore(r, y, ScoreOf(y))
    /\ calm' = calm \cap {r}
    /\ UNCHANGED troubles

Finish(r) ==
    /\ pc[r] = "missing" /\ pairs[r] = {} /\ Free(r)
    /\ pc' = [pc EXCEPT ![r] = "idle"]
    /\ calm' = calm \ {r}
    /\ UNCHANGED <<tableVars, newJobs, newProfiles, pairs, batch, snap, hand, changes, troubles, late>>

\* Without the embedding of the profile the score is zero, too.
ScoreFails(r) ==
    /\ Trouble
    /\ \E y \in hand[r] : StoreScore(r, y, ScoreOf([y EXCEPT !.row.emb = 0]))
    /\ calm' = {}

\* A failing statement passes over a pair, a row, a batch, a score or a phase.
StatementFails(r) ==
    /\ Trouble
    /\ \/ /\ \E x \in pairs[r] : Free(r) /\ pairs' = [pairs EXCEPT ![r] = @ \ {x}]
          /\ UNCHANGED <<pc, newJobs, newProfiles, batch, snap, hand>>
       \/ /\ \E b \in batch[r] : hand[r] = {} /\ Taken(r, b)
          /\ UNCHANGED <<pc, newJobs, newProfiles, pairs, hand>>
       \/ /\ pc[r] = "found" /\ pairs[r] = {} /\ Free(r) /\ newJobs[r] # {}
          /\ \E B \in Chunks(newJobs[r]) : newJobs' = [newJobs EXCEPT ![r] = @ \ B]
          /\ UNCHANGED <<pc, newProfiles, pairs, batch, snap, hand>>
       \/ /\ pc[r] = "found" /\ pairs[r] = {} /\ Free(r) /\ newJobs[r] = {}
          /\ \E B \in Chunks(newProfiles[r]) : newProfiles' = [newProfiles EXCEPT ![r] = @ \ B]
          /\ UNCHANGED <<pc, newJobs, pairs, batch, snap, hand>>
       \/ /\ \E y \in hand[r] : hand' = [hand EXCEPT ![r] = @ \ {y}]
          /\ UNCHANGED <<pc, newJobs, newProfiles, pairs, batch, snap>>
       \/ /\ pc[r] = "found" /\ pairs[r] = {} /\ Free(r)
          /\ newJobs[r] = {} /\ newProfiles[r] = {}
          /\ pc' = [pc EXCEPT ![r] = "idle"]
          /\ UNCHANGED <<newJobs, newProfiles, pairs, batch, snap, hand>>
    /\ calm' = calm \ {r}
    /\ UNCHANGED <<tableVars, changes, late>>

\* The process restarts; nothing of a run is kept.
Restart ==
    /\ Trouble
    /\ pc' = [r \in Run |-> "idle"]
    /\ newJobs' = [r \in Run |-> {}] /\ newProfiles' = [r \in Run |-> {}]
    /\ pairs' = [r \in Run |-> {}] /\ batch' = [r \in Run |-> {}]
    /\ snap' = [r \in Run |-> NoSnap] /\ hand' = [r \in Run |-> {}]
    /\ calm' = {}
    /\ UNCHANGED <<tableVars, changes, late>>

-----------------------------------------------------------------------------
RunStep(r) ==
    \/ Find(r) \/ ReadPair(r) \/ TakeJobs(r) \/ TakeProfiles(r)
    \/ \E j \in Job : ReadJob(r, j)
    \/ \E p \in Profile : ReadProfile(r, p)
    \/ FetchMissing(r) \/ Upsert(r) \/ Finish(r)

Next ==
    \/ \E j \in Job : StoreJob(j) \/ EmbedJob(j) \/ EmbedLate(j)
    \/ \E p \in Profile : StoreProfile(p) \/ DeleteProfile(p)
    \/ \E r \in Run : RunStep(r) \/ ScoreFails(r) \/ StatementFails(r)
    \/ Restart

\* Every refresh, sync and event spawns a run, and a run goes on.
Spec == Init /\ [][Next]_vars /\ \A r \in Run : WF_vars(RunStep(r))

-----------------------------------------------------------------------------
(* What a search lists (db/match_score.rs: fetch_jobs_with_matches). The    *)
(* filters of a search select a set F of jobs, whatever they are.          *)

\* The jobs a search for p lists: those it has a score for.
Listed(p, F) == {j \in F : match[j, p] # NoMatch}

\* Mutant: ORDER BY match_score DESC.
AheadByScore(p, i, j) == match[i, p].score > match[j, p].score

\* ORDER BY match_score DESC, id ASC
Ahead(p, i, j) ==
    \/ match[i, p].score > match[j, p].score
    \/ match[i, p].score = match[j, p].score /\ i < j

Place(p, F, j) == 1 + Cardinality({i \in Listed(p, F) : Ahead(p, i, j)})

\* A search without a profile lists every job: ORDER BY created_at DESC, id ASC
ListedAll(F) == {j \in F : jobs[j].text # 0}

PlaceAll(F, j) ==
    1 + Cardinality({i \in ListedAll(F) :
            Created[i] > Created[j] \/ (Created[i] = Created[j] /\ i < j)})

\* Place k is on page n: LIMIT limit OFFSET (n - 1) * limit
OnPage(k, n, limit) == (n - 1) * limit < k /\ k <= n * limit

\* Each page of L holds as many jobs as there are places on it.
Paged(L, place, limit) ==
    \A n \in 1..Cardinality(L) :
        Cardinality({j \in L : OnPage(place[j], n, limit)})
            = Cardinality({k \in 1..Cardinality(L) : OnPage(k, n, limit)})

-----------------------------------------------------------------------------
\* A score is what it is filed as: computed from the profile's text of its hash
\* and the embedding of the job's text of its hash, or zero. The rows of the two
\* are read at different times, and change before the score is stored
\* (utils/match_score.rs:135-275). Jobs that were given a late
\* embedding are excused.
ScoreOfItsTexts ==
    \A x \in Pair : match[x] # NoMatch =>
        \/ match[x].emb = 0 /\ match[x].score = 0
        \/ /\ match[x].text = match[x].profileHash
           /\ match[x].emb = match[x].jobHash \/ x[1] \in late

Current(x) ==
    /\ match[x] # NoMatch
    /\ match[x].jobHash = jobs[x[1]].text /\ match[x].profileHash = profiles[x[2]]

AllCurrent == \A x \in Stored : Current(x)

\* A run beside which nothing else happened, and whose last phase had room, leaves
\* every pair with a score under its current hashes: none falls between the four
\* phases (utils/match_score.rs:17-133, 277-331).
CalmRunCovers ==
    [][\A r \in Run : pc[r] = "missing" /\ pc'[r] = "idle" /\ r \in calm /\ troubles' = troubles
           => AllCurrent]_vars

\* A search pages through its jobs: whatever its filters, and whether or not for a
\* profile, each job it lists is on one page and no page but the last has room,
\* with many jobs of one score (db/match_score.rs:332-333, 454-455).
PagesPartition ==
    \A F \in SUBSET Job, limit \in 1..Cardinality(Job) :
        /\ \A p \in Profile :
              Paged(Listed(p, F), [j \in Listed(p, F) |-> Place(p, F, j)], limit)
        /\ Paged(ListedAll(F), [j \in ListedAll(F) |-> PlaceAll(F, j)], limit)

\* However runs overlap, overwrite each other's scores with older ones, fail and
\* restart: once the tables rest, every pair comes to a score under its current
\* hashes, and keeps one (utils/match_score.rs:17-133, db/match_score.rs:74-136).
EventuallyScored == <>[]AllCurrent
=============================================================================
