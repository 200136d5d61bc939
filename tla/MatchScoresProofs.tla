-------------------------- MODULE MatchScoresProofs --------------------------
(***************************************************************************)
(* The match scores, for any number of jobs, profiles and runs, any batch  *)
(* size and limit, and any number of changes and troubles: a score is what *)
(* its hashes say, for rows are copied whole (RowsFit); a search neither   *)
(* repeats nor skips a job from page to page, for the places of its list   *)
(* are a numbering (Ranked); and a run that is left alone covers every     *)
(* pair, for each is up to date, or waits to be read or scored (Covered).  *)
(***************************************************************************)
EXTENDS MatchScores, FiniteSetTheorems, TLAPS

There == {j \in Job : jobs[j].text # 0}

\* What a run has in hand is of jobs that are stored, and a job stays stored.
OfStoredJobs ==
    \A r \in Run :
        /\ newJobs[r] \subseteq There /\ batch[r] \cap Job \subseteq There
        /\ \A x \in pairs[r] : x[1] \in There
        /\ \A y \in hand[r] : y.job \in There
        /\ \A j \in Job : snap[r].jobs[j].text # 0 => j \in There

Typed == TypeOK /\ OfStoredJobs

\* The embedding of a row is of the row's text, or there is none, or it came late.
Fits(j, row) == row.emb = 0 \/ row.emb = row.text \/ j \in late

\* So it is wherever rows are: in the table, in snapshots and in hand.
RowsFit ==
    /\ \A j \in Job : Fits(j, jobs[j])
    /\ \A r \in Run, j \in Job : Fits(j, snap[r].jobs[j])
    /\ \A r \in Run : \A y \in hand[r] : Fits(y.job, y.row)

-----------------------------------------------------------------------------
\* A score is of its type, whatever is in hand (services/match_score.rs:31-67).
LEMMA ScoreTyped ==
    ASSUME NEW y \in Rows
    PROVE  ScoreOf(y) \in Match /\ [y EXCEPT !.row.emb = 0] \in Rows
<1>1. Rating[y.job, y.profile] \in 0..10
  BY MatchScoresAssumption DEF Pair, Rows
<1>2. y.row.text \in Nat /\ y.row.emb \in Nat /\ y.text \in Nat /\ 0 \in 0..10
  BY DEF Rows, JobRow
<1>3. ScoreOf(y) \in Match
  BY <1>1, <1>2 DEF ScoreOf, Match
<1>4. [y EXCEPT !.row.emb = 0] \in Rows
  BY DEF Rows, JobRow
<1> QED
  BY <1>3, <1>4

\* The empty tables are of their types.
LEMMA TypeInit == Init => Typed
<1> SUFFICES ASSUME Init PROVE Typed
  OBVIOUS
<1> USE DEF Init, NoJob, JobRow
<1>1. jobs \in [Job -> JobRow] /\ \A j \in Job : jobs[j].emb <= jobs[j].text
  OBVIOUS
<1>2. NoSnap \in Snap /\ \A j \in Job : NoSnap.jobs[j].text = 0
  BY DEF NoSnap, Snap
<1> QED
  BY <1>1, <1>2 DEF Typed, TypeOK, OfStoredJobs

\* A change of the tables: jobs that were there stay there.
LEMMA ChangeTyped ==
    ASSUME Typed, UNCHANGED runVars, There \subseteq There',
           jobs' \in [Job -> JobRow], \A j \in Job : jobs'[j].emb <= jobs'[j].text,
           profiles' \in [Profile -> Nat],
           gone' \subseteq {p \in Profile : profiles'[p] = 0},
           match' \in [Pair -> Match \cup {NoMatch}],
           \A x \in Pair : match'[x] # NoMatch => jobs'[x[1]].text # 0 /\ profiles'[x[2]] # 0,
           changes' \in Nat, troubles' \in Nat, late' \subseteq Job, calm' \subseteq Run
    PROVE  Typed'
<1>1. TypeOK'
  BY DEF Typed, TypeOK, runVars
<1>2. OfStoredJobs'
  BY DEF Typed, OfStoredJobs, runVars
<1> QED
  BY <1>1, <1>2 DEF Typed

\* A step of a run that leaves the tables alone.
LEMMA StepTyped ==
    ASSUME Typed, UNCHANGED <<tableVars, changes, late>>,
           pc' \in [Run -> {"idle", "found", "missing"}],
           newJobs' \in [Run -> SUBSET There], newProfiles' \in [Run -> SUBSET Profile],
           pairs' \in [Run -> SUBSET Pair], \A r \in Run : \A x \in pairs'[r] : x[1] \in There,
           batch' \in [Run -> SUBSET (There \cup Profile)],
           snap' \in [Run -> Snap],
           \A r \in Run, j \in Job : snap'[r].jobs[j].text # 0 => j \in There,
           hand' \in [Run -> SUBSET Rows], \A r \in Run : \A y \in hand'[r] : y.job \in There,
           troubles' \in Nat, calm' \subseteq Run
    PROVE  Typed'
<1>1. There' = There /\ There \subseteq Job
  BY DEF There, tableVars
<1>2. TypeOK'
  BY <1>1 DEF Typed, TypeOK, tableVars
<1>3. OfStoredJobs'
  <2>1. There \cap Profile = {}
    BY MatchScoresAssumption DEF There
  <2>2. \A r \in Run : batch'[r] \cap Job \subseteq There
    BY MatchScoresAssumption
  <2> QED
    BY <1>1, <2>2 DEF OfStoredJobs
<1> QED
  BY <1>2, <1>3 DEF Typed

\* What StepTyped asks for, of what a step leaves alone.
LEMMA RunsTyped ==
    ASSUME Typed
    PROVE  /\ pc \in [Run -> {"idle", "found", "missing"}]
           /\ newJobs \in [Run -> SUBSET There] /\ newProfiles \in [Run -> SUBSET Profile]
           /\ pairs \in [Run -> SUBSET Pair]
           /\ \A r \in Run : \A x \in pairs[r] : x[1] \in There
           /\ batch \in [Run -> SUBSET (There \cup Profile)]
           /\ snap \in [Run -> Snap]
           /\ \A r \in Run, j \in Job : snap[r].jobs[j].text # 0 => j \in There
           /\ hand \in [Run -> SUBSET Rows]
           /\ \A r \in Run : \A y \in hand[r] : y.job \in There
           /\ troubles \in Nat /\ calm \subseteq Run
  BY DEF Typed, TypeOK, OfStoredJobs

\* A snapshot of nothing is a snapshot, of no stored job.
LEMMA NoSnapTyped == NoSnap \in Snap /\ \A j \in Job : NoSnap.jobs[j].text = 0
  BY DEF NoSnap, NoJob, Snap, JobRow

\* A chunk is of what is left.
LEMMA ChunksOf == \A S, B : B \in Chunks(S) => B \subseteq S
  BY DEF Chunks

\* What Taken leaves is of what there was.
LEMMA TakenTyped ==
    ASSUME Typed, NEW r \in Run, NEW b, Taken(r, b)
    PROVE  /\ batch' \in [Run -> SUBSET (There \cup Profile)]
           /\ snap' \in [Run -> Snap]
           /\ \A q \in Run, j \in Job : snap'[q].jobs[j].text # 0 => j \in There
<1>1. batch' \in [Run -> SUBSET (There \cup Profile)]
  BY RunsTyped DEF Taken
<1>2. snap' = snap \/ snap' = [snap EXCEPT ![r] = NoSnap]
  BY DEF Taken
<1>3. snap' \in [Run -> Snap]
  BY <1>2, RunsTyped, NoSnapTyped
<1>4. \A q \in Run : snap'[q] = snap[q] \/ snap'[q] = NoSnap
  BY <1>2, RunsTyped
<1> QED
  BY <1>1, <1>3, <1>4, RunsTyped, NoSnapTyped

-----------------------------------------------------------------------------
\* A run selects stored jobs and profiles, and pairs of them.
LEMMA FindTyped == ASSUME Typed, NEW r \in Run, Find(r) PROVE Typed'
<1>1. /\ NewJobs \subseteq There /\ NewProfiles \subseteq Profile
      /\ StalePairs \subseteq Pair /\ \A x \in StalePairs : x[1] \in There
  BY DEF NewJobs, NewProfiles, StalePairs, Stored, There, Pair
<1>2. /\ newJobs' \in [Run -> SUBSET There] /\ newProfiles' \in [Run -> SUBSET Profile]
      /\ pairs' \in [Run -> SUBSET Pair] /\ \A q \in Run : \A x \in pairs'[q] : x[1] \in There
      /\ pc' \in [Run -> {"idle", "found", "missing"}] /\ calm' \subseteq Run
  BY <1>1, RunsTyped DEF Find
<1>3. UNCHANGED <<tableVars, batch, snap, hand, changes, troubles, late>>
  BY DEF Find
<1> QED
  BY <1>2, <1>3, RunsTyped, StepTyped

\* A row read for a pair is of a stored job.
LEMMA ReadPairTyped == ASSUME Typed, NEW r \in Run, ReadPair(r) PROVE Typed'
<1>1. PICK x \in pairs[r] :
          /\ pairs' = [pairs EXCEPT ![r] = @ \ {x}]
          /\ hand' = [hand EXCEPT ![r] =
                 {y \in {[job |-> x[1], profile |-> x[2], row |-> jobs[x[1]],
                          text |-> profiles[x[2]]]} : y.text # 0}]
  BY DEF ReadPair
<1> DEFINE y == [job |-> x[1], profile |-> x[2], row |-> jobs[x[1]], text |-> profiles[x[2]]]
<1>2. x[1] \in There /\ x \in Pair
  BY RunsTyped
<1>3. x[1] \in Job /\ x[2] \in Profile
  BY <1>2 DEF Pair
<1>4. jobs[x[1]] \in JobRow /\ profiles[x[2]] \in Nat
  BY <1>3 DEF Typed, TypeOK
<1>5. y \in Rows /\ y.job \in There
  BY <1>2, <1>3, <1>4 DEF Rows
<1>6. pairs' \in [Run -> SUBSET Pair] /\ \A q \in Run : \A z \in pairs'[q] : z[1] \in There
  BY <1>1, RunsTyped
<1>7. \E S \in SUBSET {y} : hand' = [hand EXCEPT ![r] = S]
  BY <1>1
<1> HIDE DEF y
<1>8. hand' \in [Run -> SUBSET Rows] /\ \A q \in Run : \A z \in hand'[q] : z.job \in There
  BY <1>5, <1>7, RunsTyped
<1>9. UNCHANGED <<tableVars, pc, newJobs, newProfiles, batch, snap, changes, troubles, late, calm>>
  BY DEF ReadPair
<1> QED
  BY <1>6, <1>8, <1>9, RunsTyped, StepTyped

\* A batch of jobs is of stored jobs.
LEMMA TakeJobsTyped == ASSUME Typed, NEW r \in Run, TakeJobs(r) PROVE Typed'
<1>1. PICK B \in Chunks(newJobs[r]) :
          /\ newJobs' = [newJobs EXCEPT ![r] = @ \ B]
          /\ \E S \in {B, {}} : batch' = [batch EXCEPT ![r] = S]
          /\ snap' = [snap EXCEPT ![r].profiles = profiles]
  BY DEF TakeJobs
<1>2. B \subseteq There
  BY ChunksOf, RunsTyped
<1>3. newJobs' \in [Run -> SUBSET There] /\ batch' \in [Run -> SUBSET (There \cup Profile)]
  BY <1>1, <1>2, RunsTyped
<1>4. profiles \in [Profile -> Nat] /\ snap[r] \in Snap
  BY DEF Typed, TypeOK
<1>5. /\ [snap[r] EXCEPT !.profiles = profiles] \in Snap
      /\ [snap[r] EXCEPT !.profiles = profiles].jobs = snap[r].jobs
  BY <1>4 DEF Snap
<1>6. snap' = [snap EXCEPT ![r] = [snap[r] EXCEPT !.profiles = profiles]]
  BY <1>1
<1>7. \A q \in Run : snap'[q] \in Snap /\ snap'[q].jobs = snap[q].jobs
  BY <1>5, <1>6, RunsTyped
<1>8. /\ snap' \in [Run -> Snap]
      /\ \A q \in Run, j \in Job : snap'[q].jobs[j].text # 0 => j \in There
  BY <1>6, <1>7, RunsTyped
<1>9. UNCHANGED <<tableVars, pc, newProfiles, pairs, hand, changes, troubles, late, calm>>
  BY DEF TakeJobs
<1> QED
  BY <1>3, <1>8, <1>9, RunsTyped, StepTyped

\* So are the rows made of it.
LEMMA ReadJobTyped == ASSUME Typed, NEW r \in Run, NEW j \in Job, ReadJob(r, j) PROVE Typed'
<1> DEFINE Read(p) == [job |-> j, profile |-> p, row |-> jobs[j], text |-> snap[r].profiles[p]]
<1>1. j \in There /\ jobs[j] \in JobRow /\ snap[r].profiles \in [Profile -> Nat]
  <2>1. There \cup Profile = There \cup Profile /\ Job \cap Profile = {}
    BY MatchScoresAssumption
  <2>2. batch[r] \subseteq There \cup Profile
    BY RunsTyped
  <2> QED
    BY <2>1, <2>2 DEF ReadJob, Typed, TypeOK, Snap
<1>2. \A p \in Profile : Read(p) \in Rows /\ Read(p).job \in There
  BY <1>1 DEF Rows
<1>3. \E S \in SUBSET {Read(p) : p \in Profile} : hand' = [hand EXCEPT ![r] = S]
  BY DEF ReadJob
<1> HIDE DEF Read
<1>4. hand' \in [Run -> SUBSET Rows] /\ \A q \in Run : \A z \in hand'[q] : z.job \in There
  BY <1>2, <1>3, RunsTyped
<1>5. /\ UNCHANGED <<tableVars, pc, newJobs, newProfiles, pairs, changes, troubles, late, calm>>
      /\ Taken(r, j)
  BY DEF ReadJob
<1> QED
  BY <1>4, <1>5, RunsTyped, TakenTyped, StepTyped

\* A batch of profiles is of profiles.
LEMMA TakeProfilesTyped == ASSUME Typed, NEW r \in Run, TakeProfiles(r) PROVE Typed'
<1>1. PICK B \in Chunks(newProfiles[r]) :
          /\ newProfiles' = [newProfiles EXCEPT ![r] = @ \ B]
          /\ \E S \in {B, {}} : batch' = [batch EXCEPT ![r] = S]
          /\ snap' = [snap EXCEPT ![r].jobs = jobs]
  BY DEF TakeProfiles
<1>2. B \subseteq Profile
  BY ChunksOf, RunsTyped
<1>3. newProfiles' \in [Run -> SUBSET Profile] /\ batch' \in [Run -> SUBSET (There \cup Profile)]
  BY <1>1, <1>2, RunsTyped
<1>4. jobs \in [Job -> JobRow] /\ snap[r] \in Snap
  BY DEF Typed, TypeOK
<1>5. /\ [snap[r] EXCEPT !.jobs = jobs] \in Snap
      /\ [snap[r] EXCEPT !.jobs = jobs].jobs = jobs
  BY <1>4 DEF Snap
<1>6. snap' = [snap EXCEPT ![r] = [snap[r] EXCEPT !.jobs = jobs]]
  BY <1>1
<1>7. \A q \in Run : snap'[q] \in Snap /\ (snap'[q].jobs = snap[q].jobs \/ snap'[q].jobs = jobs)
  BY <1>5, <1>6, RunsTyped
<1>8. snap' \in [Run -> Snap]
  BY <1>6, <1>7, RunsTyped
<1>9. \A q \in Run, j \in Job : snap'[q].jobs[j].text # 0 => j \in There
  BY <1>7, RunsTyped DEF There
<1>10. UNCHANGED <<tableVars, pc, newJobs, pairs, hand, changes, troubles, late, calm>>
  BY DEF TakeProfiles
<1> QED
  BY <1>3, <1>8, <1>9, <1>10, RunsTyped, StepTyped

\* The rows made of it are of the stored jobs of its snapshot.
LEMMA ReadProfileTyped ==
    ASSUME Typed, NEW r \in Run, NEW p \in Profile, ReadProfile(r, p) PROVE Typed'
<1> DEFINE Read(j) == [job |-> j, profile |-> p, row |-> snap[r].jobs[j], text |-> profiles[p]]
<1>1. profiles[p] \in Nat /\ snap[r].jobs \in [Job -> JobRow]
  BY DEF Typed, TypeOK, Snap
<1>2. \A j \in Job : Read(j) \in Rows /\ Read(j).job = j /\ Read(j).row = snap[r].jobs[j]
  BY <1>1 DEF Rows
<1>3. PICK S \in SUBSET {Read(j) : j \in Job} :
          /\ hand' = [hand EXCEPT ![r] = S]
          /\ \A y \in S : y.row.text # 0
  BY DEF ReadProfile
<1> HIDE DEF Read
<1>4. \A y \in S : y \in Rows /\ y.job \in There
  BY <1>2, <1>3, RunsTyped
<1>5. hand' \in [Run -> SUBSET Rows] /\ \A q \in Run : \A z \in hand'[q] : z.job \in There
  BY <1>3, <1>4, RunsTyped
<1>6. /\ UNCHANGED <<tableVars, pc, newJobs, newProfiles, pairs, changes, troubles, late, calm>>
      /\ Taken(r, p)
  BY DEF ReadProfile
<1> QED
  BY <1>5, <1>6, RunsTyped, TakenTyped, StepTyped

\* The last phase selects stored jobs.
LEMMA FetchMissingTyped == ASSUME Typed, NEW r \in Run, FetchMissing(r) PROVE Typed'
<1>1. MissingPairs \subseteq Pair /\ \A x \in MissingPairs : x[1] \in There
  BY DEF MissingPairs, Stored, There, Pair
<1>2. /\ \E S \in SUBSET MissingPairs : pairs' = [pairs EXCEPT ![r] = S]
      /\ pc' = [pc EXCEPT ![r] = "missing"] /\ calm' \subseteq calm
      /\ UNCHANGED <<tableVars, newJobs, newProfiles, batch, snap, hand, changes, troubles, late>>
  BY DEF FetchMissing
<1>3. pairs' \in [Run -> SUBSET Pair] /\ \A q \in Run : \A x \in pairs'[q] : x[1] \in There
  BY <1>1, <1>2, RunsTyped
<1>4. pc' \in [Run -> {"idle", "found", "missing"}] /\ calm' \subseteq Run
  BY <1>2, RunsTyped
<1> QED
  BY <1>2, <1>3, <1>4, RunsTyped, StepTyped

\* A score of a job that is stored is stored, if its profile is.
LEMMA StoreTyped ==
    ASSUME Typed, NEW r \in Run, NEW y \in hand[r], NEW m \in Match, StoreScore(r, y, m),
           troubles' \in Nat, calm' \subseteq Run
    PROVE  Typed'
<1> DEFINE x == <<y.job, y.profile>>
<1>1. y \in Rows /\ y.job \in There
  BY RunsTyped
<1>2. x \in Pair /\ x[1] = y.job /\ x[2] = y.profile
  BY <1>1 DEF Rows, Pair
<1>3. \/ match' = match
      \/ match' = [match EXCEPT ![x] = m] /\ profiles[x[2]] # 0 /\ jobs[x[1]].text # 0
  BY <1>1, <1>2 DEF StoreScore, There
<1>4. match \in [Pair -> Match \cup {NoMatch}]
  BY DEF Typed, TypeOK
<1>5. match' \in [Pair -> Match \cup {NoMatch}]
  BY <1>2, <1>3, <1>4
<1>6. \A z \in Pair : match'[z] # NoMatch => jobs[z[1]].text # 0 /\ profiles[z[2]] # 0
  <2>1. \A z \in Pair : match[z] # NoMatch => jobs[z[1]].text # 0 /\ profiles[z[2]] # 0
    BY DEF Typed, TypeOK
  <2> HIDE DEF x
  <2> QED
    BY <1>2, <1>3, <1>4, <2>1
<1>7. /\ hand' = [hand EXCEPT ![r] = @ \ {y}]
      /\ UNCHANGED <<jobs, profiles, gone, pc, newJobs, newProfiles, pairs, batch, snap,
                     changes, late>>
  BY DEF StoreScore
<1>8. hand' \in [Run -> SUBSET Rows] /\ \A q \in Run : hand'[q] \subseteq hand[q]
  BY <1>7, RunsTyped
<1>9. TypeOK'
  BY <1>5, <1>6, <1>7, <1>8 DEF Typed, TypeOK
<1>10. OfStoredJobs'
  BY <1>7, <1>8 DEF Typed, OfStoredJobs, There
<1> QED
  BY <1>9, <1>10 DEF Typed

\* A statement that fails drops a pair, or something taken up, or the run.
LEMMA StatementFailsTyped == ASSUME Typed, NEW r \in Run, StatementFails(r) PROVE Typed'
<1>1. /\ UNCHANGED <<tableVars, changes, late>> /\ troubles' \in Nat /\ calm' \subseteq Run
  BY RunsTyped DEF StatementFails, Trouble
<1>2. ASSUME NEW x \in pairs[r], pairs' = [pairs EXCEPT ![r] = @ \ {x}],
             UNCHANGED <<pc, newJobs, newProfiles, batch, snap, hand>>
      PROVE  Typed'
  <2>1. pairs' \in [Run -> SUBSET Pair] /\ \A q \in Run : pairs'[q] \subseteq pairs[q]
    BY <1>2, RunsTyped
  <2> QED
    BY <1>1, <1>2, <2>1, RunsTyped, StepTyped
<1>3. ASSUME NEW b \in batch[r], Taken(r, b), UNCHANGED <<pc, newJobs, newProfiles, pairs, hand>>
      PROVE  Typed'
  BY <1>1, <1>3, RunsTyped, TakenTyped, StepTyped
<1>4. ASSUME NEW B, newJobs' = [newJobs EXCEPT ![r] = @ \ B],
             UNCHANGED <<pc, newProfiles, pairs, batch, snap, hand>>
      PROVE  Typed'
  <2>1. newJobs' \in [Run -> SUBSET There]
    BY <1>4, RunsTyped
  <2> QED
    BY <1>1, <1>4, <2>1, RunsTyped, StepTyped
<1>5. ASSUME NEW B, newProfiles' = [newProfiles EXCEPT ![r] = @ \ B],
             UNCHANGED <<pc, newJobs, pairs, batch, snap, hand>>
      PROVE  Typed'
  <2>1. newProfiles' \in [Run -> SUBSET Profile]
    BY <1>5, RunsTyped
  <2> QED
    BY <1>1, <1>5, <2>1, RunsTyped, StepTyped
<1>6. ASSUME NEW y \in hand[r], hand' = [hand EXCEPT ![r] = @ \ {y}],
             UNCHANGED <<pc, newJobs, newProfiles, pairs, batch, snap>>
      PROVE  Typed'
  <2>1. hand' \in [Run -> SUBSET Rows] /\ \A q \in Run : hand'[q] \subseteq hand[q]
    BY <1>6, RunsTyped
  <2> QED
    BY <1>1, <1>6, <2>1, RunsTyped, StepTyped
<1>7. ASSUME pc' = [pc EXCEPT ![r] = "idle"],
             UNCHANGED <<newJobs, newProfiles, pairs, batch, snap, hand>>
      PROVE  Typed'
  <2>1. pc' \in [Run -> {"idle", "found", "missing"}]
    BY <1>7, RunsTyped
  <2> QED
    BY <1>1, <1>7, <2>1, RunsTyped, StepTyped
<1> QED
  BY <1>2, <1>3, <1>4, <1>5, <1>6, <1>7 DEF StatementFails

\* A restart leaves nothing in hand.
LEMMA RestartTyped == ASSUME Typed, Restart PROVE Typed'
<1>1. troubles' \in Nat
  BY RunsTyped DEF Restart, Trouble
<1>2. /\ snap' \in [Run -> Snap]
      /\ \A q \in Run, j \in Job : snap'[q].jobs[j].text # 0 => j \in There
  BY NoSnapTyped DEF Restart
<1>3. /\ UNCHANGED <<tableVars, changes, late>> /\ calm' = {}
      /\ pc' \in [Run -> {"idle", "found", "missing"}]
      /\ newJobs' \in [Run -> SUBSET There] /\ newProfiles' \in [Run -> SUBSET Profile]
      /\ pairs' \in [Run -> SUBSET Pair] /\ \A r \in Run : \A x \in pairs'[r] : x[1] \in There
      /\ batch' \in [Run -> SUBSET (There \cup Profile)]
      /\ hand' \in [Run -> SUBSET Rows] /\ \A r \in Run : \A y \in hand'[r] : y.job \in There
  BY DEF Restart
<1> QED
  BY <1>1, <1>2, <1>3, StepTyped

-----------------------------------------------------------------------------
(* The tables change.                                                      *)

\* A job that is stored stays stored.
LEMMA StoreJobTyped == ASSUME Typed, NEW j \in Job, StoreJob(j) PROVE Typed'
<1>1. jobs \in [Job -> JobRow] /\ jobs[j].text \in Nat
  BY DEF Typed, TypeOK, JobRow
<1>2. /\ jobs' = [jobs EXCEPT ![j] = [text |-> jobs[j].text + 1, emb |-> 0]]
      /\ [text |-> jobs[j].text + 1, emb |-> 0] \in JobRow
      /\ 0 <= jobs[j].text + 1 /\ jobs[j].text + 1 # 0
  BY <1>1 DEF StoreJob, JobRow
<1>3. /\ jobs' \in [Job -> JobRow] /\ \A i \in Job : jobs'[i].emb <= jobs'[i].text
      /\ \A i \in Job : jobs[i].text # 0 => jobs'[i].text # 0
  BY <1>1, <1>2 DEF Typed, TypeOK
<1>4. /\ UNCHANGED <<profiles, gone, match, late, runVars, troubles>>
      /\ changes' = changes + 1 /\ calm' = {}
  BY DEF StoreJob, Change
<1>5. There \subseteq There'
  BY <1>3 DEF There
<1> QED
  BY <1>3, <1>4, <1>5, ChangeTyped DEF Typed, TypeOK, Pair

\* The embedding of a job is written: its text stays.
LEMMA EmbeddingTyped ==
    ASSUME Typed, NEW j \in Job, EmbedJob(j) \/ EmbedLate(j) PROVE Typed'
<1>1. jobs \in [Job -> JobRow] /\ jobs[j].text \in Nat
  BY DEF Typed, TypeOK, JobRow
<1>2. PICK e \in Nat : e <= jobs[j].text /\ jobs' = [jobs EXCEPT ![j].emb = e]
  <2> DEFINE With(e) == [jobs EXCEPT ![j].emb = e]
  <2>1. \/ jobs' = With(jobs[j].text)
        \/ \E e \in 1..jobs[j].text : e < jobs[j].text /\ jobs' = With(e)
    BY DEF EmbedJob, EmbedLate
  <2>2. jobs[j].text <= jobs[j].text
    BY <1>1
  <2> SUFFICES \E e \in Nat : e <= jobs[j].text /\ jobs' = With(e)
    OBVIOUS
  <2> HIDE DEF With
  <2>3. CASE jobs' = With(jobs[j].text)
    BY <1>1, <2>2, <2>3
  <2>4. ASSUME NEW e \in 1..jobs[j].text, jobs' = With(e) PROVE e \in Nat /\ e <= jobs[j].text
    BY <1>1
  <2> QED
    BY <2>1, <2>3, <2>4
<1>3. /\ [jobs[j] EXCEPT !.emb = e] \in JobRow
      /\ [jobs[j] EXCEPT !.emb = e].text = jobs[j].text
      /\ [jobs[j] EXCEPT !.emb = e].emb = e
  BY <1>1 DEF JobRow
<1>4. jobs' = [jobs EXCEPT ![j] = [jobs[j] EXCEPT !.emb = e]]
  BY <1>2
<1>5. /\ jobs' \in [Job -> JobRow] /\ \A i \in Job : jobs'[i].emb <= jobs'[i].text
      /\ \A i \in Job : jobs'[i].text = jobs[i].text
  BY <1>1, <1>2, <1>3, <1>4 DEF Typed, TypeOK
<1>6. /\ UNCHANGED <<profiles, gone, match, runVars, changes, troubles>>
      /\ late' \subseteq Job /\ calm' = {}
  BY DEF EmbedJob, EmbedLate, Typed, TypeOK
<1>7. There \subseteq There'
  BY <1>5 DEF There
<1> QED
  BY <1>5, <1>6, <1>7, ChangeTyped DEF Typed, TypeOK, Pair

\* Profiles that change or go take their scores with them.
LEMMA ProfileTyped ==
    ASSUME Typed, NEW p \in Profile, StoreProfile(p) \/ DeleteProfile(p) PROVE Typed'
<1>1. /\ UNCHANGED <<jobs, late, runVars, troubles>> /\ changes' = changes + 1 /\ calm' = {}
  BY DEF StoreProfile, DeleteProfile, Change
<1>2. profiles \in [Profile -> Nat] /\ match \in [Pair -> Match \cup {NoMatch}]
  BY DEF Typed, TypeOK
<1>3. /\ profiles' \in [Profile -> Nat]
      /\ gone' \subseteq {q \in Profile : profiles'[q] = 0}
      /\ match' \in [Pair -> Match \cup {NoMatch}]
      /\ \A x \in Pair : match'[x] # NoMatch => match[x] # NoMatch /\ profiles'[x[2]] # 0
  <2>1. CASE StoreProfile(p)
    <3>1. /\ profiles' = [profiles EXCEPT ![p] = profiles[p] + 1]
          /\ UNCHANGED <<gone, match>> /\ p \notin gone /\ profiles[p] + 1 \in Nat \ {0}
      BY <1>2, <2>1 DEF StoreProfile
    <3>2. \A x \in Pair : match[x] # NoMatch => profiles[x[2]] # 0 /\ x[2] \in Profile
      BY DEF Typed, TypeOK, Pair
    <3> QED
      BY <1>2, <3>1, <3>2 DEF Typed, TypeOK
  <2>2. CASE DeleteProfile(p)
    <3>1. /\ profiles' = [profiles EXCEPT ![p] = 0] /\ gone' = gone \cup {p}
          /\ match' = [x \in Pair |-> IF x[2] = p THEN NoMatch ELSE match[x]]
      BY <2>2 DEF DeleteProfile
    <3>2. \A x \in Pair : match[x] # NoMatch => profiles[x[2]] # 0 /\ x[2] \in Profile
      BY DEF Typed, TypeOK, Pair
    <3> QED
      BY <1>2, <3>1, <3>2 DEF Typed, TypeOK
  <2> QED
    BY <2>1, <2>2
<1> QED
  BY <1>1, <1>3, ChangeTyped DEF Typed, TypeOK, There

-----------------------------------------------------------------------------
\* So every step keeps the types.
LEMMA TypeInductive == Typed /\ [Next]_vars => Typed'
<1> SUFFICES ASSUME Typed, [Next]_vars PROVE Typed'
  OBVIOUS
<1>1. ASSUME NEW j \in Job, StoreJob(j) \/ EmbedJob(j) \/ EmbedLate(j) PROVE Typed'
  BY <1>1, StoreJobTyped, EmbeddingTyped
<1>2. ASSUME NEW p \in Profile, StoreProfile(p) \/ DeleteProfile(p) PROVE Typed'
  BY <1>2, ProfileTyped
<1>3. ASSUME NEW r \in Run, RunStep(r) PROVE Typed'
  <2>1. CASE Upsert(r)
    <3>1. PICK y \in hand[r] : StoreScore(r, y, ScoreOf(y))
      BY <2>1 DEF Upsert
    <3>2. ScoreOf(y) \in Match
      BY RunsTyped, ScoreTyped
    <3>3. troubles' \in Nat /\ calm' \subseteq Run
      BY <2>1, RunsTyped DEF Upsert
    <3> QED
      BY <3>1, <3>2, <3>3, StoreTyped
  <2>2. CASE Finish(r)
    <3>1. pc' \in [Run -> {"idle", "found", "missing"}] /\ calm' \subseteq Run
      BY <2>2, RunsTyped DEF Finish
    <3> QED
      BY <2>2, <3>1, RunsTyped, StepTyped DEF Finish
  <2> QED
    BY <1>3, <2>1, <2>2, FindTyped, ReadPairTyped, TakeJobsTyped, TakeProfilesTyped,
       ReadJobTyped, ReadProfileTyped, FetchMissingTyped DEF RunStep
<1>4. ASSUME NEW r \in Run, ScoreFails(r) PROVE Typed'
  <2>1. PICK y \in hand[r] : StoreScore(r, y, ScoreOf([y EXCEPT !.row.emb = 0]))
    BY <1>4 DEF ScoreFails
  <2>2. ScoreOf([y EXCEPT !.row.emb = 0]) \in Match
    BY RunsTyped, ScoreTyped
  <2>3. troubles' \in Nat /\ calm' \subseteq Run
    BY <1>4, RunsTyped DEF ScoreFails, Trouble
  <2> QED
    BY <2>1, <2>2, <2>3, StoreTyped
<1>5. ASSUME NEW r \in Run, StatementFails(r) PROVE Typed'
  BY <1>5, StatementFailsTyped
<1>6. CASE Restart
  BY <1>6, RestartTyped
<1>7. CASE UNCHANGED vars
  <2>1. UNCHANGED <<jobs, profiles, gone, match, runVars, changes, troubles, late, calm>>
    BY <1>7 DEF vars, tableVars
  <2> QED
    BY <2>1, ChangeTyped DEF Typed, TypeOK, There, Pair
<1> QED
  BY <1>1, <1>2, <1>3, <1>4, <1>5, <1>6, <1>7 DEF Next

\* The type invariant: no score without its job and profile, no embedding of a text
\* that is still to come (migrations: ON DELETE CASCADE; db/job.rs:127-130).
THEOREM TypeCorrect == Spec => []TypeOK
<1>1. Typed => TypeOK
  BY DEF Typed
<1> QED
  BY <1>1, TypeInit, TypeInductive, PTL DEF Spec

\* And they hold throughout.
LEMMA AlwaysTyped == Spec => []Typed
<1> QED
  BY TypeInit, TypeInductive, PTL DEF Spec
-----------------------------------------------------------------------------
\* What a run has in hand after a step it had before, or copies from where rows are.
Copied(q, y) ==
    \/ y \in hand[q]
    \/ y.job \in Job /\ y.row \in {jobs[y.job], snap[q].jobs[y.job]}

\* No step but StoreScore writes a score, and a row in a snapshot or in hand is copied
\* from where rows fit.
LEMMA RowsCopied ==
    ASSUME Typed, ScoreOfItsTexts, RowsFit, UNCHANGED match, late \subseteq late',
           \A j \in Job : jobs'[j] = jobs[j] \/ jobs'[j].emb \in {0, jobs'[j].text} \/ j \in late',
           \A r \in Run, j \in Job : snap'[r].jobs[j] \in {snap[r].jobs[j], jobs[j], NoJob},
           \A r \in Run : \A y \in hand'[r] : Copied(r, y)
    PROVE  (ScoreOfItsTexts /\ RowsFit)'
<1>1. ScoreOfItsTexts'
  BY DEF ScoreOfItsTexts
<1>2. NoJob.emb = 0
  BY DEF NoJob
<1>3. (\A j \in Job : Fits(j, jobs[j]))'
  BY DEF RowsFit, Fits
<1>4. (\A r \in Run, j \in Job : Fits(j, snap[r].jobs[j]))'
  BY <1>2 DEF RowsFit, Fits
<1>5. (\A r \in Run : \A y \in hand[r] : Fits(y.job, y.row))'
  BY DEF RowsFit, Fits, Copied
<1> QED
  BY <1>1, <1>3, <1>4, <1>5 DEF RowsFit

\* What a run copies of rows.
LEMMA StepCopies ==
    ASSUME Typed, NEW r \in Run,
           \/ Find(r) \/ ReadPair(r) \/ TakeJobs(r) \/ TakeProfiles(r)
           \/ \E j \in Job : ReadJob(r, j)
           \/ \E p \in Profile : ReadProfile(r, p)
           \/ FetchMissing(r) \/ Finish(r) \/ StatementFails(r)
    PROVE  /\ UNCHANGED <<tableVars, late>>
           /\ \A q \in Run, j \in Job : snap'[q].jobs[j] \in {snap[q].jobs[j], jobs[j], NoJob}
           /\ \A q \in Run : \A y \in hand'[q] : Copied(q, y)
<1> DEFINE Snaps == \A q \in Run, j \in Job : snap'[q].jobs[j] \in {snap[q].jobs[j], jobs[j], NoJob}
           Hands == \A q \in Run : \A y \in hand'[q] : Copied(q, y)
<1>1. snap \in [Run -> Snap] /\ hand \in [Run -> SUBSET Rows] /\ pairs \in [Run -> SUBSET Pair]
  BY RunsTyped
<1>2. (UNCHANGED snap => Snaps) /\ (UNCHANGED hand => Hands)
  BY DEF Copied
<1>3. ASSUME NEW b, Taken(r, b) PROVE Snaps
  <2>1. NoSnap.jobs = [j \in Job |-> NoJob]
    BY DEF NoSnap
  <2>2. snap' = snap \/ snap' = [snap EXCEPT ![r] = NoSnap]
    BY <1>3 DEF Taken
  <2> QED
    BY <1>1, <2>1, <2>2
<1>4. ASSUME NEW S, hand' = [hand EXCEPT ![r] = S],
             \A y \in S : Copied(r, y)
      PROVE  Hands
  BY <1>1, <1>4 DEF Copied
<1>5. ASSUME NEW S, hand' = [hand EXCEPT ![r] = S], S \subseteq hand[r] PROVE Hands
  BY <1>1, <1>5 DEF Copied
<1> HIDE DEF Snaps, Hands
<1>6. CASE Find(r) \/ FetchMissing(r) \/ Finish(r)
  BY <1>2, <1>6 DEF Find, FetchMissing, Finish, Snaps, Hands
<1>7. CASE ReadPair(r)
  <2>1. PICK x \in pairs[r] :
            \E S \in SUBSET {[job |-> x[1], profile |-> x[2], row |-> jobs[x[1]],
                              text |-> profiles[x[2]]]} :
                hand' = [hand EXCEPT ![r] = S]
    BY <1>7 DEF ReadPair
  <2>2. x[1] \in Job
    BY <1>1 DEF Pair
  <2>3. PICK S \in SUBSET {[job |-> x[1], profile |-> x[2], row |-> jobs[x[1]],
                            text |-> profiles[x[2]]]} :
            hand' = [hand EXCEPT ![r] = S]
    BY <2>1
  <2>4. \A y \in S : Copied(r, y)
    BY <2>2 DEF Copied
  <2>5. Hands
    BY <1>4, <2>3, <2>4
  <2> QED
    BY <1>2, <1>7, <2>5 DEF ReadPair, Snaps, Hands
<1>8. CASE TakeJobs(r)
  <2>1. snap' = [snap EXCEPT ![r] = [snap[r] EXCEPT !.profiles = profiles]]
    BY <1>8 DEF TakeJobs
  <2>2. [snap[r] EXCEPT !.profiles = profiles].jobs = snap[r].jobs
    BY <1>1 DEF Snap
  <2>3. Snaps
    BY <1>1, <2>1, <2>2 DEF Snaps
  <2> QED
    BY <1>2, <1>8, <2>3 DEF TakeJobs, Snaps, Hands
<1>9. CASE TakeProfiles(r)
  <2>1. snap' = [snap EXCEPT ![r] = [snap[r] EXCEPT !.jobs = jobs]]
    BY <1>9 DEF TakeProfiles
  <2>2. [snap[r] EXCEPT !.jobs = jobs].jobs = jobs
    BY <1>1 DEF Snap
  <2>3. Snaps
    BY <1>1, <2>1, <2>2 DEF Snaps
  <2> QED
    BY <1>2, <1>9, <2>3 DEF TakeProfiles, Snaps, Hands
<1>10. ASSUME NEW j \in Job, ReadJob(r, j) PROVE UNCHANGED <<tableVars, late>> /\ Snaps /\ Hands
  <2>1. PICK S \in SUBSET {[job |-> j, profile |-> p, row |-> jobs[j],
                            text |-> snap[r].profiles[p]] : p \in Profile} :
            hand' = [hand EXCEPT ![r] = S]
    BY <1>10 DEF ReadJob
  <2>2. \A y \in S : Copied(r, y)
    BY <2>1 DEF Copied
  <2>3. Hands
    BY <1>4, <2>1, <2>2
  <2> QED
    BY <1>3, <1>10, <2>3 DEF ReadJob
<1>11. ASSUME NEW p \in Profile, ReadProfile(r, p)
       PROVE UNCHANGED <<tableVars, late>> /\ Snaps /\ Hands
  <2>1. PICK S \in SUBSET {[job |-> j, profile |-> p, row |-> snap[r].jobs[j],
                            text |-> profiles[p]] : j \in Job} :
            hand' = [hand EXCEPT ![r] = S]
    BY <1>11 DEF ReadProfile
  <2>2. \A y \in S : Copied(r, y)
    BY <2>1 DEF Copied
  <2>3. Hands
    BY <1>4, <2>1, <2>2
  <2> QED
    BY <1>3, <1>11, <2>3 DEF ReadProfile
<1>12. CASE StatementFails(r)
  <2>1. UNCHANGED <<tableVars, late>>
    BY <1>12 DEF StatementFails
  <2>2. UNCHANGED snap \/ \E b \in batch[r] : Taken(r, b)
    BY <1>12 DEF StatementFails
  <2>3. UNCHANGED hand \/ \E y \in hand[r] : hand' = [hand EXCEPT ![r] = hand[r] \ {y}]
    BY <1>12 DEF StatementFails
  <2>4. Snaps
    BY <1>2, <1>3, <2>2
  <2>5. Hands
    BY <1>2, <1>5, <2>3
  <2> QED
    BY <2>1, <2>4, <2>5 DEF Snaps, Hands
<1> QED
  BY <1>6, <1>7, <1>8, <1>9, <1>10, <1>11, <1>12 DEF Snaps, Hands

\* A score of rows that fit.
LEMMA StoreFits ==
    ASSUME Typed, ScoreOfItsTexts, RowsFit, NEW r \in Run, NEW y \in hand[r],
           NEW z \in {y, [y EXCEPT !.row.emb = 0]}, StoreScore(r, y, ScoreOf(z))
    PROVE  (ScoreOfItsTexts /\ RowsFit)'
<1> DEFINE x == <<y.job, y.profile>>
           m == ScoreOf(z)
<1>1. y \in Rows /\ Fits(y.job, y.row)
  BY RunsTyped DEF RowsFit
<1>2. z.job = y.job /\ Fits(z.job, z.row)
  BY <1>1 DEF Rows, JobRow, Fits
<1>3. \/ m.emb = 0 /\ m.score = 0
      \/ m.text = m.profileHash /\ (m.emb = m.jobHash \/ y.job \in late)
  BY <1>2 DEF ScoreOf, Fits
<1>4. /\ UNCHANGED <<jobs, snap, late>> /\ hand' = [hand EXCEPT ![r] = @ \ {y}]
      /\ match' = match \/ match' = [match EXCEPT ![x] = m]
  BY DEF StoreScore
<1>5. x[1] = y.job /\ match \in [Pair -> Match \cup {NoMatch}]
  BY DEF Typed, TypeOK
<1>6. ScoreOfItsTexts'
  <2> HIDE DEF x, m
  <2>1. \A w \in Pair : match'[w] = match[w] \/ (w = x /\ match'[w] = m)
    BY <1>4, <1>5
  <2> QED
    BY <1>3, <1>4, <1>5, <2>1 DEF ScoreOfItsTexts
<1>7. \A q \in Run : hand'[q] \subseteq hand[q]
  BY <1>4, RunsTyped
<1>8. RowsFit'
  BY <1>4, <1>7 DEF RowsFit, Fits
<1> QED
  BY <1>6, <1>8

\* A score is what it is filed as: computed from the texts of its two hashes, or zero
\* (utils/match_score.rs:135-275).
THEOREM ScoresFitHashes == Spec => []ScoreOfItsTexts
<1> DEFINE IInv == ScoreOfItsTexts /\ RowsFit
<1>1. Init => IInv
  BY DEF Init, ScoreOfItsTexts, RowsFit, Fits, NoJob, NoSnap
<1>2. Typed /\ IInv /\ [Next]_vars => IInv'
  <2> SUFFICES ASSUME Typed, ScoreOfItsTexts, RowsFit, [Next]_vars PROVE IInv'
    OBVIOUS
  <2>1. CASE /\ UNCHANGED <<match, snap, hand>> /\ late \subseteq late'
             /\ \A j \in Job : \/ jobs'[j] = jobs[j] \/ j \in late'
                               \/ jobs'[j].emb \in {0, jobs'[j].text}
    <3>1. \A r \in Run : \A y \in hand'[r] : Copied(r, y)
      BY <2>1 DEF Copied
    <3>2. \A r \in Run, j \in Job : snap'[r].jobs[j] \in {snap[r].jobs[j], jobs[j], NoJob}
      BY <2>1
    <3>3. \A j \in Job : jobs'[j] = jobs[j] \/ jobs'[j].emb \in {0, jobs'[j].text} \/ j \in late'
      BY <2>1
    <3> QED
      BY <2>1, <3>1, <3>2, <3>3, RowsCopied
  <2>2. ASSUME NEW j \in Job, StoreJob(j) PROVE IInv'
    <3>1. \A i \in Job : jobs'[i] = jobs[i] \/ jobs'[i].emb \in {0, jobs'[i].text}
      BY <2>2 DEF StoreJob, Typed, TypeOK
    <3> QED
      BY <2>1, <2>2, <3>1 DEF StoreJob, Change, runVars
  <2>3. ASSUME NEW j \in Job, EmbedJob(j) PROVE IInv'
    <3>1. jobs' = [jobs EXCEPT ![j] = [jobs[j] EXCEPT !.emb = jobs[j].text]]
      BY <2>3 DEF EmbedJob
    <3>2. LET row == [jobs[j] EXCEPT !.emb = jobs[j].text] IN row.emb = row.text
      BY DEF Typed, TypeOK, JobRow
    <3>3. \A i \in Job : jobs'[i] = jobs[i] \/ jobs'[i].emb \in {0, jobs'[i].text}
      BY <3>1, <3>2 DEF Typed, TypeOK
    <3> QED
      BY <2>1, <2>3, <3>3 DEF EmbedJob, runVars
  <2>4. ASSUME NEW j \in Job, EmbedLate(j) PROVE IInv'
    <3>1. \A i \in Job : jobs'[i] = jobs[i] \/ i \in late'
      BY <2>4 DEF EmbedLate, Typed, TypeOK
    <3> QED
      BY <2>1, <2>4, <3>1 DEF EmbedLate, runVars
  <2>5. ASSUME NEW p \in Profile, StoreProfile(p) PROVE IInv'
    <3>1. UNCHANGED <<match, snap, hand, late, jobs>>
      BY <2>5 DEF StoreProfile, Change, runVars
    <3> QED
      BY <2>1, <3>1
  <2>6. ASSUME NEW p \in Profile, DeleteProfile(p) PROVE IInv'
    <3>1. /\ UNCHANGED <<jobs, snap, hand, late>>
          /\ \A x \in Pair : match'[x] \in {NoMatch, match[x]}
      BY <2>6 DEF DeleteProfile, Change, runVars
    <3>2. ScoreOfItsTexts'
      BY <3>1 DEF ScoreOfItsTexts
    <3>3. RowsFit'
      BY <3>1 DEF RowsFit, Fits
    <3> QED
      BY <3>2, <3>3
  <2>7. ASSUME NEW r \in Run, RunStep(r) \/ StatementFails(r), ~Upsert(r) PROVE IInv'
    <3>1. /\ UNCHANGED <<tableVars, late>>
          /\ \A q \in Run, j \in Job : snap'[q].jobs[j] \in {snap[q].jobs[j], jobs[j], NoJob}
          /\ \A q \in Run : \A y \in hand'[q] : Copied(q, y)
      BY <2>7, StepCopies DEF RunStep
    <3> QED
      BY <3>1, RowsCopied DEF tableVars
  <2>8. ASSUME NEW r \in Run, Upsert(r) PROVE IInv'
    BY <2>8, StoreFits DEF Upsert
  <2>9. ASSUME NEW r \in Run, ScoreFails(r) PROVE IInv'
    BY <2>9, StoreFits DEF ScoreFails
  <2>10. CASE Restart
    <3>1. \A r \in Run, j \in Job : snap'[r].jobs[j] = NoJob
      BY <2>10 DEF Restart, NoSnap
    <3>2. UNCHANGED <<tableVars, late>> /\ \A r \in Run : hand'[r] = {}
      BY <2>10 DEF Restart
    <3> QED
      BY <3>1, <3>2, RowsCopied DEF tableVars
  <2>11. CASE UNCHANGED vars
    BY <2>1, <2>11 DEF vars, tableVars, runVars
  <2> HIDE DEF IInv
  <2> QED
    BY <2>2, <2>3, <2>4, <2>5, <2>6, <2>7, <2>8, <2>9, <2>10, <2>11 DEF Next
<1> QED
  BY <1>1, <1>2, AlwaysTyped, PTL DEF Spec

-----------------------------------------------------------------------------
(* Pages *)

\* Those of L that are at the places S.
PlacedIn(L, place, S) == {j \in L : place[j] \in S}

\* Of two in L one is before the other, and what is before it too; the place counts those
\* before, and itself.
Ranking(L, before, place) ==
    /\ before \in [L -> SUBSET L] /\ \A j \in L : j \notin before[j]
    /\ \A j \in L : \A i \in before[j] : before[i] \subseteq before[j]
    /\ \A i, j \in L : i = j \/ i \in before[j] \/ j \in before[i]
    /\ \A j \in L : place[j] = 1 + Cardinality(before[j])

\* The places number a finite set through: as many are at the places S as S has.
LEMMA Ranked ==
    ASSUME NEW L, IsFiniteSet(L), NEW before, NEW place, Ranking(L, before, place),
           NEW S, S \subseteq 1..Cardinality(L)
    PROVE  /\ \A j \in L : place[j] \in 1..Cardinality(L)
           /\ Cardinality(PlacedIn(L, place, S)) = Cardinality(S)
<1> DEFINE N == Cardinality(L)
           T == {j \in L : place[j] \in S}
           rank == [j \in L |-> place[j]]
           at == [j \in T |-> place[j]]
<1> USE DEF Ranking
<1>1. N \in Nat
    BY FS_CardinalityType
<1>2. ASSUME NEW j \in L
      PROVE  /\ IsFiniteSet(before[j]) /\ Cardinality(before[j]) \in Nat
             /\ place[j] = 1 + Cardinality(before[j]) /\ Cardinality(before[j]) < N
  <2>1. before[j] \in SUBSET L /\ before[j] # L
      OBVIOUS
  <2>2. IsFiniteSet(before[j]) /\ Cardinality(before[j]) <= N /\ Cardinality(before[j]) # N
      BY <2>1, FS_Subset
  <2>3. Cardinality(before[j]) \in Nat
      BY <2>2, FS_CardinalityType
  <2> QED
      BY <1>1, <2>2, <2>3
<1>3. ASSUME NEW j \in L, NEW i \in before[j]
      PROVE  Cardinality(before[i]) < Cardinality(before[j])
  <2>1. before[i] \in SUBSET before[j] /\ before[i] # before[j] /\ i \in L
      OBVIOUS
  <2>2. /\ Cardinality(before[i]) <= Cardinality(before[j])
        /\ Cardinality(before[i]) # Cardinality(before[j])
      BY <1>2, <2>1, FS_Subset
  <2> QED
      BY <1>2, <2>1, <2>2
<1>4. \A j \in L : place[j] \in 1..N
    BY <1>1, <1>2
<1>5. \A i, j \in L : place[i] = place[j] => i = j
  <2> SUFFICES ASSUME NEW i \in L, NEW j \in L, place[i] = place[j], i # j
               PROVE  FALSE
      OBVIOUS
  <2>1. Cardinality(before[i]) = Cardinality(before[j])
      BY <1>2
  <2> QED
      BY <1>2, <1>3, <2>1
<1>6. rank \in Injection(L, 1..N)
  <2>1. rank \in [L -> 1..N] /\ \A i, j \in L : rank[i] = rank[j] => i = j
      BY <1>4, <1>5
  <2> QED
      BY <2>1 DEF Injection, IsInjective
<1>7. rank \in Surjection(L, 1..N)
  <2>1. IsFiniteSet(1..N) /\ Cardinality(1..N) = N
      BY <1>1, FS_Interval
  <2> QED
      BY <1>6, <2>1, FS_Injection
<1>8. at \in Bijection(T, S)
  <2>1. at \in [T -> S] /\ \A i, j \in T : at[i] = at[j] => i = j
      BY <1>5
  <2>2. \A s \in S : \E j \in T : at[j] = s
    <3>1. \A k \in 1..N : \E j \in L : rank[j] = k
        BY <1>7 DEF Surjection
    <3> QED
        BY <3>1
  <2> HIDE DEF T, at
  <2> QED
      BY <2>1, <2>2 DEF Bijection, Surjection, Injection, IsInjective
<1>9. IsFiniteSet(T) /\ ExistsBijection(T, S)
  <2>1. T \in SUBSET L
      OBVIOUS
  <2> QED
      BY <1>8, <2>1, FS_Subset DEF ExistsBijection
<1>10. Cardinality(T) = Cardinality(S)
  <2> HIDE DEF T
  <2> QED
      BY <1>9, FS_Bijection
<1> QED
    BY <1>4, <1>10 DEF PlacedIn

\* So whatever is ranked is paged.
LEMMA RankedIsPaged ==
    ASSUME NEW L, IsFiniteSet(L), NEW before, NEW place, Ranking(L, before, place),
           NEW limit
    PROVE  Paged(L, place, limit)
<1> SUFFICES ASSUME NEW n \in 1..Cardinality(L)
             PROVE  Cardinality({j \in L : OnPage(place[j], n, limit)})
                        = Cardinality({k \in 1..Cardinality(L) : OnPage(k, n, limit)})
    BY DEF Paged
<1> DEFINE S == {k \in 1..Cardinality(L) : OnPage(k, n, limit)}
<1>1. S \subseteq 1..Cardinality(L) /\ \A k \in 1..Cardinality(L) : k \in S <=> OnPage(k, n, limit)
    OBVIOUS
<1> HIDE DEF S
<1>2. /\ \A j \in L : place[j] \in 1..Cardinality(L)
      /\ Cardinality(PlacedIn(L, place, S)) = Cardinality(S)
    BY <1>1, Ranked
<1>3. PlacedIn(L, place, S) = {j \in L : OnPage(place[j], n, limit)}
    BY <1>1, <1>2 DEF PlacedIn
<1> QED
    BY <1>2, <1>3 DEF S

\* A search lists each of its jobs on one page and leaves room on none but the last:
\* whatever its filters, however many jobs have the same score or were created at the same
\* time, for the id settles the order (db/match_score.rs:332-333, 454-455).
THEOREM PagesNeitherRepeatNorSkip == Spec => []PagesPartition
<1>1. TypeOK => PagesPartition
  <2> SUFFICES ASSUME TypeOK, NEW F \in SUBSET Job, NEW limit \in 1..Cardinality(Job)
               PROVE  /\ \A p \in Profile :
                             Paged(Listed(p, F), [j \in Listed(p, F) |-> Place(p, F, j)], limit)
                      /\ Paged(ListedAll(F), [j \in ListedAll(F) |-> PlaceAll(F, j)], limit)
      BY DEF PagesPartition
  <2>1. \A L \in SUBSET F : IsFiniteSet(L) /\ L \subseteq Nat
      BY MatchScoresAssumption, FS_Subset
  <2>2. ASSUME NEW p \in Profile
        PROVE  Paged(Listed(p, F), [j \in Listed(p, F) |-> Place(p, F, j)], limit)
    <3> DEFINE L == Listed(p, F)
               before == [j \in L |-> {i \in L : Ahead(p, i, j)}]
               place == [j \in L |-> Place(p, F, j)]
    <3>1. IsFiniteSet(L) /\ L \subseteq Nat
        BY <2>1 DEF Listed
    <3>2. PICK score : score = [j \in L |-> match[j, p].score]
        OBVIOUS
    <3>3. score \in [L -> 0..10]
      <4>1. ASSUME NEW j \in L
            PROVE  match[j, p] \in Match
          BY DEF Listed, TypeOK, Pair
      <4> QED
          BY <3>2, <4>1 DEF Match
    <3>4. \A i, j \in L : Ahead(p, i, j) <=> score[i] > score[j] \/ (score[i] = score[j] /\ i < j)
        BY <3>2 DEF Ahead
    <3>5. \A j \in L : place[j] = 1 + Cardinality(before[j])
        BY DEF Place
    <3> HIDE DEF L, place
    <3>6. /\ before \in [L -> SUBSET L] /\ \A j \in L : j \notin before[j]
          /\ \A j \in L : \A i \in before[j] : before[i] \subseteq before[j]
          /\ \A i, j \in L : i = j \/ i \in before[j] \/ j \in before[i]
      <4>1. before \in [L -> SUBSET L] /\ \A j \in L : j \notin before[j]
          BY <3>1, <3>3, <3>4
      <4>2. ASSUME NEW j \in L, NEW i \in before[j], NEW h \in before[i]
            PROVE  h \in before[j]
          BY <3>1, <3>3, <3>4, <4>2
      <4>3. ASSUME NEW i \in L, NEW j \in L
            PROVE  i = j \/ i \in before[j] \/ j \in before[i]
          BY <3>1, <3>3, <3>4, <4>3
      <4> QED
          BY <4>1, <4>2, <4>3
    <3> HIDE DEF before
    <3>7. Paged(L, place, limit)
      <4>1. Ranking(L, before, place)
          BY <3>5, <3>6 DEF Ranking
      <4> QED
          BY <3>1, <4>1, RankedIsPaged
    <3> QED
        BY <3>7 DEF L, place
  <2>3. Paged(ListedAll(F), [j \in ListedAll(F) |-> PlaceAll(F, j)], limit)
    <3> DEFINE L == ListedAll(F)
               before == [j \in L |-> {i \in L : \/ Created[i] > Created[j]
                                                 \/ Created[i] = Created[j] /\ i < j}]
               place == [j \in L |-> PlaceAll(F, j)]
    <3>1. IsFiniteSet(L) /\ L \subseteq Nat /\ \A j \in L : Created[j] \in Nat
        BY <2>1, MatchScoresAssumption DEF ListedAll
    <3>2. \A j \in L : place[j] = 1 + Cardinality(before[j])
        BY DEF PlaceAll
    <3> HIDE DEF L, place
    <3>3. /\ before \in [L -> SUBSET L] /\ \A j \in L : j \notin before[j]
          /\ \A j \in L : \A i \in before[j] : before[i] \subseteq before[j]
          /\ \A i, j \in L : i = j \/ i \in before[j] \/ j \in before[i]
      <4>1. before \in [L -> SUBSET L] /\ \A j \in L : j \notin before[j]
          BY <3>1
      <4>2. ASSUME NEW j \in L, NEW i \in before[j], NEW h \in before[i]
            PROVE  h \in before[j]
          BY <3>1, <4>2
      <4>3. ASSUME NEW i \in L, NEW j \in L
            PROVE  i = j \/ i \in before[j] \/ j \in before[i]
          BY <3>1, <4>3
      <4> QED
          BY <4>1, <4>2, <4>3
    <3> HIDE DEF before
    <3>4. Paged(L, place, limit)
      <4>1. Ranking(L, before, place)
          BY <3>2, <3>3 DEF Ranking
      <4> QED
          BY <3>1, <4>1, RankedIsPaged
    <3> QED
        BY <3>4 DEF L, place
  <2> QED
      BY <2>2, <2>3
<1> QED
    BY <1>1, TypeCorrect, PTL

-----------------------------------------------------------------------------
(* Coverage *)

\* Nothing a run has at hand has changed since it was read.
Fresh(r) ==
    /\ \A y \in hand[r] :
         /\ <<y.job, y.profile>> \in Stored
         /\ y.row = jobs[y.job] /\ y.text = profiles[y.profile]
    /\ batch[r] \cap Job # {} => snap[r].profiles = profiles
    /\ batch[r] \cap Profile # {} => snap[r].jobs = jobs

InHand(r, x) == \E y \in hand[r] : x = <<y.job, y.profile>>

\* A pair is up to date, or the run has it yet to score, or its last phase will find it
\* without a score.
Covered(r) ==
    \A x \in Stored : \/ Current(x) \/ x \in pairs[r] \/ InHand(r, x)
                      \/ pc[r] = "found" /\ match[x] = NoMatch

\* So it is with every run beside which nothing else happened.
Calm(r) == pc[r] # "idle" /\ Fresh(r) /\ Covered(r)

\* An idle run has nothing to do.
CalmInv ==
    /\ \A r \in Run : pc[r] = "idle" => pairs[r] = {} /\ Free(r)
    /\ \A r \in calm : Calm(r)

\* Runs that a step leaves alone, and the tables with them, stay calm.
LEMMA CalmFrame ==
    ASSUME NEW q \in Run, Calm(q), UNCHANGED <<jobs, profiles, match>>,
           UNCHANGED <<pc[q], pairs[q], batch[q], snap[q], hand[q]>>
    PROVE  Calm(q)'
<1>1. Stored' = Stored /\ (\A x \in Stored : Current(x) <=> Current(x)')
    BY DEF Stored, Current
<1>2. Fresh(q)'
    BY <1>1 DEF Calm, Fresh
<1>3. Covered(q)'
    BY <1>1 DEF Calm, Covered, InHand
<1> QED
    BY <1>2, <1>3 DEF Calm

\* A step of run r that changes no table: the other runs are as they were.
LEMMA RunFrame ==
    ASSUME Typed, CalmInv, NEW r \in Run, UNCHANGED <<jobs, profiles, match>>,
           \A q \in Run \ {r} : UNCHANGED <<pc[q], pairs[q], batch[q], snap[q], hand[q]>>,
           calm' \subseteq calm \cup {r},
           pc'[r] = "idle" => pairs'[r] = {} /\ hand'[r] = {} /\ batch'[r] = {},
           r \in calm' => Calm(r)'
    PROVE  CalmInv'
<1>1. ASSUME NEW q \in Run, q # r, pc'[q] = "idle"
      PROVE  pairs'[q] = {} /\ Free(q)'
    BY <1>1 DEF CalmInv, Free
<1>2. ASSUME NEW q \in Run, q # r, q \in calm'
      PROVE  Calm(q)'
    BY <1>2, CalmFrame DEF CalmInv
<1>3. calm' \subseteq Run
    BY RunsTyped
<1> QED
    BY <1>1, <1>2, <1>3 DEF CalmInv, Free

\* A run begins with what is stale at hand, and what has no score yet to be found.
LEMMA FindCalm ==
    ASSUME Typed, CalmInv, NEW r \in Run, Find(r)
    PROVE  CalmInv'
<1>1. /\ UNCHANGED <<jobs, profiles, match, batch, snap, hand>>
      /\ pc[r] = "idle" /\ pc' = [pc EXCEPT ![r] = "found"] /\ pc'[r] = "found"
      /\ pairs' = [pairs EXCEPT ![r] = StalePairs] /\ pairs'[r] = StalePairs
      /\ calm' = calm \cup {r}
    BY RunsTyped DEF Find, tableVars
<1>2. hand'[r] = {} /\ batch'[r] = {}
    BY <1>1 DEF CalmInv, Free
<1>3. Fresh(r)'
    BY <1>2 DEF Fresh
<1>4. Covered(r)'
    BY <1>1 DEF Covered, Stored, StalePairs, Current
<1>5. Calm(r)'
    BY <1>1, <1>3, <1>4 DEF Calm
<1>6. \A q \in Run \ {r} : UNCHANGED <<pc[q], pairs[q], batch[q], snap[q], hand[q]>>
    BY <1>1, RunsTyped
<1> QED
    BY <1>1, <1>5, <1>6, RunFrame

\* A pair that is read is in hand, as the tables hold it.
LEMMA ReadPairCalm ==
    ASSUME Typed, CalmInv, NEW r \in Run, ReadPair(r)
    PROVE  CalmInv'
<1>1. PICK x \in pairs[r] :
          /\ pairs' = [pairs EXCEPT ![r] = @ \ {x}]
          /\ hand' = [hand EXCEPT ![r] =
                 {y \in {[job |-> x[1], profile |-> x[2], row |-> jobs[x[1]],
                          text |-> profiles[x[2]]]} : y.text # 0}]
    BY DEF ReadPair
<1> DEFINE z == [job |-> x[1], profile |-> x[2], row |-> jobs[x[1]], text |-> profiles[x[2]]]
<1>2. /\ UNCHANGED <<jobs, profiles, match, pc, batch, snap, calm>>
      /\ hand[r] = {} /\ batch[r] = {}
    BY DEF ReadPair, tableVars, Free
<1>3. /\ x \in Pair /\ x[1] \in Job /\ x[2] \in Profile /\ x = <<x[1], x[2]>>
      /\ jobs[x[1]].text # 0
    BY RunsTyped DEF Pair, There
<1>4. /\ pairs'[r] = pairs[r] \ {x} /\ hand'[r] = {y \in {z} : y.text # 0}
      /\ \A q \in Run \ {r} : UNCHANGED <<pc[q], pairs[q], batch[q], snap[q], hand[q]>>
    BY <1>1, <1>2, RunsTyped
<1>5. pc[r] # "idle"
    BY DEF CalmInv
<1>6. ASSUME r \in calm
      PROVE  Calm(r)'
  <2>1. Stored' = Stored /\ \A w \in Stored : Current(w) <=> Current(w)'
      BY <1>2 DEF Stored, Current
  <2>2. Fresh(r)'
    <3>1. \A y \in hand'[r] : y = z /\ y.text # 0
        BY <1>4
    <3>2. profiles[x[2]] # 0 => x \in Stored
        BY <1>3 DEF Stored
    <3> QED
        BY <1>2, <1>3, <2>1, <3>1, <3>2 DEF Fresh
  <2>3. ASSUME NEW w \in Stored
        PROVE  \/ Current(w)' \/ w \in pairs'[r] \/ InHand(r, w)'
               \/ pc'[r] = "found" /\ match'[w] = NoMatch
    <3>1. CASE w = x
      <4>1. z \in hand'[r]
          BY <1>4, <2>3, <3>1 DEF Stored
      <4>2. w = <<z.job, z.profile>>
          BY <1>3, <3>1
      <4> QED
          BY <4>1, <4>2 DEF InHand
    <3>2. CASE w # x
        BY <1>2, <1>4, <1>6, <2>1, <3>2 DEF CalmInv, Calm, Covered, InHand
    <3> QED
        BY <3>1, <3>2
  <2>4. Covered(r)'
      BY <2>1, <2>3 DEF Covered
  <2> QED
      BY <1>2, <1>5, <2>2, <2>4 DEF Calm
<1> QED
    BY <1>2, <1>4, <1>5, <1>6, RunFrame

\* A run that takes up a batch, or reads one of it, finds no pair's score changed by that.
LEMMA CoveredKept ==
    ASSUME NEW r \in Run, Covered(r), hand[r] = {},
           UNCHANGED <<jobs, profiles, match, pc, pairs>>
    PROVE  Covered(r)'
<1>1. Stored' = Stored /\ \A x \in Stored : Current(x) <=> Current(x)'
    BY DEF Stored, Current
<1> QED
    BY <1>1 DEF Covered, InHand

\* A batch is read beside the rows it is to be scored with, as the table holds them.
LEMMA TakeCalm ==
    ASSUME Typed, CalmInv, NEW r \in Run, TakeJobs(r) \/ TakeProfiles(r)
    PROVE  CalmInv'
<1>1. /\ UNCHANGED <<jobs, profiles, match, pc, pairs, hand, calm>>
      /\ hand[r] = {} /\ pc[r] = "found"
      /\ newJobs[r] \subseteq Job /\ newProfiles[r] \subseteq Profile
    BY RunsTyped DEF TakeJobs, TakeProfiles, tableVars, Free, There
<1>2. \/ batch'[r] \subseteq Job /\ snap'[r].profiles = profiles
      \/ batch'[r] \subseteq Profile /\ snap'[r].jobs = jobs
  <2>1. CASE TakeJobs(r)
    <3>1. PICK B \in Chunks(newJobs[r]) :
              /\ batch' = [batch EXCEPT ![r] =
                     IF \E p \in Profile : profiles[p] # 0 THEN B ELSE {}]
              /\ snap' = [snap EXCEPT ![r].profiles = profiles]
        BY <2>1 DEF TakeJobs
    <3>2. B \subseteq Job
        BY <1>1 DEF Chunks
    <3>3. batch'[r] \subseteq Job
        BY <3>1, <3>2, RunsTyped
    <3>4. snap'[r].profiles = profiles
        BY <3>1, RunsTyped DEF Snap
    <3> QED
        BY <3>3, <3>4
  <2>2. CASE TakeProfiles(r)
    <3>1. PICK B \in Chunks(newProfiles[r]) :
              /\ batch' = [batch EXCEPT ![r] =
                     IF \E j \in Job : jobs[j].text # 0 THEN B ELSE {}]
              /\ snap' = [snap EXCEPT ![r].jobs = jobs]
        BY <2>2 DEF TakeProfiles
    <3>2. B \subseteq Profile
        BY <1>1 DEF Chunks
    <3>3. batch'[r] \subseteq Profile
        BY <3>1, <3>2, RunsTyped
    <3>4. snap'[r].jobs = jobs
        BY <3>1, RunsTyped DEF Snap
    <3> QED
        BY <3>3, <3>4
  <2> QED
      BY <2>1, <2>2
<1>3. \A q \in Run \ {r} : UNCHANGED <<pc[q], pairs[q], batch[q], snap[q], hand[q]>>
    BY <1>1, RunsTyped DEF TakeJobs, TakeProfiles
<1>4. Fresh(r)'
    BY <1>1, <1>2, MatchScoresAssumption DEF Fresh
<1>5. r \in calm => Calm(r)'
    BY <1>1, <1>4, CoveredKept DEF CalmInv, Calm
<1> QED
    BY <1>1, <1>3, <1>5, RunFrame

\* What is read of a batch is in hand as the tables hold it, for the tables have not
\* changed since the batch was taken up.
LEMMA ReadBatchCalm ==
    ASSUME Typed, CalmInv, NEW r \in Run, NEW b, b \in batch[r], hand[r] = {}, Taken(r, b),
           UNCHANGED <<jobs, profiles, match, pc, pairs, calm>>,
           NEW H, hand' = [hand EXCEPT ![r] = H],
           r \in calm => \A y \in H : /\ <<y.job, y.profile>> \in Stored
                                      /\ y.row = jobs[y.job] /\ y.text = profiles[y.profile]
    PROVE  CalmInv'
<1>1. hand'[r] = H /\ batch'[r] = batch[r] \ {b} /\ (snap'[r] = snap[r] \/ batch'[r] = {})
    BY RunsTyped DEF Taken
<1>2. pc[r] # "idle"
    BY DEF CalmInv, Free
<1>3. \A q \in Run \ {r} : UNCHANGED <<pc[q], pairs[q], batch[q], snap[q], hand[q]>>
    BY RunsTyped DEF Taken
<1>4. Stored' = Stored
    BY DEF Stored
<1>5. ASSUME r \in calm
      PROVE  Calm(r)'
  <2>1. Fresh(r)'
      BY <1>1, <1>4, <1>5 DEF CalmInv, Calm, Fresh
  <2>2. Covered(r)'
      BY <1>5, CoveredKept DEF CalmInv, Calm
  <2> QED
      BY <1>2, <2>1, <2>2 DEF Calm
<1> QED
    BY <1>2, <1>3, <1>5, RunFrame

\* A calm run that reads a job of its batch has its pairs in hand.
LEMMA ReadJobCalm ==
    ASSUME Typed, CalmInv, NEW r \in Run, NEW j \in Job, ReadJob(r, j)
    PROVE  CalmInv'
<1> DEFINE H == {y \in {[job |-> j, profile |-> p, row |-> jobs[j],
                         text |-> snap[r].profiles[p]] : p \in Profile} : y.text # 0}
<1>1. /\ j \in batch[r] /\ hand[r] = {} /\ Taken(r, j) /\ hand' = [hand EXCEPT ![r] = H]
      /\ UNCHANGED <<jobs, profiles, match, pc, pairs, calm>>
    BY DEF ReadJob, tableVars
<1>2. jobs[j].text # 0
  <2>1. batch[r] \subseteq There \cup Profile
      BY RunsTyped
  <2> QED
      BY <1>1, <2>1, MatchScoresAssumption DEF There
<1>3. ASSUME r \in calm, NEW y \in H
      PROVE  /\ <<y.job, y.profile>> \in Stored
             /\ y.row = jobs[y.job] /\ y.text = profiles[y.profile]
  <2>1. snap[r].profiles = profiles
      BY <1>1, <1>3 DEF CalmInv, Calm, Fresh
  <2>2. PICK p \in Profile : y = [job |-> j, profile |-> p, row |-> jobs[j],
                                  text |-> profiles[p]] /\ y.text # 0
      BY <2>1
  <2> QED
      BY <1>2, <2>2 DEF Stored, Pair
<1> HIDE DEF H
<1> QED
    BY <1>1, <1>3, ReadBatchCalm

\* And so has one that reads a profile.
LEMMA ReadProfileCalm ==
    ASSUME Typed, CalmInv, NEW r \in Run, NEW p \in Profile, ReadProfile(r, p)
    PROVE  CalmInv'
<1> DEFINE H == {y \in {[job |-> j, profile |-> p, row |-> snap[r].jobs[j],
                         text |-> profiles[p]] : j \in Job} : y.row.text # 0 /\ y.text # 0}
<1>1. /\ p \in batch[r] /\ hand[r] = {} /\ Taken(r, p) /\ hand' = [hand EXCEPT ![r] = H]
      /\ UNCHANGED <<jobs, profiles, match, pc, pairs, calm>>
    BY DEF ReadProfile, tableVars
<1>2. ASSUME r \in calm, NEW y \in H
      PROVE  /\ <<y.job, y.profile>> \in Stored
             /\ y.row = jobs[y.job] /\ y.text = profiles[y.profile]
  <2>1. snap[r].jobs = jobs
      BY <1>1, <1>2 DEF CalmInv, Calm, Fresh
  <2>2. PICK j \in Job : y = [job |-> j, profile |-> p, row |-> jobs[j],
                              text |-> profiles[p]] /\ y.row.text # 0 /\ y.text # 0
      BY <2>1
  <2> QED
      BY <2>2 DEF Stored, Pair
<1> HIDE DEF H
<1> QED
    BY <1>1, <1>2, ReadBatchCalm

\* The last phase finds what has no score.
LEMMA FetchCalm ==
    ASSUME Typed, CalmInv, NEW r \in Run, FetchMissing(r)
    PROVE  CalmInv'
<1>1. /\ UNCHANGED <<jobs, profiles, match, batch, snap, hand>>
      /\ pairs[r] = {} /\ hand[r] = {} /\ batch[r] = {}
      /\ pc' = [pc EXCEPT ![r] = "missing"] /\ pc'[r] = "missing"
      /\ \A q \in Run \ {r} : pairs'[q] = pairs[q]
      /\ calm' \subseteq calm
      /\ r \in calm' => r \in calm /\ pairs'[r] = MissingPairs
    BY RunsTyped DEF FetchMissing, tableVars, Free
<1>2. \A q \in Run \ {r} : UNCHANGED <<pc[q], pairs[q], batch[q], snap[q], hand[q]>>
    BY <1>1, RunsTyped
<1>3. ASSUME r \in calm'
      PROVE  Calm(r)'
  <2>1. Stored' = Stored /\ \A x \in Stored : Current(x) <=> Current(x)'
      BY <1>1 DEF Stored, Current
  <2>2. \A x \in Stored : Current(x) \/ x \in MissingPairs
      BY <1>1, <1>3 DEF CalmInv, Calm, Covered, InHand, MissingPairs
  <2>3. Covered(r)'
      BY <1>1, <1>3, <2>1, <2>2 DEF Covered
  <2>4. Fresh(r)'
      BY <1>1 DEF Fresh
  <2> QED
      BY <1>1, <2>3, <2>4 DEF Calm
<1> QED
    BY <1>1, <1>2, <1>3, RunFrame

\* A run that ends, or meets an error, is not calm.
LEMMA EndCalm ==
    ASSUME Typed, CalmInv, NEW r \in Run, Finish(r) \/ StatementFails(r)
    PROVE  CalmInv'
<1>1. UNCHANGED <<jobs, profiles, match>> /\ calm' = calm \ {r}
    BY DEF Finish, StatementFails, tableVars
<1>2. CASE Finish(r)
  <2>1. /\ \A q \in Run \ {r} : UNCHANGED <<pc[q], pairs[q], batch[q], snap[q], hand[q]>>
        /\ pairs'[r] = {} /\ hand'[r] = {} /\ batch'[r] = {}
      BY <1>2, RunsTyped DEF Finish, Free
  <2> QED
      BY <1>1, <2>1, RunFrame
<1>3. CASE StatementFails(r)
  <2>1. \/ pc'[r] = pc[r]
        \/ UNCHANGED <<pairs, batch, hand>> /\ pairs[r] = {} /\ hand[r] = {} /\ batch[r] = {}
      BY <1>3 DEF StatementFails, Free
  <2>2. \A q \in Run \ {r} : pc'[q] = pc[q]
      BY <1>3, RunsTyped DEF StatementFails
  <2>3. /\ \A q \in Run \ {r} : pairs'[q] = pairs[q]
        /\ pairs'[r] \subseteq pairs[r]
      BY <1>3, RunsTyped DEF StatementFails
  <2>4. /\ \A q \in Run \ {r} : UNCHANGED <<batch[q], snap[q]>>
        /\ batch'[r] \subseteq batch[r]
    <3>1. UNCHANGED <<batch, snap>> \/ \E b \in batch[r] : Taken(r, b)
        BY <1>3 DEF StatementFails
    <3> QED
        BY <3>1, RunsTyped DEF Taken
  <2>5. /\ \A q \in Run \ {r} : hand'[q] = hand[q]
        /\ hand'[r] \subseteq hand[r]
      BY <1>3, RunsTyped DEF StatementFails
  <2>6. pc'[r] = "idle" => pairs'[r] = {} /\ hand'[r] = {} /\ batch'[r] = {}
      BY <2>1, <2>3, <2>4, <2>5 DEF CalmInv, Free
  <2> QED
      BY <1>1, <2>2, <2>3, <2>4, <2>5, <2>6, RunFrame
<1> QED
    BY <1>2, <1>3

\* A score of what is in hand is up to date.
LEMMA UpsertCalm ==
    ASSUME Typed, CalmInv, NEW r \in Run, Upsert(r)
    PROVE  CalmInv'
<1>1. PICK y \in hand[r] : StoreScore(r, y, ScoreOf(y))
    BY DEF Upsert
<1> DEFINE x == <<y.job, y.profile>>
<1>2. /\ UNCHANGED <<jobs, profiles, pc, pairs, batch, snap>> /\ calm' = calm \cap {r}
      /\ hand' = [hand EXCEPT ![r] = @ \ {y}]
      /\ match' = IF profiles[y.profile] = 0 THEN match ELSE [match EXCEPT ![x] = ScoreOf(y)]
    BY <1>1 DEF StoreScore, Upsert
<1>3. /\ hand'[r] = hand[r] \ {y} /\ \A q \in Run \ {r} : hand'[q] = hand[q]
    BY <1>2, RunsTyped
<1>4. \A q \in Run : pc'[q] = "idle" => pairs'[q] = {} /\ Free(q)'
    BY <1>2, <1>3 DEF CalmInv, Free
<1>5. ASSUME r \in calm
      PROVE  Calm(r)'
  <2>1. x \in Stored /\ y.row = jobs[y.job] /\ y.text = profiles[y.profile]
      BY <1>5 DEF CalmInv, Calm, Fresh
  <2>2. match' = [match EXCEPT ![x] = ScoreOf(y)]
      BY <1>2, <2>1 DEF Stored
  <2>3. Stored' = Stored
      BY <1>2 DEF Stored
  <2>4. Current(x)'
    <3>1. ScoreOf(y) # NoMatch
        BY RunsTyped, ScoreTyped, NoMatchAssumption
    <3>2. ScoreOf(y).jobHash = jobs[x[1]].text /\ ScoreOf(y).profileHash = profiles[x[2]]
        BY <2>1 DEF ScoreOf
    <3>3. match'[x] = ScoreOf(y)
        BY <2>1, <2>2 DEF Typed, TypeOK, Stored
    <3> HIDE DEF x
    <3> QED
        BY <1>2, <3>1, <3>2, <3>3 DEF Current
  <2>5. ASSUME NEW w \in Stored
        PROVE  \/ Current(w)' \/ w \in pairs'[r] \/ InHand(r, w)'
               \/ pc'[r] = "found" /\ match'[w] = NoMatch
    <3>1. CASE w = x
        BY <2>4, <3>1
    <3>2. CASE w # x
      <4>1. match'[w] = match[w]
          BY <2>2, <3>2 DEF Typed, TypeOK, Stored
      <4>2. Current(w) => Current(w)'
          BY <1>2, <4>1 DEF Current
      <4>3. InHand(r, w) => InHand(r, w)'
          BY <1>3, <3>2 DEF InHand
      <4>4. \/ Current(w) \/ w \in pairs[r] \/ InHand(r, w)
            \/ pc[r] = "found" /\ match[w] = NoMatch
          BY <1>5 DEF CalmInv, Calm, Covered
      <4> QED
          BY <1>2, <4>1, <4>2, <4>3, <4>4
    <3> QED
        BY <3>1, <3>2
  <2>6. Covered(r)'
      BY <2>3, <2>5 DEF Covered
  <2>7. Fresh(r)'
      BY <1>2, <1>3, <1>5, <2>3 DEF CalmInv, Calm, Fresh
  <2> QED
      BY <1>2, <1>5, <2>6, <2>7 DEF CalmInv, Calm
<1> QED
    BY <1>2, <1>4, <1>5 DEF CalmInv

\* Every step keeps calm runs covered.
LEMMA CalmStep ==
    ASSUME Typed, CalmInv, [Next]_vars
    PROVE  CalmInv'
<1>1. ASSUME calm' = {}, \A r \in Run : /\ pc'[r] = pc[r] /\ pairs'[r] = pairs[r]
                                        /\ batch'[r] = batch[r] /\ hand'[r] \subseteq hand[r]
      PROVE  CalmInv'
    BY <1>1 DEF CalmInv, Free
<1>2. ASSUME NEW j \in Job, StoreJob(j) \/ EmbedJob(j) \/ EmbedLate(j)
      PROVE  CalmInv'
    BY <1>1, <1>2 DEF StoreJob, EmbedJob, EmbedLate, Change, runVars
<1>3. ASSUME NEW p \in Profile, StoreProfile(p) \/ DeleteProfile(p)
      PROVE  CalmInv'
    BY <1>1, <1>3 DEF StoreProfile, DeleteProfile, Change, runVars
<1>4. ASSUME NEW r \in Run, RunStep(r) \/ StatementFails(r)
      PROVE  CalmInv'
    BY <1>4, FindCalm, ReadPairCalm, TakeCalm, ReadJobCalm, ReadProfileCalm, FetchCalm,
       EndCalm, UpsertCalm DEF RunStep
<1>5. ASSUME NEW r \in Run, ScoreFails(r)
      PROVE  CalmInv'
  <2>1. PICK y \in hand[r] : StoreScore(r, y, ScoreOf([y EXCEPT !.row.emb = 0]))
      BY <1>5 DEF ScoreFails
  <2>2. calm' = {} /\ UNCHANGED <<pc, pairs, batch>> /\ \A q \in Run : hand'[q] \subseteq hand[q]
      BY <1>5, <2>1, RunsTyped DEF ScoreFails, StoreScore
  <2> QED
      BY <1>1, <2>2
<1>6. CASE Restart
    BY <1>6 DEF Restart, CalmInv, Free
<1>7. CASE UNCHANGED vars
  <2>1. UNCHANGED <<jobs, profiles, match, pc, pairs, batch, snap, hand, calm>>
      BY <1>7 DEF vars, tableVars, runVars
  <2>2. ASSUME NEW q \in calm'
        PROVE  Calm(q)'
    <3>1. q \in Run /\ Calm(q)
        BY <2>1, <2>2, RunsTyped DEF CalmInv
    <3> QED
        BY <2>1, <3>1, CalmFrame
  <2> QED
      BY <2>1, <2>2 DEF CalmInv, Free
<1> QED
    BY <1>2, <1>3, <1>4, <1>5, <1>6, <1>7 DEF Next

\* A run beside which nothing else happened, and whose last phase had room, leaves every
\* pair with a score under its current hashes: for every number of jobs, profiles and runs,
\* whatever the size of a batch (utils/match_score.rs:17-133, 277-331).
THEOREM CalmRunsCover == Spec => CalmRunCovers
<1>1. Init => CalmInv
    BY DEF Init, CalmInv, Free
<1>2. Typed /\ CalmInv /\ [Next]_vars => CalmInv'
    BY CalmStep
<1>3. Typed /\ CalmInv /\ [Next]_vars =>
          [\A r \in Run : pc[r] = "missing" /\ pc'[r] = "idle" /\ r \in calm
                              /\ troubles' = troubles => AllCurrent]_vars
  <2> SUFFICES ASSUME Typed, CalmInv, Next, NEW r \in Run, pc[r] = "missing", pc'[r] = "idle",
                      r \in calm, troubles' = troubles
               PROVE  AllCurrent
      OBVIOUS
  <2>1. ~Trouble
      BY RunsTyped DEF Trouble
  <2>2. Finish(r)
    <3>1. ASSUME NEW q \in Run, RunStep(q)
          PROVE  q = r /\ Finish(q)
      <4>1. CASE Upsert(q)
          BY <4>1 DEF Upsert, StoreScore
      <4>2. CASE ~Upsert(q)
          BY <3>1, <4>2, RunsTyped DEF RunStep, Find, ReadPair, TakeJobs, TakeProfiles, ReadJob,
             ReadProfile, FetchMissing, Finish
      <4> QED
          BY <4>1, <4>2
    <3>2. ASSUME \/ \E j \in Job : StoreJob(j) \/ EmbedJob(j) \/ EmbedLate(j)
                 \/ \E p \in Profile : StoreProfile(p) \/ DeleteProfile(p)
          PROVE  FALSE
        BY <3>2 DEF StoreJob, EmbedJob, EmbedLate, StoreProfile, DeleteProfile, Change, runVars
    <3>3. ASSUME Restart \/ \E q \in Run : ScoreFails(q) \/ StatementFails(q)
          PROVE  FALSE
        BY <2>1, <3>3 DEF Restart, ScoreFails, StatementFails
    <3> QED
        BY <3>1, <3>2, <3>3 DEF Next
  <2>3. pairs[r] = {} /\ hand[r] = {}
      BY <2>2 DEF Finish, Free
  <2> QED
      BY <2>3 DEF CalmInv, Calm, Covered, InHand, AllCurrent
<1> QED
    BY <1>1, <1>2, <1>3, AlwaysTyped, PTL DEF Spec, CalmRunCovers
=============================================================================
