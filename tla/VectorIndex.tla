---------------------------- MODULE VectorIndex ----------------------------
(***************************************************************************)
(* Job embeddings and the FAISS index that /search/top reads.              *)
(*                                                                         *)
(* A job's text is embedded by a task (utils/job.rs), the embedding        *)
(* written to the jobs table and the vector put into the index under a     *)
(* number, its label; two Redis keys lead from job to label and back       *)
(* (vector/faiss_service.rs). A deactivated job is taken out by the        *)
(* clean-up of a refresh, and an operator can rebuild everything from the  *)
(* table (vector/index_store.rs). The tasks run at once, one Redis or SQL  *)
(* command at a time; the index lives in memory and is saved to a file,    *)
(* which a restart loads.                                                  *)
(***************************************************************************)
EXTENDS Naturals, FiniteSets

CONSTANTS
    Job,          \* rows of the jobs table
    Task,         \* bound: tasks that run at the same time
    MaxId,        \* bound: labels handed out
    MaxText,      \* bound: changes of a text, those of all jobs together, plus one
    MaxTroubles,  \* bound: failing commands and restarts
    MaxRebuilds,  \* bound: rebuilds the operator asks for
    NoJob, NoVector

ASSUME VectorIndexAssumption ==
    /\ MaxId \in Nat /\ MaxText \in Nat \ {0}
    /\ MaxTroubles \in Nat /\ MaxRebuilds \in Nat
    /\ NoJob \notin Job /\ NoVector \notin [job : Job, text : 1..MaxText]

VARIABLES
    active,     \* jobs.is_active
    text,       \* the version of a job's text, which its hash tells apart
    emb,        \* jobs.embedding: the version it was computed from; 0: NULL
    jobToId,    \* Redis faiss:job_to_id:{job}; 0: no key
    idToJob,    \* Redis faiss:id_to_job:{id}
    nextId,     \* Redis faiss:next_id
    index,      \* the vector under each label, in memory
    file,       \* the index as last saved
    pc, kind,   \* where each task stands, and what it is
    job, vec,   \* the job a task works on, and the text version it embedded
    id,         \* the label a task was given
    rows,       \* (job, text) pairs a rebuild has yet to index
    troubles, rebuilds,   \* (bounds)
    \* History variables: no action reads them.
    hurt,       \* jobs the index need not be right about
    overtaken,  \* jobs whose text changed while it was embedded
    mixed,      \* a rebuild did not have the labels to itself
    oldFile     \* the file is older than the last rebuild

tableVars == <<active, text, emb>>
redisVars == <<jobToId, idToJob, nextId>>
taskVars  == <<pc, kind, job, vec, id, rows>>
boundVars == <<troubles, rebuilds>>
ghostVars == <<hurt, overtaken, mixed, oldFile>>

vars == <<tableVars, redisVars, index, file, taskVars, boundVars, ghostVars>>

Id     == 1..MaxId
Text   == 1..MaxText
Vector == [job : Job, text : Text]

Empty == [i \in Id |-> NoVector]

Step == {"idle", "write", "get", "incr", "setjob", "setid", "place", "save",
         "find", "unindex", "unmap", "clear", "swap", "rows", "next"}

TypeOK ==
    /\ active \subseteq Job
    /\ text \in [Job -> Text] /\ emb \in [Job -> Text \cup {0}]
    /\ jobToId \in [Job -> Id \cup {0}]
    /\ idToJob \in [Id -> Job \cup {NoJob}]
    /\ nextId \in 0..MaxId
    /\ index \in [Id -> Vector \cup {NoVector}]
    /\ file \in [Id -> Vector \cup {NoVector}]
    /\ pc \in [Task -> Step] /\ kind \in [Task -> {"embed", "remove", "rebuild"}]
    /\ job \in [Task -> Job \cup {NoJob}] /\ vec \in [Task -> Text \cup {0}]
    /\ id \in [Task -> Id \cup {0}] /\ rows \in [Task -> SUBSET Vector]
    /\ troubles \in 0..MaxTroubles /\ rebuilds \in 0..MaxRebuilds
    /\ hurt \subseteq Job /\ overtaken \subseteq Job
    /\ mixed \in BOOLEAN /\ oldFile \in BOOLEAN

\* The first refresh has stored the jobs; nothing is embedded yet.
Init ==
    /\ active = Job
    /\ text = [j \in Job |-> 1] /\ emb = [j \in Job |-> 0]
    /\ jobToId = [j \in Job |-> 0] /\ idToJob = [i \in Id |-> NoJob] /\ nextId = 0
    /\ index = Empty /\ file = Empty
    /\ pc = [t \in Task |-> "idle"] /\ kind = [t \in Task |-> "embed"]
    /\ job = [t \in Task |-> NoJob] /\ vec = [t \in Task |-> 0]
    /\ id = [t \in Task |-> 0] /\ rows = [t \in Task |-> {}]
    /\ troubles = 0 /\ rebuilds = 0
    /\ hurt = {} /\ overtaken = {} /\ mixed = FALSE /\ oldFile = FALSE

-----------------------------------------------------------------------------
\* A task that may still touch labels or vectors; saving touches neither.
Busy(t)    == pc[t] \notin {"idle", "save"}
BusyOn(j)  == {t \in Task : Busy(t) /\ kind[t] # "rebuild" /\ job[t] = j}
Rebuilding == {t \in Task : Busy(t) /\ kind[t] = "rebuild"}

\* The vectors of j in an index, and the labels under which a search finds j.
Labels(ix, j) == {i \in Id : ix[i] # NoVector /\ ix[i].job = j}
Hits(j)       == {i \in Id : index[i] # NoVector /\ idToJob[i] = j}

Goto(t, from, to) ==
    /\ pc[t] = from
    /\ pc' = [pc EXCEPT ![t] = to]

\* A task begins: job j is disturbed by another task for it, and every job by a
\* rebuild at the same time.
Begin(t, k, at, j) ==
    /\ Goto(t, "idle", at)
    /\ kind' = [kind EXCEPT ![t] = k]
    /\ job' = [job EXCEPT ![t] = j]
    /\ hurt' = IF Rebuilding # {} THEN Job
               ELSE IF BusyOn(j) # {} THEN hurt \cup {j} ELSE hurt
    /\ mixed' = (mixed \/ Rebuilding # {})

\* An idle task keeps nothing.
Rest(t) ==
    /\ kind' = [kind EXCEPT ![t] = "embed"] /\ job' = [job EXCEPT ![t] = NoJob]
    /\ vec' = [vec EXCEPT ![t] = 0] /\ id' = [id EXCEPT ![t] = 0]
    /\ rows' = [rows EXCEPT ![t] = {}]

Trouble ==
    /\ troubles < MaxTroubles
    /\ troubles' = troubles + 1
    /\ UNCHANGED rebuilds

-----------------------------------------------------------------------------
(* The refresh *)

\* Mutant: the embedding outlives the text it was computed from.
StoreJobKeepsEmbedding(j, changed) ==
    /\ changed \/ j \notin active
    /\ changed => \A k \in Job : text[k] < MaxText
    /\ active' = active \cup {j}
    /\ text' = IF changed THEN [text EXCEPT ![j] = @ + 1] ELSE text
    /\ hurt' = hurt \cup (IF ~changed /\ emb[j] # 0 THEN {j} ELSE {})
    /\ UNCHANGED <<emb, redisVars, index, file, taskVars, boundVars, overtaken, mixed, oldFile>>

\* store_jobs: the row is active, and a text with another hash sets its embedding
\* to NULL. A job that comes back as it was keeps its embedding.
StoreJob(j, changed) ==
    /\ changed \/ j \notin active
    /\ changed => \A k \in Job : text[k] < MaxText
    /\ active' = active \cup {j}
    /\ text' = IF changed THEN [text EXCEPT ![j] = @ + 1] ELSE text
    /\ emb' = IF changed THEN [emb EXCEPT ![j] = 0] ELSE emb
    /\ hurt' = hurt \cup (IF ~changed /\ emb[j] # 0 THEN {j} ELSE {})
    /\ overtaken' = IF ~changed THEN overtaken
                    ELSE IF \E t \in BusyOn(j) : pc[t] = "write" THEN overtaken \cup {j}
                    ELSE overtaken \ {j}
    /\ UNCHANGED <<redisVars, index, file, taskVars, boundVars, mixed, oldFile>>

\* deactivate_stale_jobs, and the handler is about to remove the vector.
Deactivate(t, j) ==
    /\ j \in active
    /\ active' = active \ {j}
    /\ Begin(t, "remove", "find", j)
    /\ UNCHANGED <<text, emb, redisVars, index, file, vec, id, rows, boundVars,
                   overtaken, oldFile>>

-----------------------------------------------------------------------------
(* update_embeddings_for_bpp *)

\* The row is read as pending, and its text embedded.
Embed(t, j) ==
    /\ j \in active /\ emb[j] = 0
    /\ Begin(t, "embed", "write", j)
    /\ vec' = [vec EXCEPT ![t] = text[j]]
    /\ UNCHANGED <<tableVars, redisVars, index, file, id, rows, boundVars,
                   overtaken, oldFile>>

\* batch_update_job_embeddings: by id, whatever the row holds by now.
WriteEmbedding(t) ==
    /\ Goto(t, "write", "get")
    /\ emb' = [emb EXCEPT ![job[t]] = vec[t]]
    /\ UNCHANGED <<active, text, redisVars, index, file, kind, job, vec, id, rows,
                   boundVars, ghostVars>>

-----------------------------------------------------------------------------
(* FaissService::upsert *)

\* Mutant: the label of the job is not looked up.
GetIdNever(t) ==
    /\ Goto(t, "get", "incr")
    /\ UNCHANGED <<tableVars, redisVars, index, file, kind, job, vec, id, rows, boundVars,
                   ghostVars>>

\* Mutant: remove_ids comes with a lock of its own, before add_with_ids.
GetIdRemoves(t) ==
    /\ Goto(t, "get", IF jobToId[job[t]] # 0 THEN "place" ELSE "incr")
    /\ id' = [id EXCEPT ![t] = jobToId[job[t]]]
    /\ index' = [i \in Id |-> IF i = jobToId[job[t]] THEN NoVector ELSE index[i]]
    /\ UNCHANGED <<tableVars, redisVars, file, kind, job, vec, rows, boundVars, ghostVars>>

\* GET job_to_id; without one, get_or_create_faiss_id asks again: the second
\* answer counts.
GetId(t) ==
    /\ Goto(t, "get", IF jobToId[job[t]] # 0 THEN "place" ELSE "incr")
    /\ id' = [id EXCEPT ![t] = jobToId[job[t]]]
    /\ UNCHANGED <<tableVars, redisVars, index, file, kind, job, vec, rows, boundVars,
                   ghostVars>>

\* INCR next_id.
Incr(t) ==
    /\ Goto(t, "incr", "setjob")
    /\ nextId < MaxId
    /\ nextId' = nextId + 1
    /\ id' = [id EXCEPT ![t] = nextId + 1]
    /\ UNCHANGED <<tableVars, jobToId, idToJob, index, file, kind, job, vec, rows,
                   boundVars, ghostVars>>

SetJob(t) ==
    /\ Goto(t, "setjob", "setid")
    /\ jobToId' = [jobToId EXCEPT ![job[t]] = id[t]]
    /\ UNCHANGED <<tableVars, idToJob, nextId, index, file, kind, job, vec, id, rows,
                   boundVars, ghostVars>>

SetId(t) ==
    /\ Goto(t, "setid", "place")
    /\ idToJob' = [idToJob EXCEPT ![id[t]] = job[t]]
    /\ UNCHANGED <<tableVars, jobToId, nextId, index, file, kind, job, vec, id, rows,
                   boundVars, ghostVars>>

\* What follows an upsert, done or failed.
AfterUpsert(t) == IF kind[t] = "rebuild" THEN "next" ELSE "save"

\* Under the mutex: remove_ids and add_with_ids.
Place(t) ==
    /\ Goto(t, "place", AfterUpsert(t))
    /\ index' = [index EXCEPT ![id[t]] = [job |-> job[t], text |-> vec[t]]]
    /\ UNCHANGED <<tableVars, redisVars, file, kind, job, vec, id, rows, boundVars,
                   ghostVars>>

-----------------------------------------------------------------------------
(* FaissService::remove *)

Find(t) ==
    /\ Goto(t, "find", IF jobToId[job[t]] # 0 THEN "unindex" ELSE "save")
    /\ id' = [id EXCEPT ![t] = jobToId[job[t]]]
    /\ UNCHANGED <<tableVars, redisVars, index, file, kind, job, vec, rows, boundVars,
                   ghostVars>>

\* Mutant: remove_ids fails, and its result is not looked at.
UnindexNothing(t) ==
    /\ Goto(t, "unindex", "unmap")
    /\ UNCHANGED <<tableVars, redisVars, index, file, kind, job, vec, id, rows, boundVars,
                   ghostVars>>

\* Under the mutex: remove_ids.
Unindex(t) ==
    /\ Goto(t, "unindex", "unmap")
    /\ index' = [index EXCEPT ![id[t]] = NoVector]
    /\ UNCHANGED <<tableVars, redisVars, file, kind, job, vec, id, rows, boundVars,
                   ghostVars>>

\* DEL of both keys, one command.
Unmap(t) ==
    /\ Goto(t, "unmap", "save")
    /\ jobToId' = [jobToId EXCEPT ![job[t]] = 0]
    /\ idToJob' = [idToJob EXCEPT ![id[t]] = NoJob]
    /\ UNCHANGED <<tableVars, nextId, index, file, kind, job, vec, id, rows, boundVars,
                   ghostVars>>

\* save_faiss, under the mutex.
Save(t) ==
    /\ Goto(t, "save", "idle")
    /\ Rest(t)
    /\ file' = index
    /\ oldFile' = FALSE
    /\ UNCHANGED <<tableVars, redisVars, index, boundVars, hurt, overtaken, mixed>>

-----------------------------------------------------------------------------
(* rebuild_faiss_from_db *)

\* A rebuild that has the service to itself and meets no error puts right whatever
\* went wrong before it.
Rebuild(t) ==
    /\ rebuilds < MaxRebuilds
    /\ rebuilds' = rebuilds + 1
    /\ Goto(t, "idle", "clear")
    /\ kind' = [kind EXCEPT ![t] = "rebuild"]
    /\ LET alone == \A u \in Task : ~Busy(u) IN
         /\ hurt' = IF alone THEN {} ELSE Job
         /\ mixed' = (mixed \/ ~alone)
    /\ UNCHANGED <<tableVars, redisVars, index, file, job, vec, id, rows, troubles,
                   overtaken, oldFile>>

\* The labels start again from one, for this rebuild alone or for others as well.
StartAgain(t) ==
    /\ nextId' = 0
    /\ mixed' = \E u \in Task \ {t} : Busy(u)
    /\ UNCHANGED <<hurt, overtaken, oldFile>>

\* Mutant: only the counter is deleted.
ClearCounter(t) ==
    /\ Goto(t, "clear", "swap")
    /\ StartAgain(t)
    /\ UNCHANGED <<tableVars, jobToId, idToJob, index, file, kind, job, vec, id, rows,
                   boundVars>>

\* SCAN and DEL of faiss:*, the counter with the labels.
Clear(t) ==
    /\ Goto(t, "clear", "swap")
    /\ jobToId' = [j \in Job |-> 0] /\ idToJob' = [i \in Id |-> NoJob]
    /\ StartAgain(t)
    /\ UNCHANGED <<tableVars, index, file, kind, job, vec, id, rows, boundVars>>

\* Mutant: the old index stays.
SwapNothing(t) ==
    /\ Goto(t, "swap", "rows")
    /\ oldFile' = TRUE
    /\ UNCHANGED <<tableVars, redisVars, index, file, kind, job, vec, id, rows, boundVars,
                   hurt, overtaken, mixed>>

\* A fresh index takes the old one's place, under the mutex.
Swap(t) ==
    /\ Goto(t, "swap", "rows")
    /\ index' = Empty
    /\ oldFile' = TRUE
    /\ UNCHANGED <<tableVars, redisVars, file, kind, job, vec, id, rows, boundVars,
                   hurt, overtaken, mixed>>

\* Mutant: rows whose embedding is NULL are read too.
ReadRowsPending(t) ==
    /\ Goto(t, "rows", "next")
    /\ rows' = [rows EXCEPT ![t] = {[job |-> j, text |-> emb[j]] : j \in active}]
    /\ UNCHANGED <<tableVars, redisVars, index, file, kind, job, vec, id, boundVars,
                   ghostVars>>

\* stream_active_jobs_with_embeddings: the rows as they are when it starts.
ReadRows(t) ==
    /\ Goto(t, "rows", "next")
    /\ rows' = [rows EXCEPT ![t] =
                  {[job |-> j, text |-> emb[j]] : j \in {k \in active : emb[k] # 0}}]
    /\ UNCHANGED <<tableVars, redisVars, index, file, kind, job, vec, id, boundVars,
                   ghostVars>>

\* Mutant: the stream is not read on.
NextRowOnly(t, r) ==
    /\ r \in rows[t]
    /\ Goto(t, "next", "get")
    /\ rows' = [rows EXCEPT ![t] = {}]
    /\ job' = [job EXCEPT ![t] = r.job] /\ vec' = [vec EXCEPT ![t] = r.text]
    /\ UNCHANGED <<tableVars, redisVars, index, file, kind, id, boundVars, ghostVars>>

NextRow(t, r) ==
    /\ r \in rows[t]
    /\ Goto(t, "next", "get")
    /\ rows' = [rows EXCEPT ![t] = @ \ {r}]
    /\ job' = [job EXCEPT ![t] = r.job] /\ vec' = [vec EXCEPT ![t] = r.text]
    /\ UNCHANGED <<tableVars, redisVars, index, file, kind, id, boundVars, ghostVars>>

RowsDone(t) ==
    /\ rows[t] = {}
    /\ Goto(t, "next", "save")
    /\ UNCHANGED <<tableVars, redisVars, index, file, kind, job, vec, id, rows, boundVars,
                   ghostVars>>

-----------------------------------------------------------------------------
(* Failing commands and restarts *)

\* A command of an upsert or of a removal fails: it is logged, and the task goes on
\* with the next row or saves. A failing add_with_ids comes after remove_ids.
CommandFails(t) ==
    /\ Trouble
    /\ \/ pc[t] = "write" /\ hurt' = hurt
       \/ pc[t] \in {"get", "incr", "setjob", "setid", "place", "find", "unindex", "unmap"}
          /\ hurt' = hurt \cup {job[t]}
    /\ pc' = [pc EXCEPT ![t] = AfterUpsert(t)]
    /\ index' = IF pc[t] = "place" THEN [index EXCEPT ![id[t]] = NoVector] ELSE index
    /\ UNCHANGED <<tableVars, redisVars, file, kind, job, vec, id, rows, overtaken, mixed,
                   oldFile>>

\* write_index fails, and may leave a file that cannot be read.
SaveFails(t) ==
    /\ Trouble
    /\ Goto(t, "save", "idle")
    /\ Rest(t)
    /\ file' \in {file, Empty}
    /\ UNCHANGED <<tableVars, redisVars, index, ghostVars>>

\* Any other command of a rebuild fails and ends it: some of the keys may be gone
\* by then, and nothing is saved.
RebuildFails(t) ==
    /\ Trouble
    /\ pc[t] \in {"clear", "swap", "rows", "next"}
    /\ pc' = [pc EXCEPT ![t] = "idle"]
    /\ Rest(t)
    /\ \/ /\ pc[t] = "clear"
          /\ \E lost \in SUBSET Job, gone \in SUBSET Id, n \in {0, nextId} :
               /\ jobToId' = [j \in Job |-> IF j \in lost THEN 0 ELSE jobToId[j]]
               /\ idToJob' = [i \in Id |-> IF i \in gone THEN NoJob ELSE idToJob[i]]
               /\ nextId' = n
       \/ pc[t] # "clear" /\ UNCHANGED redisVars
    /\ hurt' = Job
    /\ mixed' = (mixed \/ pc[t] \in {"clear", "swap"})
    /\ UNCHANGED <<tableVars, index, file, overtaken, oldFile>>

\* The service stops, perhaps while it writes the file, and load_faiss takes what is
\* there; Redis and the tables stay. What was not saved is lost.
Restart(torn) ==
    LET ix == IF torn THEN Empty ELSE file IN
    /\ Trouble
    /\ torn => \E t \in Task : pc[t] = "save"
    /\ index' = ix /\ file' = ix
    /\ pc' = [t \in Task |-> "idle"] /\ kind' = [t \in Task |-> "embed"]
    /\ job' = [t \in Task |-> NoJob] /\ vec' = [t \in Task |-> 0]
    /\ id' = [t \in Task |-> 0] /\ rows' = [t \in Task |-> {}]
    /\ LET lost == {j \in Job : \/ BusyOn(j) # {}
                                \/ \E i \in Labels(ix, j) \cup Labels(index, j) :
                                     ix[i] # index[i]}
           astray == oldFile \/ Rebuilding # {}
       IN  /\ hurt' = IF astray THEN Job ELSE hurt \cup lost
           /\ mixed' = (mixed \/ astray)
    /\ UNCHANGED <<tableVars, redisVars, overtaken, oldFile>>

-----------------------------------------------------------------------------
Next ==
    \/ \E j \in Job, changed \in BOOLEAN : StoreJob(j, changed)
    \/ \E t \in Task, j \in Job : Deactivate(t, j) \/ Embed(t, j)
    \/ \E t \in Task :
         \/ WriteEmbedding(t)
         \/ GetId(t) \/ Incr(t) \/ SetJob(t) \/ SetId(t) \/ Place(t)
         \/ Find(t) \/ Unindex(t) \/ Unmap(t)
         \/ Save(t)
         \/ Rebuild(t) \/ Clear(t) \/ Swap(t) \/ ReadRows(t) \/ RowsDone(t)
         \/ CommandFails(t) \/ SaveFails(t) \/ RebuildFails(t)
    \/ \E t \in Task : \E r \in rows[t] : NextRow(t, r)
    \/ \E torn \in BOOLEAN : Restart(torn)

Spec == Init /\ [][Next]_vars

-----------------------------------------------------------------------------
(* Properties *)

\* No work is under way that may still move a label or a vector of j.
Quiet(j) == BusyOn(j) = {} /\ Rebuilding = {}

\* The job a label leads to is the job its vector was made from (get_or_create_faiss_id
\* and search): /search/top scores the job it found. It can fail only by a rebuild that
\* did not have the labels to itself, or by a restart onto a file from before one.
LabelsLead ==
    ~mixed => \A i \in Id :
        index[i] # NoVector /\ idToJob[i] # NoJob => index[i].job = idToJob[i]

\* An active job with an embedding is found, once, and by that embedding, when its
\* upserts and removals came one after another and without error (FaissService::upsert);
\* an undisturbed rebuild makes up for those that did not, and a restart loses no more
\* than what was not saved.
SearchComplete ==
    \A j \in active \ hurt : emb[j] # 0 /\ Quiet(j) =>
        \E i \in Id : Hits(j) = {i} /\ index[i] = [job |-> j, text |-> emb[j]]

\* A job that a search finds stays under its one label while it is embedded again, while
\* labels are given to others, and over a restart: the old vector goes and the new one
\* comes under one lock (FaissService::upsert), and a label that was read from the index
\* still leads to its job when its key is read after (search). Only a removal of the job, a
\* rebuild, or what hurts it ends that.
SearchSteady ==
    [][\A j \in (active \cap active') \ (hurt \cup hurt') :
          Rebuilding = {} /\ (\A t \in BusyOn(j) : kind[t] # "remove") /\ Hits(j) # {}
              => Hits(j)' = Hits(j) /\ \E i \in Id : Hits(j) = {i}]_vars

\* A job that is not active is in nobody's answer (FaissService::remove): the search
\* itself does not look at is_active.
SearchClean ==
    \A j \in Job \ (active \cup hurt) : Quiet(j) => Hits(j) = {} /\ Labels(index, j) = {}

\* The embedding of a row is of its text, or will be computed again, unless the text
\* changed between the read and the write of update_embeddings_for_bpp.
EmbeddingCurrent ==
    \A j \in Job : emb[j] \in {0, text[j]} \/ j \in overtaken

\* Violated: every active job that is not pending can be found, once all is quiet.
ActiveJobsFindable ==
    (\A t \in Task : pc[t] = "idle") =>
        \A j \in active : emb[j] # 0 => Hits(j) # {}
=============================================================================
