------------------------- MODULE VectorIndexProofs -------------------------
(***************************************************************************)
(* For every number of jobs, tasks and labels, and whatever fails: a label *)
(* leads to the job its vector was made from, but for rebuilds that are    *)
(* not alone and files from before a rebuild; a row's embedding is of its  *)
(* text; and a search finds each active job once, and no other job.        *)
(*                                                                         *)
(* A label is tied to a job in five places: the two Redis keys, the index, *)
(* its file, and a task that is about to use it.  The argument is that all *)
(* of them name one job (OneOwner), because a new label is one that        *)
(* nothing is tied to (CountedOut), and because a rebuild starts the       *)
(* numbers again only when no task holds a label from before (Alone).      *)
(*                                                                         *)
(* That makes a job's labels its own affair: what other tasks do leaves    *)
(* them untouched (LabelsApart).  As long as the job's own tasks come one  *)
(* after the other (InTurn), the labels stand as far as the task has come  *)
(* (UpsertPhase, RemovePhase, RebuildPhase), and between tasks the job is  *)
(* under one label or under none (Settled).                                *)
(***************************************************************************)
EXTENDS VectorIndex, TLAPS

\* The steps at which a task holds a label it will use.
Holding == {"setjob", "setid", "place", "unindex", "unmap"}

\* What each step has been given, and whose it is.
TaskOK ==
    \A t \in Task :
        /\ pc[t] \in {"write", "get", "incr", "setjob", "setid", "place"} =>
             job[t] \in Job /\ vec[t] \in Text
        /\ pc[t] \in {"find", "unindex", "unmap"} => job[t] \in Job
        /\ pc[t] \in Holding => id[t] \in Id
        /\ pc[t] \in {"clear", "swap", "rows", "next"} => kind[t] = "rebuild"

\* A rebuild that has mixed nothing up is the only busy task.
Alone ==
    ~mixed => \A t, u \in Task : Busy(t) /\ kind[t] = "rebuild" /\ Busy(u) => u = t

Swapping == \E t \in Task : pc[t] = "swap"

\* Between the deletion of the labels and the new index, no label leads anywhere.
SwapEmpty == ~mixed /\ Swapping => \A i \in Id : idToJob[i] = NoJob

\* All that ties a label to a job. The old index, and a file of it, do not count once
\* the labels are deleted.
Claims(i, j) ==
    \/ jobToId[j] = i
    \/ idToJob[i] = j
    \/ \E t \in Task : pc[t] \in Holding /\ id[t] = i /\ job[t] = j
    \/ ~Swapping /\ index[i] # NoVector /\ index[i].job = j
    \/ ~Swapping /\ ~oldFile /\ file[i] # NoVector /\ file[i].job = j

OneOwner == ~mixed => \A i \in Id, j, k \in Job : Claims(i, j) /\ Claims(i, k) => j = k

CountedOut == ~mixed => \A i \in Id, j \in Job : Claims(i, j) => i <= nextId

Inv == TypeOK /\ TaskOK /\ Alone /\ SwapEmpty /\ OneOwner /\ CountedOut

\* Every step keeps the types, and gives a task what its next step needs.
LEMMA TypeStep ==
    ASSUME TypeOK, TaskOK, [Next]_vars
    PROVE  TypeOK' /\ TaskOK'
<1>. USE DEF Goto, tableVars, redisVars, taskVars, boundVars, ghostVars
<1>1. ASSUME NEW j \in Job, NEW c \in BOOLEAN, StoreJob(j, c)
      PROVE  TypeOK' /\ TaskOK'
  <2>1. text' \in [Job -> Text] /\ emb' \in [Job -> Text \cup {0}]
    BY <1>1, VectorIndexAssumption DEF StoreJob, TypeOK, Text
  <2>2. TypeOK'
    BY <1>1, <2>1 DEF StoreJob, TypeOK, TaskOK, Holding, Step
  <2>3. TaskOK'
    BY <1>1 DEF StoreJob, TypeOK, TaskOK, Holding
  <2>. QED
    BY <2>2, <2>3
<1>2. ASSUME NEW t \in Task, NEW j \in Job, Deactivate(t, j)
      PROVE  TypeOK' /\ TaskOK'
  <2>1. TypeOK'
    BY <1>2 DEF Deactivate, Begin, TypeOK, TaskOK, Holding, Step
  <2>2. TaskOK'
    BY <1>2 DEF Deactivate, Begin, TypeOK, TaskOK, Holding
  <2>. QED
    BY <2>1, <2>2
<1>3. ASSUME NEW t \in Task, NEW j \in Job, Embed(t, j)
      PROVE  TypeOK' /\ TaskOK'
  <2>1. TypeOK'
    BY <1>3 DEF Embed, Begin, TypeOK, TaskOK, Holding, Step
  <2>2. TaskOK'
    BY <1>3 DEF Embed, Begin, TypeOK, TaskOK, Holding
  <2>. QED
    BY <2>1, <2>2
<1>4. ASSUME NEW t \in Task, WriteEmbedding(t)
      PROVE  TypeOK' /\ TaskOK'
  <2>1. TypeOK'
    BY <1>4 DEF WriteEmbedding, TypeOK, TaskOK, Holding, Step
  <2>2. TaskOK'
    BY <1>4 DEF WriteEmbedding, TypeOK, TaskOK, Holding
  <2>. QED
    BY <2>1, <2>2
<1>5. ASSUME NEW t \in Task, GetId(t)
      PROVE  TypeOK' /\ TaskOK'
  <2>1. TypeOK'
    BY <1>5 DEF GetId, TypeOK, TaskOK, Holding, Step
  <2>2. TaskOK'
    BY <1>5 DEF GetId, TypeOK, TaskOK, Holding
  <2>. QED
    BY <2>1, <2>2
<1>6. ASSUME NEW t \in Task, Incr(t)
      PROVE  TypeOK' /\ TaskOK'
  <2>1. nextId' \in 0..MaxId /\ nextId' \in Id
    BY <1>6, VectorIndexAssumption DEF Incr, TypeOK, Id
  <2>2. id' \in [Task -> Id \cup {0}]
    BY <1>6, <2>1 DEF Incr, TypeOK
  <2>3. TypeOK'
    BY <1>6, <2>1, <2>2 DEF Incr, TypeOK, TaskOK, Holding, Step
  <2>4. TaskOK'
    BY <1>6, <2>1 DEF Incr, TypeOK, TaskOK, Holding
  <2>. QED
    BY <2>3, <2>4
<1>7. ASSUME NEW t \in Task, SetJob(t)
      PROVE  TypeOK' /\ TaskOK'
  <2>1. TypeOK'
    BY <1>7 DEF SetJob, TypeOK, TaskOK, Holding, Step
  <2>2. TaskOK'
    BY <1>7 DEF SetJob, TypeOK, TaskOK, Holding
  <2>. QED
    BY <2>1, <2>2
<1>8. ASSUME NEW t \in Task, SetId(t)
      PROVE  TypeOK' /\ TaskOK'
  <2>1. TypeOK'
    BY <1>8 DEF SetId, TypeOK, TaskOK, Holding, Step
  <2>2. TaskOK'
    BY <1>8 DEF SetId, TypeOK, TaskOK, Holding
  <2>. QED
    BY <2>1, <2>2
<1>9. ASSUME NEW t \in Task, Place(t)
      PROVE  TypeOK' /\ TaskOK'
  <2>1. index' \in [Id -> Vector \cup {NoVector}]
    BY <1>9 DEF Place, TypeOK, TaskOK, Vector
  <2>2. TypeOK'
    BY <1>9, <2>1 DEF Place, AfterUpsert, TypeOK, TaskOK, Holding, Step
  <2>3. TaskOK'
    BY <1>9 DEF Place, AfterUpsert, TypeOK, TaskOK, Holding
  <2>. QED
    BY <2>2, <2>3
<1>10. ASSUME NEW t \in Task, Find(t)
      PROVE  TypeOK' /\ TaskOK'
  <2>1. TypeOK'
    BY <1>10 DEF Find, TypeOK, TaskOK, Holding, Step
  <2>2. TaskOK'
    BY <1>10 DEF Find, TypeOK, TaskOK, Holding
  <2>. QED
    BY <2>1, <2>2
<1>11. ASSUME NEW t \in Task, Unindex(t)
      PROVE  TypeOK' /\ TaskOK'
  <2>1. TypeOK'
    BY <1>11 DEF Unindex, TypeOK, TaskOK, Holding, Step
  <2>2. TaskOK'
    BY <1>11 DEF Unindex, TypeOK, TaskOK, Holding
  <2>. QED
    BY <2>1, <2>2
<1>12. ASSUME NEW t \in Task, Unmap(t)
      PROVE  TypeOK' /\ TaskOK'
  <2>1. TypeOK'
    BY <1>12 DEF Unmap, TypeOK, TaskOK, Holding, Step
  <2>2. TaskOK'
    BY <1>12 DEF Unmap, TypeOK, TaskOK, Holding
  <2>. QED
    BY <2>1, <2>2
<1>13. ASSUME NEW t \in Task, Save(t)
      PROVE  TypeOK' /\ TaskOK'
  <2>1. TypeOK'
    BY <1>13 DEF Save, Rest, TypeOK, TaskOK, Holding, Step
  <2>2. TaskOK'
    BY <1>13 DEF Save, Rest, TypeOK, TaskOK, Holding
  <2>. QED
    BY <2>1, <2>2
<1>14. ASSUME NEW t \in Task, Rebuild(t)
      PROVE  TypeOK' /\ TaskOK'
  <2>1. rebuilds' \in 0..MaxRebuilds
    BY <1>14, VectorIndexAssumption DEF Rebuild, TypeOK
  <2>2. hurt' \subseteq Job /\ mixed' \in BOOLEAN
    BY <1>14 DEF Rebuild, TypeOK
  <2>3. TypeOK'
    BY <1>14, <2>1, <2>2 DEF Rebuild, TypeOK, TaskOK, Holding, Step
  <2>4. TaskOK'
    BY <1>14 DEF Rebuild, TypeOK, TaskOK, Holding
  <2>. QED
    BY <2>3, <2>4
<1>15. ASSUME NEW t \in Task, Clear(t)
      PROVE  TypeOK' /\ TaskOK'
  <2>1. nextId' \in 0..MaxId
    BY <1>15, VectorIndexAssumption DEF Clear, StartAgain
  <2>2. mixed' \in BOOLEAN
    BY <1>15 DEF Clear, StartAgain
  <2>3. TypeOK'
    BY <1>15, <2>1, <2>2 DEF Clear, StartAgain, TypeOK, TaskOK, Holding, Step
  <2>4. TaskOK'
    BY <1>15 DEF Clear, StartAgain, TypeOK, TaskOK, Holding
  <2>. QED
    BY <2>3, <2>4
<1>16. ASSUME NEW t \in Task, Swap(t)
      PROVE  TypeOK' /\ TaskOK'
  <2>1. TypeOK'
    BY <1>16 DEF Swap, Empty, TypeOK, TaskOK, Holding, Step
  <2>2. TaskOK'
    BY <1>16 DEF Swap, Empty, TypeOK, TaskOK, Holding
  <2>. QED
    BY <2>1, <2>2
<1>17. ASSUME NEW t \in Task, ReadRows(t)
      PROVE  TypeOK' /\ TaskOK'
  <2>1. \A k \in Job : emb[k] # 0 => emb[k] \in Text
    BY <1>17 DEF TypeOK
  <2>2. rows' \in [Task -> SUBSET Vector]
    BY <1>17, <2>1 DEF ReadRows, TypeOK, Vector
  <2>3. TypeOK'
    BY <1>17, <2>1, <2>2 DEF ReadRows, TypeOK, TaskOK, Holding, Step
  <2>4. TaskOK'
    BY <1>17 DEF ReadRows, TypeOK, TaskOK, Holding
  <2>. QED
    BY <2>3, <2>4
<1>18. ASSUME NEW t \in Task, RowsDone(t)
      PROVE  TypeOK' /\ TaskOK'
  <2>1. TypeOK'
    BY <1>18 DEF RowsDone, TypeOK, TaskOK, Holding, Step
  <2>2. TaskOK'
    BY <1>18 DEF RowsDone, TypeOK, TaskOK, Holding
  <2>. QED
    BY <2>1, <2>2
<1>19. ASSUME NEW t \in Task, CommandFails(t)
      PROVE  TypeOK' /\ TaskOK'
  <2>1. troubles' \in 0..MaxTroubles
    BY <1>19, VectorIndexAssumption DEF CommandFails, Trouble, TypeOK
  <2>2. hurt' \subseteq Job
    BY <1>19 DEF CommandFails, TypeOK, TaskOK
  <2>3. index' \in [Id -> Vector \cup {NoVector}]
    BY <1>19 DEF CommandFails, TypeOK
  <2>4. TypeOK'
    BY <1>19, <2>1, <2>2, <2>3 DEF CommandFails, Trouble, AfterUpsert, TypeOK, TaskOK,
       Holding, Step
  <2>5. TaskOK'
    BY <1>19 DEF CommandFails, Trouble, AfterUpsert, TypeOK, TaskOK, Holding
  <2>. QED
    BY <2>4, <2>5
<1>20. ASSUME NEW t \in Task, SaveFails(t)
      PROVE  TypeOK' /\ TaskOK'
  <2>1. troubles' \in 0..MaxTroubles
    BY <1>20, VectorIndexAssumption DEF SaveFails, Trouble, TypeOK
  <2>2. TypeOK'
    BY <1>20, <2>1 DEF SaveFails, Trouble, Rest, Empty, TypeOK, TaskOK, Holding, Step
  <2>3. TaskOK'
    BY <1>20 DEF SaveFails, Trouble, Rest, Empty, TypeOK, TaskOK, Holding
  <2>. QED
    BY <2>2, <2>3
<1>21. ASSUME NEW t \in Task, RebuildFails(t)
      PROVE  TypeOK' /\ TaskOK'
  <2>1. troubles' \in 0..MaxTroubles
    BY <1>21, VectorIndexAssumption DEF RebuildFails, Trouble, TypeOK
  <2>2. jobToId' \in [Job -> Id \cup {0}] /\ idToJob' \in [Id -> Job \cup {NoJob}]
    BY <1>21 DEF RebuildFails, TypeOK, redisVars
  <2>3. nextId' \in 0..MaxId
    BY <1>21, VectorIndexAssumption DEF RebuildFails, TypeOK, redisVars
  <2>4. TypeOK'
    BY <1>21, <2>1, <2>2, <2>3 DEF RebuildFails, Trouble, Rest, TypeOK, TaskOK,
       Holding, Step
  <2>5. TaskOK'
    BY <1>21 DEF RebuildFails, Trouble, Rest, TypeOK, TaskOK, Holding
  <2>. QED
    BY <2>4, <2>5
<1>22. ASSUME NEW t \in Task, NEW r \in rows[t], NextRow(t, r)
      PROVE  TypeOK' /\ TaskOK'
  <2>1. r \in Vector /\ r.job \in Job /\ r.text \in Text
    BY <1>22 DEF TypeOK, Vector
  <2>2. TypeOK'
    BY <1>22, <2>1 DEF NextRow, TypeOK, TaskOK, Holding, Step
  <2>3. TaskOK'
    BY <1>22, <2>1 DEF NextRow, TypeOK, TaskOK, Holding
  <2>. QED
    BY <2>2, <2>3
<1>23. ASSUME NEW c \in BOOLEAN, Restart(c)
      PROVE  TypeOK' /\ TaskOK'
  <2>1. troubles' \in 0..MaxTroubles
    BY <1>23, VectorIndexAssumption DEF Restart, Trouble, TypeOK
  <2>2. hurt' \subseteq Job /\ mixed' \in BOOLEAN
    BY <1>23 DEF Restart, TypeOK
  <2>3. TypeOK'
    BY <1>23, <2>1, <2>2 DEF Restart, Trouble, Empty, TypeOK, TaskOK, Holding, Step
  <2>4. TaskOK'
    BY <1>23 DEF Restart, Trouble, Empty, TypeOK, TaskOK, Holding
  <2>. QED
    BY <2>3, <2>4
<1>24. CASE UNCHANGED vars
    BY <1>24 DEF vars, Holding, Step, TaskOK, TypeOK
<1>. QED
    BY <1>1, <1>2, <1>3, <1>4, <1>5, <1>6, <1>7, <1>8, <1>9, <1>10, <1>11, <1>12,
       <1>13, <1>14, <1>15, <1>16, <1>17, <1>18, <1>19, <1>20, <1>21, <1>22, <1>23,
       <1>24 DEF Next

\* A task that begins beside a rebuild, or a rebuild beside a task, mixes things up.
LEMMA AloneStep ==
    ASSUME TypeOK, TaskOK, Alone, [Next]_vars
    PROVE  Alone'
<1>. USE DEF Goto, tableVars, redisVars, taskVars, boundVars, ghostVars
<1>1. ASSUME NEW j \in Job, NEW c \in BOOLEAN, StoreJob(j, c)
      PROVE  Alone'
    BY <1>1 DEF StoreJob, Alone, Busy, TypeOK, TaskOK
<1>2. ASSUME NEW t \in Task, NEW j \in Job, Deactivate(t, j)
      PROVE  Alone'
  <2>1. ~mixed' => ~mixed /\ \A u \in Task : ~(Busy(u) /\ kind[u] = "rebuild")
    BY <1>2 DEF Deactivate, Begin, Rebuilding, TypeOK
  <2>2. \A u \in Task \ {t} : Busy(u)' = Busy(u) /\ kind'[u] = kind[u]
    BY <1>2 DEF Deactivate, Begin, Busy, TypeOK
  <2>3. kind'[t] # "rebuild"
    BY <1>2 DEF Deactivate, Begin, TypeOK
  <2>. QED
    BY <2>1, <2>2, <2>3 DEF Alone
<1>3. ASSUME NEW t \in Task, NEW j \in Job, Embed(t, j)
      PROVE  Alone'
  <2>1. ~mixed' => ~mixed /\ \A u \in Task : ~(Busy(u) /\ kind[u] = "rebuild")
    BY <1>3 DEF Embed, Begin, Rebuilding, TypeOK
  <2>2. \A u \in Task \ {t} : Busy(u)' = Busy(u) /\ kind'[u] = kind[u]
    BY <1>3 DEF Embed, Begin, Busy, TypeOK
  <2>3. kind'[t] # "rebuild"
    BY <1>3 DEF Embed, Begin, TypeOK
  <2>. QED
    BY <2>1, <2>2, <2>3 DEF Alone
<1>4. ASSUME NEW t \in Task, WriteEmbedding(t)
      PROVE  Alone'
    BY <1>4 DEF WriteEmbedding, Alone, Busy, TypeOK, TaskOK
<1>5. ASSUME NEW t \in Task, GetId(t)
      PROVE  Alone'
    BY <1>5 DEF GetId, Alone, Busy, TypeOK, TaskOK
<1>6. ASSUME NEW t \in Task, Incr(t)
      PROVE  Alone'
    BY <1>6 DEF Incr, Alone, Busy, TypeOK, TaskOK
<1>7. ASSUME NEW t \in Task, SetJob(t)
      PROVE  Alone'
    BY <1>7 DEF SetJob, Alone, Busy, TypeOK, TaskOK
<1>8. ASSUME NEW t \in Task, SetId(t)
      PROVE  Alone'
    BY <1>8 DEF SetId, Alone, Busy, TypeOK, TaskOK
<1>9. ASSUME NEW t \in Task, Place(t)
      PROVE  Alone'
    BY <1>9 DEF Place, AfterUpsert, Alone, Busy, TypeOK, TaskOK
<1>10. ASSUME NEW t \in Task, Find(t)
      PROVE  Alone'
    BY <1>10 DEF Find, Alone, Busy, TypeOK, TaskOK
<1>11. ASSUME NEW t \in Task, Unindex(t)
      PROVE  Alone'
    BY <1>11 DEF Unindex, Alone, Busy, TypeOK, TaskOK
<1>12. ASSUME NEW t \in Task, Unmap(t)
      PROVE  Alone'
    BY <1>12 DEF Unmap, Alone, Busy, TypeOK, TaskOK
<1>13. ASSUME NEW t \in Task, Save(t)
      PROVE  Alone'
    BY <1>13 DEF Save, Rest, Alone, Busy, TypeOK, TaskOK
<1>14. ASSUME NEW t \in Task, Rebuild(t)
      PROVE  Alone'
    BY <1>14 DEF Rebuild, Alone, Busy, TypeOK, TaskOK
<1>15. ASSUME NEW t \in Task, Clear(t)
      PROVE  Alone'
    BY <1>15 DEF Clear, StartAgain, Alone, Busy, TypeOK, TaskOK
<1>16. ASSUME NEW t \in Task, Swap(t)
      PROVE  Alone'
    BY <1>16 DEF Swap, Empty, Alone, Busy, TypeOK, TaskOK
<1>17. ASSUME NEW t \in Task, ReadRows(t)
      PROVE  Alone'
    BY <1>17 DEF ReadRows, Alone, Busy, TypeOK, TaskOK
<1>18. ASSUME NEW t \in Task, RowsDone(t)
      PROVE  Alone'
    BY <1>18 DEF RowsDone, Alone, Busy, TypeOK, TaskOK
<1>19. ASSUME NEW t \in Task, CommandFails(t)
      PROVE  Alone'
    BY <1>19 DEF CommandFails, Trouble, AfterUpsert, Alone, Busy, TypeOK, TaskOK
<1>20. ASSUME NEW t \in Task, SaveFails(t)
      PROVE  Alone'
    BY <1>20 DEF SaveFails, Trouble, Rest, Empty, Alone, Busy, TypeOK, TaskOK
<1>21. ASSUME NEW t \in Task, RebuildFails(t)
      PROVE  Alone'
    BY <1>21 DEF RebuildFails, Trouble, Rest, Alone, Busy, TypeOK, TaskOK
<1>22. ASSUME NEW t \in Task, NEW r \in rows[t], NextRow(t, r)
      PROVE  Alone'
    BY <1>22 DEF NextRow, Alone, Busy, TypeOK, TaskOK
<1>23. ASSUME NEW c \in BOOLEAN, Restart(c)
      PROVE  Alone'
    BY <1>23 DEF Restart, Trouble, Empty, Alone, Busy, TypeOK, TaskOK
<1>24. CASE UNCHANGED vars
    BY <1>24 DEF vars, Alone, Busy, TaskOK, TypeOK
<1>. QED
    BY <1>1, <1>2, <1>3, <1>4, <1>5, <1>6, <1>7, <1>8, <1>9, <1>10, <1>11, <1>12,
       <1>13, <1>14, <1>15, <1>16, <1>17, <1>18, <1>19, <1>20, <1>21, <1>22, <1>23,
       <1>24 DEF Next

\* Nobody sets a label between its deletion and the new index.
LEMMA SwapStep ==
    ASSUME TypeOK, TaskOK, Alone, SwapEmpty, [Next]_vars
    PROVE  SwapEmpty'
<1>. USE DEF Goto, tableVars, redisVars, taskVars, boundVars, ghostVars
<1>1. ASSUME NEW j \in Job, NEW c \in BOOLEAN, StoreJob(j, c)
      PROVE  SwapEmpty'
    BY <1>1 DEF StoreJob, SwapEmpty, Swapping, Alone, Busy, TypeOK, TaskOK
<1>2. ASSUME NEW t \in Task, NEW j \in Job, Deactivate(t, j)
      PROVE  SwapEmpty'
    BY <1>2 DEF Deactivate, Begin, SwapEmpty, Swapping, Alone, Busy, TypeOK, TaskOK
<1>3. ASSUME NEW t \in Task, NEW j \in Job, Embed(t, j)
      PROVE  SwapEmpty'
    BY <1>3 DEF Embed, Begin, SwapEmpty, Swapping, Alone, Busy, TypeOK, TaskOK
<1>4. ASSUME NEW t \in Task, WriteEmbedding(t)
      PROVE  SwapEmpty'
    BY <1>4 DEF WriteEmbedding, SwapEmpty, Swapping, Alone, Busy, TypeOK, TaskOK
<1>5. ASSUME NEW t \in Task, GetId(t)
      PROVE  SwapEmpty'
    BY <1>5 DEF GetId, SwapEmpty, Swapping, Alone, Busy, TypeOK, TaskOK
<1>6. ASSUME NEW t \in Task, Incr(t)
      PROVE  SwapEmpty'
    BY <1>6 DEF Incr, SwapEmpty, Swapping, Alone, Busy, TypeOK, TaskOK
<1>7. ASSUME NEW t \in Task, SetJob(t)
      PROVE  SwapEmpty'
    BY <1>7 DEF SetJob, SwapEmpty, Swapping, Alone, Busy, TypeOK, TaskOK
<1>8. ASSUME NEW t \in Task, SetId(t)
      PROVE  SwapEmpty'
    BY <1>8 DEF SetId, SwapEmpty, Swapping, Alone, Busy, TypeOK, TaskOK
<1>9. ASSUME NEW t \in Task, Place(t)
      PROVE  SwapEmpty'
    BY <1>9 DEF Place, AfterUpsert, SwapEmpty, Swapping, Alone, Busy, TypeOK, TaskOK
<1>10. ASSUME NEW t \in Task, Find(t)
      PROVE  SwapEmpty'
    BY <1>10 DEF Find, SwapEmpty, Swapping, Alone, Busy, TypeOK, TaskOK
<1>11. ASSUME NEW t \in Task, Unindex(t)
      PROVE  SwapEmpty'
    BY <1>11 DEF Unindex, SwapEmpty, Swapping, Alone, Busy, TypeOK, TaskOK
<1>12. ASSUME NEW t \in Task, Unmap(t)
      PROVE  SwapEmpty'
    BY <1>12 DEF Unmap, SwapEmpty, Swapping, Alone, Busy, TypeOK, TaskOK
<1>13. ASSUME NEW t \in Task, Save(t)
      PROVE  SwapEmpty'
    BY <1>13 DEF Save, Rest, SwapEmpty, Swapping, Alone, Busy, TypeOK, TaskOK
<1>14. ASSUME NEW t \in Task, Rebuild(t)
      PROVE  SwapEmpty'
    BY <1>14 DEF Rebuild, SwapEmpty, Swapping, Alone, Busy, TypeOK, TaskOK
<1>15. ASSUME NEW t \in Task, Clear(t)
      PROVE  SwapEmpty'
    BY <1>15 DEF Clear, StartAgain, SwapEmpty, Swapping, Alone, Busy, TypeOK, TaskOK
<1>16. ASSUME NEW t \in Task, Swap(t)
      PROVE  SwapEmpty'
    BY <1>16 DEF Swap, Empty, SwapEmpty, Swapping, Alone, Busy, TypeOK, TaskOK
<1>17. ASSUME NEW t \in Task, ReadRows(t)
      PROVE  SwapEmpty'
    BY <1>17 DEF ReadRows, SwapEmpty, Swapping, Alone, Busy, TypeOK, TaskOK
<1>18. ASSUME NEW t \in Task, RowsDone(t)
      PROVE  SwapEmpty'
    BY <1>18 DEF RowsDone, SwapEmpty, Swapping, Alone, Busy, TypeOK, TaskOK
<1>19. ASSUME NEW t \in Task, CommandFails(t)
      PROVE  SwapEmpty'
    BY <1>19 DEF CommandFails, Trouble, AfterUpsert, SwapEmpty, Swapping, Alone, Busy,
       TypeOK, TaskOK
<1>20. ASSUME NEW t \in Task, SaveFails(t)
      PROVE  SwapEmpty'
    BY <1>20 DEF SaveFails, Trouble, Rest, Empty, SwapEmpty, Swapping, Alone, Busy,
       TypeOK, TaskOK
<1>21. ASSUME NEW t \in Task, RebuildFails(t)
      PROVE  SwapEmpty'
    BY <1>21 DEF RebuildFails, Trouble, Rest, SwapEmpty, Swapping, Alone, Busy, TypeOK,
       TaskOK
<1>22. ASSUME NEW t \in Task, NEW r \in rows[t], NextRow(t, r)
      PROVE  SwapEmpty'
    BY <1>22 DEF NextRow, SwapEmpty, Swapping, Alone, Busy, TypeOK, TaskOK
<1>23. ASSUME NEW c \in BOOLEAN, Restart(c)
      PROVE  SwapEmpty'
    BY <1>23 DEF Restart, Trouble, Empty, SwapEmpty, Swapping, Alone, Busy, TypeOK,
       TaskOK
<1>24. CASE UNCHANGED vars
    BY <1>24 DEF vars, Alone, Busy, SwapEmpty, Swapping, TaskOK, TypeOK
<1>. QED
    BY <1>1, <1>2, <1>3, <1>4, <1>5, <1>6, <1>7, <1>8, <1>9, <1>10, <1>11, <1>12,
       <1>13, <1>14, <1>15, <1>16, <1>17, <1>18, <1>19, <1>20, <1>21, <1>22, <1>23,
       <1>24 DEF Next

\* Without a new tie, and with the labels counted as before, all stays well.
LEMMA NoNewClaims ==
    ASSUME OneOwner, CountedOut, mixed => mixed', nextId' = nextId,
           \A i \in Id, k \in Job : ~mixed' /\ Claims(i, k)' => Claims(i, k)
    PROVE  OneOwner' /\ CountedOut'
    BY DEF OneOwner, CountedOut

\* Only Incr ties a label to a job anew, and it takes one that was free.
LEMMA ClaimsStep ==
    ASSUME TypeOK, TaskOK, Alone, OneOwner, CountedOut, [Next]_vars
    PROVE  OneOwner' /\ CountedOut'
<1>. USE DEF Goto, tableVars, redisVars, taskVars, boundVars, ghostVars
<1>1. ASSUME NEW j \in Job, NEW c \in BOOLEAN, StoreJob(j, c)
      PROVE  OneOwner' /\ CountedOut'
  <2>1. \A i \in Id, k \in Job : ~mixed' /\ Claims(i, k)' => Claims(i, k)
    BY <1>1 DEF StoreJob, Claims, Swapping, Holding, TypeOK, TaskOK
  <2>2. (mixed => mixed') /\ nextId' = nextId
    BY <1>1 DEF StoreJob
  <2>. QED
    BY <2>1, <2>2, NoNewClaims
<1>2. ASSUME NEW t \in Task, NEW j \in Job, Deactivate(t, j)
      PROVE  OneOwner' /\ CountedOut'
  <2>1. \A i \in Id, k \in Job : ~mixed' /\ Claims(i, k)' => Claims(i, k)
    BY <1>2 DEF Deactivate, Begin, Claims, Swapping, Holding, TypeOK, TaskOK
  <2>2. (mixed => mixed') /\ nextId' = nextId
    BY <1>2 DEF Deactivate, Begin
  <2>. QED
    BY <2>1, <2>2, NoNewClaims
<1>3. ASSUME NEW t \in Task, NEW j \in Job, Embed(t, j)
      PROVE  OneOwner' /\ CountedOut'
  <2>1. \A i \in Id, k \in Job : ~mixed' /\ Claims(i, k)' => Claims(i, k)
    BY <1>3 DEF Embed, Begin, Claims, Swapping, Holding, TypeOK, TaskOK
  <2>2. (mixed => mixed') /\ nextId' = nextId
    BY <1>3 DEF Embed, Begin
  <2>. QED
    BY <2>1, <2>2, NoNewClaims
<1>4. ASSUME NEW t \in Task, WriteEmbedding(t)
      PROVE  OneOwner' /\ CountedOut'
  <2>1. \A i \in Id, k \in Job : ~mixed' /\ Claims(i, k)' => Claims(i, k)
    BY <1>4 DEF WriteEmbedding, Claims, Swapping, Holding, TypeOK, TaskOK
  <2>2. (mixed => mixed') /\ nextId' = nextId
    BY <1>4 DEF WriteEmbedding
  <2>. QED
    BY <2>1, <2>2, NoNewClaims
<1>5. ASSUME NEW t \in Task, GetId(t)
      PROVE  OneOwner' /\ CountedOut'
  <2>1. \A i \in Id, k \in Job : ~mixed' /\ Claims(i, k)' => Claims(i, k)
    BY <1>5 DEF GetId, Claims, Swapping, Holding, TypeOK, TaskOK
  <2>2. (mixed => mixed') /\ nextId' = nextId
    BY <1>5 DEF GetId
  <2>. QED
    BY <2>1, <2>2, NoNewClaims
<1>6. ASSUME NEW t \in Task, Incr(t)
      PROVE  OneOwner' /\ CountedOut'
  <2>1. nextId' = nextId + 1 /\ nextId \in Nat /\ mixed' = mixed
    BY <1>6 DEF Incr, TypeOK
  <2>2. \A i \in Id, k \in Job : Claims(i, k)' => Claims(i, k) \/ (i = nextId + 1 /\ k = job[t])
    BY <1>6 DEF Incr, Claims, Swapping, Holding, TypeOK
  <2>3. \A i \in Id : i \in Nat /\ (i <= nextId => i # nextId + 1)
    BY <2>1, VectorIndexAssumption DEF Id
  <2>4. OneOwner'
    BY <2>1, <2>2, <2>3 DEF OneOwner, CountedOut
  <2>5. CountedOut'
    BY <2>1, <2>2, <2>3 DEF CountedOut
  <2>. QED
    BY <2>4, <2>5
<1>7. ASSUME NEW t \in Task, SetJob(t)
      PROVE  OneOwner' /\ CountedOut'
  <2>1. \A i \in Id, k \in Job : ~mixed' /\ Claims(i, k)' => Claims(i, k)
    BY <1>7 DEF SetJob, Claims, Swapping, Holding, TypeOK, TaskOK
  <2>2. (mixed => mixed') /\ nextId' = nextId
    BY <1>7 DEF SetJob
  <2>. QED
    BY <2>1, <2>2, NoNewClaims
<1>8. ASSUME NEW t \in Task, SetId(t)
      PROVE  OneOwner' /\ CountedOut'
  <2>1. \A i \in Id, k \in Job : ~mixed' /\ Claims(i, k)' => Claims(i, k)
    BY <1>8 DEF SetId, Claims, Swapping, Holding, TypeOK, TaskOK
  <2>2. (mixed => mixed') /\ nextId' = nextId
    BY <1>8 DEF SetId
  <2>. QED
    BY <2>1, <2>2, NoNewClaims
<1>9. ASSUME NEW t \in Task, Place(t)
      PROVE  OneOwner' /\ CountedOut'
  <2>1. \A i \in Id, k \in Job : ~mixed' /\ Claims(i, k)' => Claims(i, k)
    BY <1>9 DEF Place, AfterUpsert, Claims, Swapping, Holding, TypeOK, TaskOK
  <2>2. (mixed => mixed') /\ nextId' = nextId
    BY <1>9 DEF Place, AfterUpsert
  <2>. QED
    BY <2>1, <2>2, NoNewClaims
<1>10. ASSUME NEW t \in Task, Find(t)
      PROVE  OneOwner' /\ CountedOut'
  <2>1. \A i \in Id, k \in Job : ~mixed' /\ Claims(i, k)' => Claims(i, k)
    BY <1>10 DEF Find, Claims, Swapping, Holding, TypeOK, TaskOK
  <2>2. (mixed => mixed') /\ nextId' = nextId
    BY <1>10 DEF Find
  <2>. QED
    BY <2>1, <2>2, NoNewClaims
<1>11. ASSUME NEW t \in Task, Unindex(t)
      PROVE  OneOwner' /\ CountedOut'
  <2>1. \A i \in Id, k \in Job : ~mixed' /\ Claims(i, k)' => Claims(i, k)
    BY <1>11 DEF Unindex, Claims, Swapping, Holding, TypeOK, TaskOK
  <2>2. (mixed => mixed') /\ nextId' = nextId
    BY <1>11 DEF Unindex
  <2>. QED
    BY <2>1, <2>2, NoNewClaims
<1>12. ASSUME NEW t \in Task, Unmap(t)
      PROVE  OneOwner' /\ CountedOut'
  <2>1. \A i \in Id, k \in Job : ~mixed' /\ Claims(i, k)' => Claims(i, k)
    BY <1>12, VectorIndexAssumption DEF Unmap, Id, Claims, Swapping, Holding, TypeOK,
       TaskOK
  <2>2. (mixed => mixed') /\ nextId' = nextId
    BY <1>12 DEF Unmap
  <2>. QED
    BY <2>1, <2>2, NoNewClaims
<1>13. ASSUME NEW t \in Task, Save(t)
      PROVE  OneOwner' /\ CountedOut'
  <2>1. \A i \in Id, k \in Job : ~mixed' /\ Claims(i, k)' => Claims(i, k)
    BY <1>13 DEF Save, Rest, Claims, Swapping, Holding, TypeOK, TaskOK
  <2>2. (mixed => mixed') /\ nextId' = nextId
    BY <1>13 DEF Save, Rest
  <2>. QED
    BY <2>1, <2>2, NoNewClaims
<1>14. ASSUME NEW t \in Task, Rebuild(t)
      PROVE  OneOwner' /\ CountedOut'
  <2>1. \A i \in Id, k \in Job : ~mixed' /\ Claims(i, k)' => Claims(i, k)
    BY <1>14 DEF Rebuild, Claims, Swapping, Holding, TypeOK, TaskOK
  <2>2. (mixed => mixed') /\ nextId' = nextId
    BY <1>14 DEF Rebuild
  <2>. QED
    BY <2>1, <2>2, NoNewClaims
<1>15. ASSUME NEW t \in Task, Clear(t)
      PROVE  OneOwner' /\ CountedOut'
  <2>1. ~mixed' => \A u \in Task : pc'[u] \notin Holding
    BY <1>15 DEF Clear, StartAgain, Busy, Holding, TypeOK
  <2>2. Swapping'
    BY <1>15 DEF Clear, Swapping, TypeOK
  <2>3. \A i \in Id, k \in Job : jobToId'[k] # i /\ idToJob'[i] # k
    BY <1>15, VectorIndexAssumption DEF Clear, Id
  <2>4. \A i \in Id, k \in Job : mixed' \/ ~Claims(i, k)'
    BY <2>1, <2>2, <2>3 DEF Claims
  <2>. QED
    BY <2>4 DEF OneOwner, CountedOut
<1>16. ASSUME NEW t \in Task, Swap(t)
      PROVE  OneOwner' /\ CountedOut'
  <2>1. \A i \in Id, k \in Job : ~mixed' /\ Claims(i, k)' => Claims(i, k)
    BY <1>16 DEF Swap, Empty, Claims, Swapping, Holding, TypeOK, TaskOK
  <2>2. (mixed => mixed') /\ nextId' = nextId
    BY <1>16 DEF Swap, Empty
  <2>. QED
    BY <2>1, <2>2, NoNewClaims
<1>17. ASSUME NEW t \in Task, ReadRows(t)
      PROVE  OneOwner' /\ CountedOut'
  <2>1. \A i \in Id, k \in Job : ~mixed' /\ Claims(i, k)' => Claims(i, k)
    BY <1>17 DEF ReadRows, Claims, Swapping, Holding, TypeOK, TaskOK
  <2>2. (mixed => mixed') /\ nextId' = nextId
    BY <1>17 DEF ReadRows
  <2>. QED
    BY <2>1, <2>2, NoNewClaims
<1>18. ASSUME NEW t \in Task, RowsDone(t)
      PROVE  OneOwner' /\ CountedOut'
  <2>1. \A i \in Id, k \in Job : ~mixed' /\ Claims(i, k)' => Claims(i, k)
    BY <1>18 DEF RowsDone, Claims, Swapping, Holding, TypeOK, TaskOK
  <2>2. (mixed => mixed') /\ nextId' = nextId
    BY <1>18 DEF RowsDone
  <2>. QED
    BY <2>1, <2>2, NoNewClaims
<1>19. ASSUME NEW t \in Task, CommandFails(t)
      PROVE  OneOwner' /\ CountedOut'
  <2>1. \A i \in Id, k \in Job : ~mixed' /\ Claims(i, k)' => Claims(i, k)
    BY <1>19 DEF CommandFails, Trouble, AfterUpsert, Claims, Swapping, Holding, TypeOK,
       TaskOK
  <2>2. (mixed => mixed') /\ nextId' = nextId
    BY <1>19 DEF CommandFails, Trouble, AfterUpsert
  <2>. QED
    BY <2>1, <2>2, NoNewClaims
<1>20. ASSUME NEW t \in Task, SaveFails(t)
      PROVE  OneOwner' /\ CountedOut'
  <2>1. \A i \in Id, k \in Job : ~mixed' /\ Claims(i, k)' => Claims(i, k)
    BY <1>20 DEF SaveFails, Trouble, Rest, Empty, Claims, Swapping, Holding, TypeOK,
       TaskOK
  <2>2. (mixed => mixed') /\ nextId' = nextId
    BY <1>20 DEF SaveFails, Trouble, Rest, Empty
  <2>. QED
    BY <2>1, <2>2, NoNewClaims
<1>21. ASSUME NEW t \in Task, RebuildFails(t)
      PROVE  OneOwner' /\ CountedOut'
  <2>1. CASE mixed'
    BY <2>1 DEF OneOwner, CountedOut
  <2>2. CASE ~mixed'
    <3>1. UNCHANGED redisVars /\ ~mixed /\ pc[t] # "swap"
      BY <1>21, <2>2 DEF RebuildFails, TypeOK
    <3>2. \A i \in Id, k \in Job : Claims(i, k)' => Claims(i, k)
      BY <1>21, <3>1 DEF RebuildFails, Rest, Claims, Swapping, Holding, TypeOK
    <3>. QED
      BY <3>1, <3>2, NoNewClaims
  <2>. QED
    BY <2>1, <2>2
<1>22. ASSUME NEW t \in Task, NEW r \in rows[t], NextRow(t, r)
      PROVE  OneOwner' /\ CountedOut'
  <2>1. \A i \in Id, k \in Job : ~mixed' /\ Claims(i, k)' => Claims(i, k)
    BY <1>22 DEF NextRow, Claims, Swapping, Holding, TypeOK, TaskOK
  <2>2. (mixed => mixed') /\ nextId' = nextId
    BY <1>22 DEF NextRow
  <2>. QED
    BY <2>1, <2>2, NoNewClaims
<1>23. ASSUME NEW c \in BOOLEAN, Restart(c)
      PROVE  OneOwner' /\ CountedOut'
  <2>1. ~mixed' => ~mixed /\ ~Swapping /\ ~oldFile
    BY <1>23 DEF Restart, Swapping, Rebuilding, Busy, TypeOK, TaskOK
  <2>2. \A i \in Id : index'[i] \in {file[i], NoVector} /\ file'[i] \in {file[i], NoVector}
    BY <1>23 DEF Restart, Empty
  <2>3. \A i \in Id, k \in Job : ~mixed' /\ Claims(i, k)' => Claims(i, k)
    BY <1>23, <2>1, <2>2 DEF Restart, Claims, Holding
  <2>4. (mixed => mixed') /\ nextId' = nextId
    BY <1>23 DEF Restart
  <2>. QED
    BY <2>3, <2>4, NoNewClaims
<1>24. CASE UNCHANGED vars
  <2>1. \A i \in Id, k \in Job : Claims(i, k)' => Claims(i, k)
    BY <1>24 DEF vars, Claims, Swapping
  <2>. QED
    BY <1>24, <2>1, NoNewClaims DEF vars
<1>. QED
    BY <1>1, <1>2, <1>3, <1>4, <1>5, <1>6, <1>7, <1>8, <1>9, <1>10, <1>11, <1>12,
       <1>13, <1>14, <1>15, <1>16, <1>17, <1>18, <1>19, <1>20, <1>21, <1>22, <1>23,
       <1>24 DEF Next

\* At the start no label is tied to a job.
LEMMA InvInit == Init => Inv
<1>. SUFFICES ASSUME Init PROVE Inv
    OBVIOUS
<1>1. TypeOK
  <2>1. 1 \in Text /\ 0 \in 0..MaxId /\ 0 \in 0..MaxTroubles /\ 0 \in 0..MaxRebuilds
    BY VectorIndexAssumption DEF Text
  <2>. QED
    BY <2>1 DEF Init, TypeOK, Empty, Step
<1>2. TaskOK /\ Alone /\ SwapEmpty
    BY DEF Init, TaskOK, Holding, Alone, Busy, SwapEmpty, Swapping
<1>3. \A i \in Id, k \in Job : ~Claims(i, k)
    BY VectorIndexAssumption DEF Init, Claims, Holding, Empty, Id
<1>. QED
    BY <1>1, <1>2, <1>3 DEF Inv, OneOwner, CountedOut

\* The invariant is inductive.
THEOREM InvAlways == Spec => []Inv
<1>1. Inv /\ [Next]_vars => Inv'
    BY TypeStep, AloneStep, SwapStep, ClaimsStep DEF Inv
<1>. QED
    BY InvInit, <1>1, PTL DEF Spec

\* Every variable of the index and its tasks stays within its type.
THEOREM TypeCorrect == Spec => []TypeOK
<1>1. Inv => TypeOK
    BY DEF Inv
<1>. QED
    BY InvAlways, <1>1, PTL

\* A label that leads to a job holds a vector of that job, whatever interleaves, fails
\* or restarts, but for what a rebuild beside other tasks may mix up.
THEOREM LabelsNeverCross == Spec => []LabelsLead
<1>1. Inv => LabelsLead
  <2>. SUFFICES ASSUME Inv, ~mixed, NEW i \in Id, index[i] # NoVector, idToJob[i] # NoJob
                PROVE  index[i].job = idToJob[i]
      BY DEF LabelsLead
  <2>1. ~Swapping
      BY DEF Inv, SwapEmpty
  <2>2. idToJob[i] \in Job /\ index[i].job \in Job
      BY DEF Inv, TypeOK, Vector
  <2>3. Claims(i, idToJob[i]) /\ Claims(i, index[i].job)
      BY <2>1 DEF Claims
  <2>. QED
      BY <2>2, <2>3 DEF Inv, OneOwner
<1>. QED
    BY InvAlways, <1>1, PTL

-----------------------------------------------------------------------------
(* The embedding of a row is of its text *)

\* A task about to write holds an embedding of the row's text, or was overtaken.
EmbeddingInv ==
    /\ EmbeddingCurrent
    /\ \A t \in Task : pc[t] = "write" =>
         kind[t] = "embed" /\ (vec[t] = text[job[t]] \/ job[t] \in overtaken)

\* Every step keeps it: a text that changes takes its embedding with it, or is overtaken.
LEMMA EmbeddingStep ==
    ASSUME TypeOK, TaskOK, EmbeddingInv, [Next]_vars
    PROVE  EmbeddingInv'
<1>. USE DEF Goto, tableVars, taskVars, ghostVars
<1>1. ASSUME UNCHANGED <<emb, text, overtaken>>,
             \A t \in Task : pc'[t] = "write" =>
                 pc[t] = "write" /\ UNCHANGED <<kind[t], vec[t], job[t]>>
      PROVE  EmbeddingInv'
    BY <1>1 DEF EmbeddingInv, EmbeddingCurrent
<1>2. ASSUME NEW j \in Job, NEW c \in BOOLEAN, StoreJob(j, c)
      PROVE  EmbeddingInv'
  <2>1. CASE ~c
      BY <1>1, <1>2, <2>1 DEF StoreJob
  <2>2. CASE c
    <3>1. /\ UNCHANGED <<pc, kind, vec, job>>
          /\ text' = [text EXCEPT ![j] = @ + 1] /\ emb' = [emb EXCEPT ![j] = 0]
          /\ overtaken' = IF \E t \in BusyOn(j) : pc[t] = "write" THEN overtaken \cup {j}
                          ELSE overtaken \ {j}
        BY <1>2, <2>2 DEF StoreJob
    <3>2. \A t \in Task : pc[t] = "write" /\ job[t] = j => t \in BusyOn(j)
        BY DEF EmbeddingInv, BusyOn, Busy
    <3>3. \A k \in Job \ {j} : emb'[k] = emb[k] /\ text'[k] = text[k] /\
              (k \in overtaken => k \in overtaken')
        BY <3>1 DEF TypeOK
    <3>4. EmbeddingCurrent'
      <4>1. emb'[j] = 0
          BY <3>1 DEF TypeOK
      <4> QED
          BY <3>3, <4>1 DEF EmbeddingInv, EmbeddingCurrent
    <3>5. ASSUME NEW t \in Task, pc[t] = "write"
          PROVE  kind[t] = "embed" /\ (vec[t] = text'[job[t]] \/ job[t] \in overtaken')
      <4>1. CASE job[t] = j
          BY <3>1, <3>2, <3>5, <4>1 DEF EmbeddingInv
      <4>2. CASE job[t] # j
          BY <3>3, <3>5, <4>2 DEF EmbeddingInv, TaskOK
      <4> QED
          BY <4>1, <4>2
    <3> QED
        BY <3>1, <3>4, <3>5 DEF EmbeddingInv
  <2> QED
      BY <2>1, <2>2
<1>3. ASSUME NEW t \in Task, NEW j \in Job, Embed(t, j)
      PROVE  EmbeddingInv'
  <2>1. /\ UNCHANGED <<emb, text, overtaken>>
        /\ pc'[t] = "write" /\ kind'[t] = "embed" /\ vec'[t] = text[j] /\ job'[t] = j
        /\ \A u \in Task \ {t} : UNCHANGED <<pc[u], kind[u], vec[u], job[u]>>
      BY <1>3 DEF Embed, Begin, TypeOK
  <2> QED
      BY <2>1 DEF EmbeddingInv, EmbeddingCurrent
<1>4. ASSUME NEW t \in Task, WriteEmbedding(t)
      PROVE  EmbeddingInv'
  <2>1. /\ pc[t] = "write" /\ job[t] \in Job
        /\ UNCHANGED <<kind, vec, job, text, overtaken>>
        /\ emb' = [emb EXCEPT ![job[t]] = vec[t]]
        /\ \A u \in Task : pc'[u] = "write" => pc[u] = "write"
      BY <1>4 DEF WriteEmbedding, TypeOK, TaskOK
  <2> QED
      BY <2>1 DEF EmbeddingInv, EmbeddingCurrent, TypeOK
<1>5. ASSUME NEW t \in Task, NEW j \in Job, Deactivate(t, j)
      PROVE  EmbeddingInv'
    BY <1>1, <1>5 DEF Deactivate, Begin, TypeOK
<1>6. ASSUME NEW t \in Task,
             \/ GetId(t) \/ Incr(t) \/ SetJob(t) \/ SetId(t) \/ Place(t)
             \/ Find(t) \/ Unindex(t) \/ Unmap(t)
      PROVE  EmbeddingInv'
    BY <1>1, <1>6 DEF GetId, Incr, SetJob, SetId, Place, AfterUpsert, Find, Unindex, Unmap,
       TypeOK
<1>7. ASSUME NEW t \in Task,
             \/ Save(t) \/ SaveFails(t) \/ CommandFails(t) \/ RebuildFails(t)
      PROVE  EmbeddingInv'
    BY <1>1, <1>7 DEF Save, SaveFails, CommandFails, AfterUpsert, RebuildFails, Rest, TypeOK
<1>8. ASSUME NEW t \in Task,
             \/ Rebuild(t) \/ Clear(t) \/ Swap(t) \/ ReadRows(t) \/ RowsDone(t)
             \/ \E r \in rows[t] : NextRow(t, r)
      PROVE  EmbeddingInv'
    BY <1>1, <1>8 DEF Rebuild, Clear, StartAgain, Swap, ReadRows, RowsDone, NextRow, TypeOK
<1>9. CASE UNCHANGED vars \/ \E c \in BOOLEAN : Restart(c)
    BY <1>1, <1>9 DEF Restart, vars
<1>. QED
    BY <1>2, <1>3, <1>4, <1>5, <1>6, <1>7, <1>8, <1>9 DEF Next

\* A row's embedding is of its text or NULL, to be computed again, unless the text changed
\* between the read and the write of update_embeddings_for_bpp: for every number of tasks
\* and texts, whatever fails.
THEOREM EmbeddingsCurrent == Spec => []EmbeddingCurrent
<1>1. Init => EmbeddingInv
    BY DEF Init, EmbeddingInv, EmbeddingCurrent
<1>2. Inv /\ EmbeddingInv /\ [Next]_vars => EmbeddingInv'
    BY EmbeddingStep DEF Inv
<1>3. EmbeddingInv => EmbeddingCurrent
    BY DEF EmbeddingInv
<1>. QED
    BY <1>1, <1>2, <1>3, InvAlways, PTL DEF Spec

-----------------------------------------------------------------------------
(* The labels of a job whose tasks come one after the other *)

\* All that ties job j to a label: its key, the labels that lead to it, and the labels
\* its vectors are under.
Tied(j, i, ids, labels) ==
    /\ jobToId[j] = i
    /\ \A k \in Id : idToJob[k] = j <=> k \in ids
    /\ \A k \in Id : index[k] # NoVector /\ index[k].job = j <=> k \in labels

Gone(j)    == Tied(j, 0, {}, {})
Held(j, i) == Tied(j, i, {i}, {i})
Whole(j)   == Gone(j) \/ \E i \in Id : Held(j, i)

Upserting == {"write", "get", "incr", "setjob", "setid", "place"}
Removing  == {"find", "unindex", "unmap"}

\* A task is about to run a command that concerns j.
At(t, j, steps) == pc[t] \in steps /\ job[t] = j

\* How the labels of j stand between the commands of an upsert, of a removal, and of a
\* rebuild.
UpsertPhase(t, j) ==
    /\ j \in active
    /\ pc[t] = "write" => emb[j] = 0 /\ Whole(j)
    /\ pc[t] # "write" => emb[j] \in {0, vec[t]}
    /\ pc[t] = "get" => Whole(j)
    /\ pc[t] \in {"incr", "setjob"} => Gone(j)
    /\ pc[t] = "setid" => Tied(j, id[t], {}, {})
    /\ pc[t] = "place" => Tied(j, id[t], {id[t]}, {}) \/ Held(j, id[t])

RemovePhase(t, j) ==
    /\ j \in active => emb[j] = 0
    /\ pc[t] = "find" => Whole(j)
    /\ pc[t] = "unindex" => Held(j, id[t])
    /\ pc[t] = "unmap" => Tied(j, id[t], {id[t]}, {})

Cleared == {"swap", "rows"}
Unread  == {"clear"} \cup Cleared

Rebuilds(t) == Busy(t) /\ kind[t] = "rebuild"

RebuildPhase(t, j) ==
    /\ pc[t] \in Cleared => (\A k \in Job : jobToId[k] = 0) /\ \A i \in Id : idToJob[i] = NoJob
    /\ pc[t] = "rows" => \A i \in Id : index[i] = NoVector
    /\ pc[t] \notin Unread => \A r \in rows[t] : r.job = j =>
         /\ j \in active /\ emb[j] \in {0, r.text} /\ Gone(j) /\ ~At(t, j, Upserting)
         /\ \A q \in rows[t] : q.job = j => q = r

\* A rebuild has yet to come to j.
Awaited(t, j) ==
    Rebuilds(t) /\ (pc[t] \in Unread \/ \E r \in rows[t] : r.job = j)

\* No task concerned with j, and none expected: j is under one label, by its embedding if
\* it has one, or under none, as an inactive job is.
Settled(j) ==
    /\ Gone(j) \/ (j \in active /\ \E i \in Id : Held(j, i))
    /\ j \in active /\ emb[j] # 0 => \E i \in Id : Held(j, i) /\ index[i].text = emb[j]

\* The tasks of j come one after the other, and a rebuild beside no other task.
InTurn(j) ==
    /\ \A t, u \in Task : Rebuilds(t) /\ Busy(u) => u = t
    /\ mixed => \E t \in Task : pc[t] = "clear"
    /\ \A t, u \in BusyOn(j) : t = u

Phases(j) ==
    /\ \A t \in Task : At(t, j, Upserting) => UpsertPhase(t, j)
    /\ \A t \in Task : At(t, j, Removing) => RemovePhase(t, j)
    /\ \A t \in Task : Rebuilds(t) => RebuildPhase(t, j)
    /\ (\A t \in Task : ~At(t, j, Upserting \cup Removing) /\ ~Awaited(t, j)) => Settled(j)

Orderly == \A j \in Job \ hurt : InTurn(j) /\ Phases(j)

\* Which kind of task takes which steps.
KindOK ==
    \A t \in Task : /\ pc[t] = "write" => kind[t] = "embed"
                    /\ pc[t] \in Upserting => kind[t] \in {"embed", "rebuild"}
                    /\ pc[t] \in Removing => kind[t] = "remove"

\* Every step keeps it.
LEMMA KindStep ==
    ASSUME TypeOK, TaskOK, KindOK, [Next]_vars
    PROVE  KindOK'
<1>. USE DEF Goto, KindOK, Upserting, Removing, TypeOK
<1>1. ASSUME UNCHANGED <<pc, kind>>
      PROVE  KindOK'
    BY <1>1
<1>2. ASSUME NEW t \in Task, NEW j \in Job, Deactivate(t, j) \/ Embed(t, j)
      PROVE  KindOK'
    BY <1>2 DEF Deactivate, Embed, Begin
<1>3. ASSUME NEW t \in Task,
             \/ WriteEmbedding(t) \/ GetId(t) \/ Incr(t) \/ SetJob(t) \/ SetId(t) \/ Place(t)
      PROVE  KindOK'
    BY <1>3 DEF WriteEmbedding, GetId, Incr, SetJob, SetId, Place, AfterUpsert
<1>4. ASSUME NEW t \in Task, Find(t) \/ Unindex(t) \/ Unmap(t)
      PROVE  KindOK'
    BY <1>4 DEF Find, Unindex, Unmap
<1>5. ASSUME NEW t \in Task,
             \/ Save(t) \/ SaveFails(t) \/ CommandFails(t) \/ RebuildFails(t)
      PROVE  KindOK'
    BY <1>5 DEF Save, SaveFails, CommandFails, AfterUpsert, RebuildFails, Rest
<1>6. ASSUME NEW t \in Task,
             \/ Rebuild(t) \/ Clear(t) \/ Swap(t) \/ ReadRows(t) \/ RowsDone(t)
             \/ \E r \in rows[t] : NextRow(t, r)
      PROVE  KindOK'
    BY <1>6 DEF Rebuild, Clear, Swap, ReadRows, RowsDone, NextRow, TaskOK
<1>7. ASSUME NEW c \in BOOLEAN, Restart(c)
      PROVE  KindOK'
    BY <1>7 DEF Restart
<1>. QED
    BY <1>1, <1>2, <1>3, <1>4, <1>5, <1>6, <1>7 DEF Next, StoreJob, vars, taskVars

\* A job that a step leaves unhurt was unhurt before it, or the step begins a rebuild that
\* has the service to itself.
LEMMA HurtSteps ==
    ASSUME TypeOK, TaskOK, NEW j \in Job, j \notin hurt', [Next]_vars
    PROVE  \/ j \notin hurt
           \/ \E t \in Task : Rebuild(t) /\ (\A u \in Task : ~Busy(u)) /\ mixed' = mixed
<1>1. ASSUME NEW t \in Task, Rebuild(t)
      PROVE  (\A u \in Task : ~Busy(u)) /\ mixed' = mixed
    BY <1>1 DEF Rebuild, TypeOK
<1>2. ASSUME hurt \subseteq hurt'
      PROVE  j \notin hurt
    BY <1>2
<1>3. ASSUME NEW k \in Job, NEW c \in BOOLEAN, StoreJob(k, c)
      PROVE  j \notin hurt
    BY <1>3 DEF StoreJob
<1>4. ASSUME NEW t \in Task, NEW k \in Job, Deactivate(t, k) \/ Embed(t, k)
      PROVE  j \notin hurt
    BY <1>4 DEF Deactivate, Embed, Begin
<1>5. ASSUME NEW t \in Task,
             \/ WriteEmbedding(t) \/ GetId(t) \/ Incr(t) \/ SetJob(t) \/ SetId(t) \/ Place(t)
             \/ Find(t) \/ Unindex(t) \/ Unmap(t) \/ Save(t)
             \/ Clear(t) \/ Swap(t) \/ ReadRows(t) \/ RowsDone(t)
             \/ CommandFails(t) \/ SaveFails(t) \/ RebuildFails(t)
             \/ \E r \in rows[t] : NextRow(t, r)
      PROVE  j \notin hurt
    BY <1>2, <1>5 DEF WriteEmbedding, GetId, Incr, SetJob, SetId, Place, Find, Unindex, Unmap,
       Save, Clear, StartAgain, Swap, ReadRows, RowsDone, CommandFails, SaveFails,
       RebuildFails, NextRow, ghostVars
<1>6. CASE UNCHANGED vars \/ \E c \in BOOLEAN : Restart(c)
    BY <1>6 DEF Restart, vars, ghostVars
<1>. QED
    BY <1>1, <1>3, <1>4, <1>5, <1>6 DEF Next

\* A restart that does not hurt j loses nothing of it.
LEMMA RestartSpares ==
    ASSUME NEW j \in Job, NEW c \in BOOLEAN, Restart(c), j \notin hurt'
    PROVE  /\ j \notin hurt /\ Rebuilding = {} /\ ~oldFile /\ BusyOn(j) = {}
           /\ \A i \in Labels(index', j) \cup Labels(index, j) : index'[i] = index[i]
<1> DEFINE ix == IF c THEN Empty ELSE file
           astray == oldFile \/ Rebuilding # {}
           lost == {k \in Job : \/ BusyOn(k) # {}
                                \/ \E i \in Labels(ix, k) \cup Labels(index, k) :
                                     ix[i] # index[i]}
<1>1. index' = ix /\ hurt' = IF astray THEN Job ELSE hurt \cup lost
    BY DEF Restart
<1>2. ~astray /\ j \notin hurt /\ j \notin lost
    BY <1>1
<1>3. BusyOn(j) = {} /\ \A i \in Labels(ix, j) \cup Labels(index, j) : ix[i] = index[i]
    BY <1>2
<1> QED
    BY <1>1, <1>2, <1>3

\* The tasks of j stay in turn when a step starts no task and ends no clearing.
LEMMA InTurnFrame ==
    ASSUME NEW j, InTurn(j), mixed' = mixed,
           \A u \in Task : Busy(u)' => /\ Busy(u) /\ kind'[u] = kind[u]
                                       /\ kind[u] = "rebuild" \/ job'[u] = job[u],
           \A u \in Task : pc[u] = "clear" => pc'[u] = "clear"
    PROVE  InTurn(j)'
<1>1. (\A t, u \in Task : Rebuilds(t) /\ Busy(u) => u = t)'
    BY DEF InTurn, Rebuilds
<1>2. BusyOn(j)' \subseteq BusyOn(j)
    BY DEF BusyOn
<1>. QED
    BY <1>1, <1>2 DEF InTurn

\* A step that does not hurt j starts no task of j beside another, and none beside a
\* rebuild.
LEMMA InTurnStep ==
    ASSUME TypeOK, TaskOK, NEW j \in Job, j \notin hurt, j \notin hurt', InTurn(j), [Next]_vars
    PROVE  InTurn(j)'
<1>. USE DEF Goto, taskVars, ghostVars
<1>1. ASSUME NEW t \in Task, NEW k \in Job, NEW k1, NEW at, Begin(t, k1, at, k),
             k1 # "rebuild", at \notin {"idle", "save", "clear"}
      PROVE  InTurn(j)'
  <2>1. /\ Rebuilding = {} /\ (k = j => BusyOn(j) = {}) /\ ~Busy(t)
        /\ \A u \in Task \ {t} : UNCHANGED <<pc[u], kind[u], job[u]>>
        /\ pc[t] = "idle" /\ pc'[t] = at /\ kind'[t] = k1 /\ job'[t] = k
        /\ (mixed' => mixed)
      BY <1>1 DEF Begin, TypeOK, Busy
  <2>2. \A u \in Task : ~Rebuilds(u)'
      BY <1>1, <2>1 DEF Rebuilds, Rebuilding, Busy
  <2>3. \A u \in Task : pc[u] # "clear"
      BY <2>1 DEF Rebuilding, Busy, TaskOK
  <2>4. ASSUME NEW u \in BusyOn(j)', NEW v \in BusyOn(j)'
        PROVE  u = v
    <3>1. \A w \in BusyOn(j)' : w \in BusyOn(j) \/ (w = t /\ k = j)
        BY <2>1 DEF BusyOn, Busy
    <3> QED
        BY <2>1, <2>4, <3>1 DEF InTurn
  <2> QED
      BY <2>1, <2>2, <2>3, <2>4 DEF InTurn
<1>2. ASSUME NEW t \in Task, NEW k \in Job, Deactivate(t, k) \/ Embed(t, k)
      PROVE  InTurn(j)'
    BY <1>1, <1>2 DEF Deactivate, Embed
<1>3. ASSUME NEW t \in Task, Rebuild(t)
      PROVE  InTurn(j)'
  <2>1. /\ \A u \in Task : ~Busy(u)
        /\ \A u \in Task \ {t} : pc'[u] = pc[u]
        /\ pc'[t] = "clear" /\ kind'[t] = "rebuild"
      BY <1>3 DEF Rebuild, TypeOK
  <2>2. \A u \in Task : Busy(u)' => u = t
      BY <2>1 DEF Busy
  <2> QED
      BY <2>1, <2>2 DEF InTurn, Rebuilds, BusyOn
<1>4. ASSUME NEW t \in Task, Clear(t)
      PROVE  InTurn(j)'
  <2>1. /\ \A u \in Task \ {t} : pc'[u] = pc[u]
        /\ pc[t] = "clear" /\ pc'[t] = "swap" /\ kind' = kind /\ job' = job
        /\ mixed' = \E u \in Task \ {t} : Busy(u)
      BY <1>4 DEF Clear, StartAgain, TypeOK
  <2>2. Rebuilds(t)
      BY <2>1 DEF Rebuilds, Busy, TaskOK
  <2>3. ~mixed'
      BY <2>1, <2>2 DEF InTurn
  <2>4. \A u \in Task : Busy(u)' => Busy(u)
      BY <2>1, <2>2 DEF Busy, Rebuilds
  <2> QED
      BY <2>1, <2>3, <2>4 DEF InTurn, Rebuilds, BusyOn
<1>5. ASSUME NEW t \in Task,
             \/ WriteEmbedding(t) \/ GetId(t) \/ Incr(t) \/ SetJob(t) \/ SetId(t) \/ Place(t)
      PROVE  InTurn(j)'
    BY <1>5, InTurnFrame DEF WriteEmbedding, GetId, Incr, SetJob, SetId, Place, AfterUpsert,
       TypeOK, Busy
<1>6. ASSUME NEW t \in Task, Find(t) \/ Unindex(t) \/ Unmap(t)
      PROVE  InTurn(j)'
    BY <1>6, InTurnFrame DEF Find, Unindex, Unmap, TypeOK, Busy
<1>7. ASSUME NEW t \in Task, Save(t) \/ SaveFails(t)
      PROVE  InTurn(j)'
    BY <1>7, InTurnFrame DEF Save, SaveFails, Rest, TypeOK, Busy
<1>8. ASSUME NEW t \in Task, CommandFails(t)
      PROVE  InTurn(j)'
    BY <1>8, InTurnFrame DEF CommandFails, AfterUpsert, TypeOK, Busy
<1>9. ASSUME NEW t \in Task, Swap(t) \/ ReadRows(t) \/ RowsDone(t)
      PROVE  InTurn(j)'
    BY <1>9, InTurnFrame DEF Swap, ReadRows, RowsDone, TypeOK, Busy
<1>10. ASSUME NEW t \in Task, NEW r \in rows[t], NextRow(t, r)
       PROVE  InTurn(j)'
  <2>1. kind[t] = "rebuild"
      BY <1>10 DEF NextRow, TaskOK
  <2> QED
      BY <1>10, <2>1, InTurnFrame DEF NextRow, TypeOK, Busy
<1>11. ASSUME NEW t \in Task, RebuildFails(t)
       PROVE  InTurn(j)'
    BY <1>11 DEF RebuildFails
<1>12. ASSUME NEW c \in BOOLEAN, Restart(c)
       PROVE  InTurn(j)'
  <2>1. Rebuilding = {} /\ mixed' = mixed /\ \A u \in Task : pc'[u] = "idle"
      BY <1>12, RestartSpares DEF Restart, TypeOK
  <2>2. ~mixed
      BY <2>1 DEF InTurn, Rebuilding, Busy, TaskOK
  <2> QED
      BY <2>1, <2>2 DEF InTurn, Rebuilds, BusyOn, Busy
<1>13. CASE UNCHANGED vars \/ \E k \in Job, c \in BOOLEAN : StoreJob(k, c)
    BY <1>13, InTurnFrame DEF StoreJob, vars, Busy
<1>. QED
    BY <1>2, <1>3, <1>4, <1>5, <1>6, <1>7, <1>8, <1>9, <1>10, <1>11, <1>12, <1>13 DEF Next

\* What ties j to a label stays when its key, the labels that lead to it and its
\* vectors do.
Untouched(j) ==
    /\ jobToId'[j] = jobToId[j]
    /\ \A k \in Id : idToJob'[k] = j <=> idToJob[k] = j
    /\ \A k \in Id : \/ index'[k] = index[k]
                     \/ /\ ~(index[k] # NoVector /\ index[k].job = j)
                        /\ ~(index'[k] # NoVector /\ index'[k].job = j)

\* A job that is untouched stands as it stood.
LEMMA TiedKept ==
    ASSUME NEW j \in Job, Untouched(j)
    PROVE  /\ \A i, ids, labels : Tied(j, i, ids, labels) => Tied(j, i, ids, labels)'
           /\ Gone(j) => Gone(j)'
           /\ \A i : Held(j, i) => Held(j, i)'
           /\ Whole(j) => Whole(j)'
           /\ Settled(j) /\ emb'[j] = emb[j] /\ (j \in active <=> j \in active') => Settled(j)'
<1>1. ASSUME NEW i, NEW ids, NEW labels, Tied(j, i, ids, labels)
      PROVE  Tied(j, i, ids, labels)'
    BY <1>1 DEF Tied, Untouched
<1>2. Gone(j) => Gone(j)'
    BY <1>1 DEF Gone
<1>3. \A i : Held(j, i) => Held(j, i)'
    BY <1>1 DEF Held
<1>4. Whole(j) => Whole(j)'
    BY <1>2, <1>3 DEF Whole
<1>5. \A i \in Id : Held(j, i) => index'[i] = index[i]
    BY DEF Held, Tied, Untouched
<1>6. ASSUME Settled(j), emb'[j] = emb[j], j \in active <=> j \in active'
      PROVE  Settled(j)'
    BY <1>2, <1>3, <1>5, <1>6 DEF Settled
<1> QED
    BY <1>1, <1>2, <1>3, <1>4, <1>6

\* A label held for one job is no label of another.
LEMMA LabelsApart ==
    ASSUME Inv, NEW j \in Job, InTurn(j), NEW t \in Task, pc[t] \in Holding, job[t] # j
    PROVE  /\ id[t] \in Id /\ job[t] \in Job /\ idToJob[id[t]] # j
           /\ ~(index[id[t]] # NoVector /\ index[id[t]].job = j)
<1>1. Busy(t) /\ id[t] \in Id /\ job[t] \in Job /\ pc[t] \notin Unread
    BY DEF Inv, TaskOK, Holding, Busy, Unread, Cleared
<1>2. \A u \in Task : pc[u] \notin {"clear", "swap"}
    BY <1>1 DEF InTurn, Inv, TaskOK, Rebuilds, Busy, Unread, Cleared
<1>3. ~mixed /\ ~Swapping
    BY <1>2 DEF InTurn, Swapping
<1>4. Claims(id[t], job[t])
    BY DEF Claims
<1>5. \A k \in Job : Claims(id[t], k) => k = job[t]
    BY <1>1, <1>3, <1>4 DEF Inv, OneOwner
<1> QED
    BY <1>1, <1>3, <1>5 DEF Claims

\* A step of one task that is not concerned with j keeps the phases of j.
LEMMA PhasesFrame ==
    ASSUME NEW j \in Job, Phases(j), Untouched(j), NEW t \in Task,
           emb'[j] = emb[j], j \in active <=> j \in active',
           \A u \in Task \ {t} : UNCHANGED <<pc[u], kind[u], job[u], vec[u], id[u], rows[u]>>,
           ~At(t, j, Upserting \cup Removing), ~At(t, j, Upserting \cup Removing)',
           Awaited(t, j) => Awaited(t, j)',
           \A u \in Task : Rebuilds(u)' => RebuildPhase(u, j)'
    PROVE  Phases(j)'
<1>1. ASSUME NEW u \in Task, At(u, j, Upserting)'
      PROVE  UpsertPhase(u, j)'
  <2>1. u # t
      BY <1>1 DEF At
  <2>2. UNCHANGED <<pc[u], job[u], vec[u], id[u]>>
      BY <2>1
  <2>3. UpsertPhase(u, j)
      BY <1>1, <2>2 DEF Phases, At
  <2> QED
      BY <2>2, <2>3, TiedKept DEF UpsertPhase
<1>2. ASSUME NEW u \in Task, At(u, j, Removing)'
      PROVE  RemovePhase(u, j)'
  <2>1. u # t
      BY <1>2 DEF At
  <2>2. UNCHANGED <<pc[u], job[u], id[u]>>
      BY <2>1
  <2>3. RemovePhase(u, j)
      BY <1>2, <2>2 DEF Phases, At
  <2> QED
      BY <2>2, <2>3, TiedKept DEF RemovePhase
<1>3. ASSUME (\A u \in Task : ~At(u, j, Upserting \cup Removing) /\ ~Awaited(u, j))'
      PROVE  Settled(j)'
  <2>1. ASSUME NEW u \in Task
        PROVE  ~At(u, j, Upserting \cup Removing) /\ ~Awaited(u, j)
    <3>1. CASE u = t
        BY <1>3, <3>1
    <3>2. CASE u # t
        BY <1>3, <3>2 DEF At, Awaited, Rebuilds, Busy
    <3> QED
        BY <3>1, <3>2
  <2>2. Settled(j)
      BY <2>1 DEF Phases
  <2> QED
      BY <2>2, TiedKept
<1> QED
    BY <1>1, <1>2, <1>3 DEF Phases

\* A step of a task that works on j, or rebuilds, answers for all the phases of j.
LEMMA PhasesOwn ==
    ASSUME TaskOK, KindOK, NEW j \in Job, InTurn(j), NEW t \in Task, Busy(t),
           Rebuilds(t) \/ job[t] = j,
           \A u \in Task \ {t} : UNCHANGED <<pc[u], kind[u], job[u]>>,
           At(t, j, Upserting)' => UpsertPhase(t, j)',
           At(t, j, Removing)' => RemovePhase(t, j)',
           Rebuilds(t)' => RebuildPhase(t, j)',
           ~At(t, j, Upserting \cup Removing)' /\ ~Awaited(t, j)' => Settled(j)'
    PROVE  Phases(j)'
<1>1. \A u \in Task \ {t} : ~Rebuilds(u)
    BY DEF InTurn
<1>2. \A u \in Task \ {t} : ~At(u, j, Upserting \cup Removing)
  <2> SUFFICES ASSUME NEW u \in Task \ {t}, At(u, j, Upserting \cup Removing)
               PROVE  FALSE
      OBVIOUS
  <2>1. Busy(u) /\ job[u] = j
      BY DEF At, Busy, Upserting, Removing
  <2>2. ~Rebuilds(t)
      BY <2>1 DEF InTurn
  <2>3. t \in BusyOn(j) /\ u \in BusyOn(j)
      BY <1>1, <2>1, <2>2 DEF BusyOn, Rebuilds
  <2> QED
      BY <2>3 DEF InTurn
<1>3. \A u \in Task \ {t} : ~Rebuilds(u)' /\ ~At(u, j, Upserting)' /\ ~At(u, j, Removing)'
    BY <1>1, <1>2 DEF At, Rebuilds, Busy
<1> QED
    BY <1>3 DEF Phases, Awaited, At

\* A task that works on another job keeps the phases of j.
LEMMA OtherJobStep ==
    ASSUME Inv, KindOK, NEW j \in Job, InTurn(j), Phases(j), NEW t \in Task,
           pc[t] \in Upserting \cup Removing, job[t] # j,
           \/ WriteEmbedding(t) \/ GetId(t) \/ Incr(t) \/ SetJob(t) \/ SetId(t) \/ Place(t)
           \/ Find(t) \/ Unindex(t) \/ Unmap(t) \/ CommandFails(t)
    PROVE  Phases(j)'
<1>. USE DEF Goto
<1>1. TypeOK /\ TaskOK /\ job[t] \in Job /\ Busy(t) /\ pc[t] \notin Unread
    BY DEF Inv, TaskOK, Upserting, Removing, Unread, Cleared, Busy
<1>2. /\ \A u \in Task \ {t} : UNCHANGED <<pc[u], kind[u], job[u], vec[u], id[u], rows[u]>>
      /\ UNCHANGED <<kind, job, vec, rows, active>>
      /\ pc'[t] \notin Unread /\ (Rebuilds(t) => pc'[t] \notin {"idle", "save"})
  <2>1. CASE WriteEmbedding(t) \/ GetId(t) \/ Incr(t)
      BY <1>1, <2>1 DEF WriteEmbedding, GetId, Incr, TypeOK, Unread, Cleared, tableVars,
         Rebuilds
  <2>2. CASE SetJob(t) \/ SetId(t) \/ Place(t)
      BY <1>1, <2>2 DEF SetJob, SetId, Place, AfterUpsert, TypeOK, Unread, Cleared, tableVars,
         Rebuilds
  <2>3. CASE Find(t) \/ Unindex(t) \/ Unmap(t)
      BY <1>1, <2>3 DEF Find, Unindex, Unmap, TypeOK, Unread, Cleared, tableVars, Rebuilds,
         KindOK, Removing
  <2>4. CASE CommandFails(t)
      BY <1>1, <2>4 DEF CommandFails, AfterUpsert, TypeOK, Unread, Cleared, tableVars, Rebuilds
  <2> QED
      BY <2>1, <2>2, <2>3, <2>4
<1>3. emb'[j] = emb[j]
    BY <1>1 DEF WriteEmbedding, GetId, Incr, SetJob, SetId, Place, Find, Unindex, Unmap,
       CommandFails, tableVars, TypeOK
<1>4. Untouched(j)
  <2>1. CASE WriteEmbedding(t) \/ GetId(t) \/ Incr(t) \/ Find(t)
      BY <2>1 DEF WriteEmbedding, GetId, Incr, Find, Untouched, redisVars
  <2>2. CASE SetJob(t)
      BY <1>1, <2>2 DEF SetJob, Untouched, TypeOK
  <2>3. CASE SetId(t) \/ Place(t) \/ Unindex(t) \/ Unmap(t)
    <3>1. /\ pc[t] \in Holding
          /\ \/ UNCHANGED index
             \/ index' = [index EXCEPT ![id[t]] = [job |-> job[t], text |-> vec[t]]]
             \/ index' = [index EXCEPT ![id[t]] = NoVector]
          /\ \/ UNCHANGED idToJob
             \/ idToJob' = [idToJob EXCEPT ![id[t]] = job[t]]
             \/ idToJob' = [idToJob EXCEPT ![id[t]] = NoJob]
          /\ UNCHANGED jobToId \/ jobToId' = [jobToId EXCEPT ![job[t]] = 0]
        BY <2>3 DEF SetId, Place, Unindex, Unmap, Holding, redisVars
    <3>2. /\ id[t] \in Id /\ idToJob[id[t]] # j
          /\ ~(index[id[t]] # NoVector /\ index[id[t]].job = j)
        BY <3>1, LabelsApart
    <3>3. jobToId'[j] = jobToId[j]
        BY <1>1, <3>1 DEF TypeOK
    <3>4. \A k \in Id : idToJob'[k] = j <=> idToJob[k] = j
        BY <1>1, <3>1, <3>2, VectorIndexAssumption DEF TypeOK
    <3>5. \A k \in Id : \/ index'[k] = index[k]
                        \/ /\ ~(index[k] # NoVector /\ index[k].job = j)
                           /\ ~(index'[k] # NoVector /\ index'[k].job = j)
      <4> SUFFICES ASSUME NEW k \in Id, index'[k] # index[k]
                   PROVE  /\ ~(index[k] # NoVector /\ index[k].job = j)
                          /\ ~(index'[k] # NoVector /\ index'[k].job = j)
          OBVIOUS
      <4>1. k = id[t] /\ index'[k] \in {[job |-> job[t], text |-> vec[t]], NoVector}
          BY <1>1, <3>1, <3>2 DEF TypeOK
      <4> QED
          BY <3>2, <4>1
    <3> QED
        BY <3>3, <3>4, <3>5 DEF Untouched
  <2>4. CASE CommandFails(t)
    <3>1. CASE pc[t] = "place"
      <4>1. id[t] \in Id /\ ~(index[id[t]] # NoVector /\ index[id[t]].job = j)
          BY <3>1, LabelsApart DEF Holding
      <4>2. index' = [index EXCEPT ![id[t]] = NoVector] /\ UNCHANGED redisVars
          BY <2>4, <3>1 DEF CommandFails
      <4> QED
          BY <1>1, <4>1, <4>2 DEF Untouched, TypeOK, redisVars
    <3>2. CASE pc[t] # "place"
        BY <2>4, <3>2 DEF CommandFails, Untouched, redisVars
    <3> QED
        BY <3>1, <3>2
  <2> QED
      BY <2>1, <2>2, <2>3, <2>4
<1>5. ~At(t, j, Upserting \cup Removing) /\ ~At(t, j, Upserting \cup Removing)'
    BY <1>2 DEF At
<1>6. Awaited(t, j) => Awaited(t, j)'
    BY <1>1, <1>2 DEF Awaited, Rebuilds, Busy
<1>7. ASSUME NEW u \in Task, Rebuilds(u)'
      PROVE  RebuildPhase(u, j)'
  <2>1. u = t
    <3>1. u # t => Rebuilds(u)
        BY <1>2, <1>7 DEF Rebuilds, Busy
    <3> QED
        BY <1>1, <3>1 DEF InTurn
  <2>2. Rebuilds(t)
      BY <1>1, <1>2, <1>7, <2>1 DEF Rebuilds
  <2>3. RebuildPhase(t, j)
      BY <2>2 DEF Phases
  <2>4. pc'[t] \notin Cleared /\ pc'[t] # "rows"
      BY <1>2 DEF Unread, Cleared
  <2>5. ASSUME NEW r \in rows[t], r.job = j
        PROVE  /\ j \in active' /\ emb'[j] \in {0, r.text} /\ Gone(j)' /\ ~At(t, j, Upserting)'
               /\ \A q \in rows'[t] : q.job = j => q = r
      BY <1>1, <1>2, <1>3, <1>4, <2>3, <2>5, TiedKept DEF RebuildPhase, At
  <2> QED
      BY <1>2, <2>1, <2>4, <2>5 DEF RebuildPhase
<1> QED
    BY <1>2, <1>3, <1>4, <1>5, <1>6, <1>7, PhasesFrame

\* write, GET, INCR, SET, SET, add_with_ids: an upsert of j ties it to one label.
LEMMA UpsertStep ==
    ASSUME Inv, KindOK, NEW j \in Job, j \notin hurt', InTurn(j), Phases(j), NEW t \in Task,
           At(t, j, Upserting),
           \/ WriteEmbedding(t) \/ GetId(t) \/ Incr(t) \/ SetJob(t) \/ SetId(t) \/ Place(t)
           \/ CommandFails(t)
    PROVE  Phases(j)'
<1>. USE DEF Goto
<1>1. TypeOK /\ TaskOK /\ job[t] = j /\ Busy(t) /\ pc[t] \notin Unread /\ vec[t] \in Text
    BY DEF Inv, TaskOK, At, Upserting, Unread, Cleared, Busy
<1>2. /\ UpsertPhase(t, j)
      /\ Rebuilds(t) => \A r \in rows[t] : r.job # j
    BY <1>1 DEF Phases, RebuildPhase
<1>3. ASSUME \A u \in Task \ {t} : UNCHANGED <<pc[u], kind[u], job[u]>>,
             UNCHANGED <<kind[t], job[t], rows[t]>>, pc'[t] \notin Unread,
             \/ pc'[t] \in Upserting /\ UpsertPhase(t, j)'
             \/ pc'[t] \in {"save", "next"} /\ Settled(j)'
      PROVE  Phases(j)'
  <2>1. Rebuilds(t)' => RebuildPhase(t, j)'
    <3>1. Rebuilds(t)' => Rebuilds(t)
        BY <1>1, <1>3 DEF Rebuilds
    <3> QED
        BY <1>2, <1>3, <3>1 DEF RebuildPhase, Unread, Cleared
  <2>2. ~At(t, j, Removing)'
      BY <1>3 DEF At, Upserting, Removing
  <2>3. At(t, j, Upserting)' => UpsertPhase(t, j)'
      BY <1>3 DEF At, Upserting
  <2>4. ~At(t, j, Upserting \cup Removing)' => Settled(j)'
      BY <1>1, <1>3 DEF At
  <2> QED
      BY <1>1, <1>3, <2>1, <2>2, <2>3, <2>4, PhasesOwn
<1>4. CASE WriteEmbedding(t)
  <2>1. /\ pc[t] = "write" /\ pc' = [pc EXCEPT ![t] = "get"]
        /\ UNCHANGED <<kind, job, vec, rows, active, jobToId, idToJob, index>>
        /\ emb'[j] = vec[t]
      BY <1>1, <1>4 DEF WriteEmbedding, TypeOK, redisVars
  <2>2. Untouched(j)
      BY <2>1 DEF Untouched
  <2>3. UpsertPhase(t, j)' /\ pc'[t] = "get"
      BY <1>1, <1>2, <2>1, <2>2, TiedKept DEF UpsertPhase, TypeOK
  <2> QED
      BY <1>1, <1>3, <2>1, <2>3 DEF Upserting, Unread, Cleared, TypeOK
<1>5. CASE GetId(t)
  <2>1. /\ pc[t] = "get" /\ pc' = [pc EXCEPT ![t] = IF jobToId[j] # 0 THEN "place" ELSE "incr"]
        /\ UNCHANGED <<kind, job, vec, rows, active, emb, jobToId, idToJob, index>>
        /\ id'[t] = jobToId[j]
      BY <1>1, <1>5 DEF GetId, TypeOK, tableVars, redisVars
  <2>2. Untouched(j)
      BY <2>1 DEF Untouched
  <2>3. Whole(j) /\ j \in active /\ emb[j] \in {0, vec[t]}
      BY <1>2, <2>1 DEF UpsertPhase
  <2>4. jobToId[j] = 0 => Gone(j)'
      BY <2>2, <2>3, TiedKept, VectorIndexAssumption DEF Whole, Held, Tied, Id
  <2>5. jobToId[j] # 0 => Held(j, jobToId[j])'
    <3>1. ASSUME jobToId[j] # 0
          PROVE  Held(j, jobToId[j])
        BY <2>3, <3>1 DEF Whole, Held, Gone, Tied
    <3>2. PICK i : i = jobToId[j]
        OBVIOUS
    <3>3. Held(j, i) => Held(j, i)'
        BY <2>2, TiedKept
    <3> QED
        BY <2>1, <3>1, <3>2, <3>3 DEF Held
  <2>6. UpsertPhase(t, j)' /\ pc'[t] \in {"place", "incr"}
    <3>1. pc'[t] = IF jobToId[j] # 0 THEN "place" ELSE "incr"
        BY <1>1, <2>1 DEF TypeOK
    <3>2. pc'[t] = "place" => Held(j, id[t])'
        BY <2>1, <2>5, <3>1 DEF Held
    <3> QED
        BY <2>1, <2>3, <2>4, <3>1, <3>2 DEF UpsertPhase
  <2> QED
      BY <1>1, <1>3, <2>1, <2>6 DEF Upserting, Unread, Cleared, TypeOK
<1>6. CASE Incr(t)
  <2>1. /\ pc[t] = "incr" /\ pc' = [pc EXCEPT ![t] = "setjob"]
        /\ UNCHANGED <<kind, job, vec, rows, active, emb, jobToId, idToJob, index>>
      BY <1>6 DEF Incr, tableVars
  <2>2. UpsertPhase(t, j)' /\ pc'[t] = "setjob"
    <3>1. Untouched(j) /\ pc'[t] = "setjob"
        BY <1>1, <2>1 DEF Untouched, TypeOK
    <3> QED
        BY <1>2, <2>1, <3>1, TiedKept DEF UpsertPhase
  <2> QED
      BY <1>1, <1>3, <2>1, <2>2 DEF Upserting, Unread, Cleared, TypeOK
<1>7. CASE SetJob(t)
  <2>1. /\ pc[t] = "setjob" /\ pc' = [pc EXCEPT ![t] = "setid"] /\ pc'[t] = "setid"
        /\ UNCHANGED <<kind, job, vec, id, rows, active, emb, idToJob, index>>
        /\ jobToId'[j] = id[t]
      BY <1>1, <1>7 DEF SetJob, tableVars, TypeOK
  <2>2. UpsertPhase(t, j)'
      BY <1>2, <2>1 DEF UpsertPhase, Gone, Tied
  <2> QED
      BY <1>1, <1>3, <2>1, <2>2 DEF Upserting, Unread, Cleared, TypeOK
<1>8. CASE SetId(t)
  <2>1. /\ pc[t] = "setid" /\ pc' = [pc EXCEPT ![t] = "place"] /\ pc'[t] = "place"
        /\ UNCHANGED <<kind, job, vec, id, rows, active, emb, jobToId, index>>
        /\ idToJob' = [idToJob EXCEPT ![id[t]] = j] /\ id[t] \in Id
      BY <1>1, <1>8 DEF SetId, tableVars, TypeOK, TaskOK, Holding
  <2>2. \A k \in Id : idToJob'[k] = j <=> k \in {id[t]}
      BY <1>1, <1>2, <2>1 DEF UpsertPhase, Tied, TypeOK
  <2>3. Tied(j, id[t], {id[t]}, {})'
      BY <1>2, <2>1, <2>2 DEF UpsertPhase, Tied
  <2>4. UpsertPhase(t, j)'
      BY <1>2, <2>1, <2>3 DEF UpsertPhase
  <2> QED
      BY <1>1, <1>3, <2>1, <2>4 DEF Upserting, Unread, Cleared, TypeOK
<1>9. CASE Place(t)
  <2>1. /\ pc[t] = "place" /\ pc' = [pc EXCEPT ![t] = AfterUpsert(t)]
        /\ pc'[t] \in {"save", "next"}
        /\ UNCHANGED <<kind, job, vec, id, rows, active, emb, jobToId, idToJob>>
        /\ index' = [index EXCEPT ![id[t]] = [job |-> j, text |-> vec[t]]] /\ id[t] \in Id
      BY <1>1, <1>9 DEF Place, AfterUpsert, tableVars, redisVars, TypeOK, TaskOK, Holding
  <2>2. index'[id[t]] = [job |-> j, text |-> vec[t]] /\ index'[id[t]] # NoVector
    <3>1. index'[id[t]] = [job |-> j, text |-> vec[t]]
        BY <1>1, <2>1 DEF TypeOK
    <3> QED
        BY <1>1, <3>1, VectorIndexAssumption DEF Text
  <2>3. \A k \in Id : index'[k] # NoVector /\ index'[k].job = j <=> k \in {id[t]}
      BY <1>1, <1>2, <2>1, <2>2 DEF UpsertPhase, Held, Tied, TypeOK
  <2>4. \E i \in Id : Held(j, i)' /\ index'[i].text = vec[t] /\ j \in active' /\
                 emb'[j] \in {0, vec[t]}
    <3>1. Held(j, id[t])'
        BY <1>2, <2>1, <2>3 DEF UpsertPhase, Held, Tied
    <3>2. PICK i \in Id : i = id[t]
        BY <2>1
    <3>3. Held(j, i)' /\ index'[i].text = vec[t]
        BY <2>1, <2>2, <3>1, <3>2 DEF Held
    <3> QED
        BY <1>2, <2>1, <3>3 DEF UpsertPhase
  <2>5. Settled(j)'
      BY <2>4 DEF Settled
  <2> QED
      BY <1>1, <1>3, <2>1, <2>5 DEF Unread, Cleared, TypeOK
<1>10. CASE CommandFails(t)
  <2>1. pc[t] = "write" /\ kind[t] = "embed"
      BY <1>1, <1>10 DEF CommandFails, KindOK
  <2>2. /\ pc' = [pc EXCEPT ![t] = "save"]
        /\ UNCHANGED <<kind, job, vec, rows, active, emb, jobToId, idToJob, index>>
      BY <1>10, <2>1 DEF CommandFails, AfterUpsert, tableVars, redisVars
  <2>3. Settled(j)
      BY <1>2, <2>1 DEF UpsertPhase, Settled, Whole
  <2>4. Settled(j)'
    <3>1. Untouched(j)
        BY <2>2 DEF Untouched
    <3> QED
        BY <2>2, <2>3, <3>1, TiedKept
  <2> QED
      BY <1>1, <1>3, <2>2, <2>4 DEF Unread, Cleared, TypeOK
<1> QED
    BY <1>4, <1>5, <1>6, <1>7, <1>8, <1>9, <1>10

\* GET, remove_ids, DEL: a removal leaves nothing that ties j to a label.
LEMMA RemoveStep ==
    ASSUME Inv, KindOK, NEW j \in Job, InTurn(j), Phases(j), NEW t \in Task,
           At(t, j, Removing), Find(t) \/ Unindex(t) \/ Unmap(t)
    PROVE  Phases(j)'
<1>. USE DEF Goto
<1>1. /\ TypeOK /\ TaskOK /\ job[t] = j /\ Busy(t) /\ kind[t] = "remove"
      /\ RemovePhase(t, j)
    BY DEF Inv, At, Removing, Busy, KindOK, Phases
<1>2. ASSUME \A u \in Task \ {t} : UNCHANGED <<pc[u], kind[u], job[u]>>,
             UNCHANGED <<kind[t], job[t]>>,
             \/ pc'[t] \in Removing /\ RemovePhase(t, j)'
             \/ pc'[t] = "save" /\ Settled(j)'
      PROVE  Phases(j)'
  <2>1. ~Rebuilds(t)'
      BY <1>1, <1>2 DEF Rebuilds
  <2>2. ~At(t, j, Upserting)'
      BY <1>2 DEF At, Upserting, Removing
  <2>3. At(t, j, Removing)' => RemovePhase(t, j)'
      BY <1>2 DEF At, Removing
  <2>4. ~At(t, j, Upserting \cup Removing)' => Settled(j)'
      BY <1>1, <1>2 DEF At
  <2> QED
      BY <1>1, <1>2, <2>1, <2>2, <2>3, <2>4, PhasesOwn
<1>3. CASE Find(t)
  <2>1. /\ pc[t] = "find"
        /\ pc' = [pc EXCEPT ![t] = IF jobToId[j] # 0 THEN "unindex" ELSE "save"]
        /\ UNCHANGED <<kind, job, active, emb, jobToId, idToJob, index>>
        /\ id'[t] = jobToId[j]
      BY <1>1, <1>3 DEF Find, TypeOK, tableVars, redisVars
  <2>2. Untouched(j)
      BY <2>1 DEF Untouched
  <2>3. Whole(j) /\ (j \in active => emb[j] = 0)
      BY <1>1, <2>1 DEF RemovePhase
  <2>4. CASE jobToId[j] = 0
    <3>1. Gone(j)'
        BY <2>2, <2>3, <2>4, TiedKept, VectorIndexAssumption DEF Whole, Held, Tied, Id
    <3>2. Settled(j)'
        BY <2>1, <2>3, <3>1 DEF Settled
    <3> QED
        BY <1>1, <1>2, <2>1, <2>4, <3>2 DEF TypeOK
  <2>5. CASE jobToId[j] # 0
    <3>1. Held(j, jobToId[j])
        BY <2>3, <2>5 DEF Whole, Held, Gone, Tied
    <3>2. PICK i : i = jobToId[j]
        OBVIOUS
    <3>3. Held(j, i) => Held(j, i)'
        BY <2>2, TiedKept
    <3>4. Held(j, id[t])'
        BY <2>1, <3>1, <3>2, <3>3 DEF Held
    <3>5. pc'[t] = "unindex"
        BY <1>1, <2>1, <2>5 DEF TypeOK
    <3>6. RemovePhase(t, j)'
        BY <2>1, <2>3, <3>4, <3>5 DEF RemovePhase
    <3> QED
        BY <1>1, <1>2, <2>1, <3>5, <3>6 DEF TypeOK, Removing
  <2> QED
      BY <2>4, <2>5
<1>4. CASE Unindex(t)
  <2>1. /\ pc[t] = "unindex" /\ pc' = [pc EXCEPT ![t] = "unmap"] /\ pc'[t] = "unmap"
        /\ UNCHANGED <<kind, job, id, active, emb, jobToId, idToJob>>
        /\ index' = [index EXCEPT ![id[t]] = NoVector] /\ id[t] \in Id
      BY <1>1, <1>4 DEF Unindex, TypeOK, TaskOK, Holding, tableVars, redisVars
  <2>2. \A k \in Id : index'[k] # NoVector /\ index'[k].job = j <=> k \in {}
      BY <1>1, <2>1 DEF RemovePhase, Held, Tied, TypeOK
  <2>3. Tied(j, id[t], {id[t]}, {})'
      BY <1>1, <2>1, <2>2 DEF RemovePhase, Held, Tied
  <2>4. RemovePhase(t, j)'
      BY <1>1, <2>1, <2>3 DEF RemovePhase
  <2> QED
      BY <1>1, <1>2, <2>1, <2>4 DEF TypeOK, Removing
<1>5. CASE Unmap(t)
  <2>1. /\ pc[t] = "unmap" /\ pc' = [pc EXCEPT ![t] = "save"] /\ pc'[t] = "save"
        /\ UNCHANGED <<kind, job, id, active, emb, index>>
        /\ jobToId'[j] = 0 /\ idToJob' = [idToJob EXCEPT ![id[t]] = NoJob] /\ id[t] \in Id
      BY <1>1, <1>5 DEF Unmap, TypeOK, TaskOK, Holding, tableVars
  <2>2. \A k \in Id : idToJob'[k] = j <=> k \in {}
      BY <1>1, <2>1, VectorIndexAssumption DEF RemovePhase, Tied, TypeOK
  <2>3. Gone(j)'
      BY <1>1, <2>1, <2>2 DEF RemovePhase, Gone, Tied
  <2>4. Settled(j)'
      BY <1>1, <2>1, <2>3 DEF RemovePhase, Settled
  <2> QED
      BY <1>1, <1>2, <2>1, <2>4 DEF TypeOK
<1> QED
    BY <1>3, <1>4, <1>5

\* A rebuild takes every job from the index, and comes to each row that has an embedding.
LEMMA RebuildStep ==
    ASSUME Inv, KindOK, NEW j \in Job, InTurn(j), Phases(j), NEW t \in Task,
           \/ Clear(t) \/ Swap(t) \/ ReadRows(t) \/ RowsDone(t)
           \/ \E r \in rows[t] : NextRow(t, r)
    PROVE  Phases(j)'
<1>. USE DEF Goto
<1>1. /\ TypeOK /\ TaskOK /\ Rebuilds(t) /\ kind[t] = "rebuild" /\ Busy(t)
      /\ RebuildPhase(t, j) /\ ~At(t, j, Upserting \cup Removing)
  <2>1. TypeOK /\ TaskOK /\ pc[t] \in {"clear", "swap", "rows", "next"}
      BY DEF Inv, Clear, Swap, ReadRows, RowsDone, NextRow
  <2>2. Rebuilds(t) /\ kind[t] = "rebuild" /\ Busy(t)
      BY <2>1 DEF TaskOK, Rebuilds, Busy
  <2> QED
      BY <2>1, <2>2 DEF Phases, At, Upserting, Removing
<1>2. ~Awaited(t, j) => Settled(j)
  <2>1. \A u \in Task : u # t => ~Busy(u)
      BY <1>1 DEF InTurn
  <2>2. \A u \in Task : u # t => ~At(u, j, Upserting \cup Removing) /\ ~Awaited(u, j)
      BY <2>1 DEF At, Upserting, Removing, Awaited, Rebuilds, Busy
  <2> QED
      BY <1>1, <2>2 DEF Phases
<1>3. /\ kind' = kind /\ kind'[t] = "rebuild" /\ active' = active /\ emb' = emb
      /\ \A u \in Task \ {t} : UNCHANGED <<pc[u], job[u]>>
  <2>1. CASE Clear(t)
      BY <1>1, <2>1 DEF Clear, StartAgain, tableVars, TypeOK
  <2>2. CASE Swap(t)
      BY <1>1, <2>2 DEF Swap, tableVars, TypeOK
  <2>3. CASE ReadRows(t)
      BY <1>1, <2>3 DEF ReadRows, tableVars, TypeOK
  <2>4. CASE RowsDone(t)
      BY <1>1, <2>4 DEF RowsDone, tableVars, TypeOK
  <2>5. CASE \E r \in rows[t] : NextRow(t, r)
      BY <1>1, <2>5 DEF NextRow, tableVars, TypeOK
  <2> QED
      BY <2>1, <2>2, <2>3, <2>4, <2>5
<1>4. ASSUME pc'[t] \in {"swap", "rows", "next", "save"}, Rebuilds(t)' => RebuildPhase(t, j)',
             ~Awaited(t, j)' => Settled(j)'
      PROVE  Phases(j)'
  <2>1. ~At(t, j, Upserting)' /\ ~At(t, j, Removing)'
      BY <1>4 DEF At, Upserting, Removing
  <2> QED
      BY <1>1, <1>3, <1>4, <2>1, PhasesOwn
<1>5. CASE Clear(t)
  <2>1. /\ pc'[t] = "swap" /\ \A k \in Job : jobToId'[k] = 0
        /\ \A i \in Id : idToJob'[i] = NoJob
      BY <1>1, <1>5 DEF Clear, TypeOK
  <2>2. RebuildPhase(t, j)'
      BY <2>1 DEF RebuildPhase, Unread, Cleared
  <2>3. Awaited(t, j)'
      BY <1>3, <2>1 DEF Awaited, Rebuilds, Busy, Unread, Cleared
  <2> QED
      BY <1>4, <2>1, <2>2, <2>3
<1>6. CASE Swap(t)
  <2>1. /\ pc[t] = "swap" /\ pc'[t] = "rows" /\ UNCHANGED <<jobToId, idToJob>>
        /\ \A i \in Id : index'[i] = NoVector
      BY <1>1, <1>6 DEF Swap, TypeOK, Empty, redisVars
  <2>2. RebuildPhase(t, j)'
      BY <1>1, <2>1 DEF RebuildPhase, Unread, Cleared
  <2>3. Awaited(t, j)'
      BY <1>3, <2>1 DEF Awaited, Rebuilds, Busy, Unread, Cleared
  <2> QED
      BY <1>4, <2>1, <2>2, <2>3
<1>7. CASE ReadRows(t)
  <2>1. /\ pc[t] = "rows" /\ pc'[t] = "next" /\ UNCHANGED <<jobToId, idToJob, index>>
        /\ rows'[t] = {[job |-> k, text |-> emb[k]] : k \in {l \in active : emb[l] # 0}}
      BY <1>1, <1>7 DEF ReadRows, TypeOK, redisVars
  <2>2. Gone(j)'
    <3>1. Gone(j)
        BY <1>1, <2>1, VectorIndexAssumption DEF RebuildPhase, Cleared, Gone, Tied
    <3>2. Untouched(j)
        BY <2>1 DEF Untouched
    <3> QED
        BY <3>1, <3>2, TiedKept
  <2>3. \A r \in rows'[t] : r.job = j => j \in active /\ r = [job |-> j, text |-> emb[j]]
      BY <2>1
  <2>4. ASSUME j \in active, emb[j] # 0
        PROVE  \E r \in rows'[t] : r.job = j
    <3>1. [job |-> j, text |-> emb[j]] \in rows'[t]
        BY <2>1, <2>4
    <3> WITNESS [job |-> j, text |-> emb[j]] \in rows'[t]
    <3> QED
        OBVIOUS
  <2>5. ~At(t, j, Upserting)' /\ pc'[t] \notin Cleared /\ pc'[t] # "rows"
      BY <2>1 DEF At, Upserting, Cleared
  <2>6. RebuildPhase(t, j)'
      BY <1>3, <2>2, <2>3, <2>5 DEF RebuildPhase
  <2>7. ~Awaited(t, j)' => Settled(j)'
    <3>1. ~Awaited(t, j)' => ~(j \in active /\ emb[j] # 0)
        BY <1>3, <2>1, <2>4 DEF Awaited, Rebuilds, Busy
    <3> QED
        BY <1>3, <2>2, <3>1 DEF Settled
  <2> QED
      BY <1>4, <2>1, <2>6, <2>7
<1>8. CASE RowsDone(t)
  <2>1. /\ pc[t] = "next" /\ pc'[t] = "save" /\ UNCHANGED <<jobToId, idToJob, index>>
        /\ rows[t] = {}
      BY <1>1, <1>8 DEF RowsDone, TypeOK, redisVars
  <2>2. ~Rebuilds(t)'
      BY <2>1 DEF Rebuilds, Busy
  <2>3. Settled(j)
      BY <1>2, <2>1 DEF Awaited, Unread, Cleared
  <2>4. Untouched(j)
      BY <2>1 DEF Untouched
  <2>5. Settled(j)'
      BY <1>3, <2>3, <2>4, TiedKept
  <2> QED
      BY <1>4, <2>1, <2>2, <2>5
<1>9. ASSUME NEW r \in rows[t], NextRow(t, r)
      PROVE  Phases(j)'
  <2>1. /\ pc[t] = "next" /\ pc'[t] = "get" /\ UNCHANGED <<jobToId, idToJob, index>>
        /\ rows'[t] = rows[t] \ {r} /\ job'[t] = r.job /\ vec'[t] = r.text
      BY <1>1, <1>9 DEF NextRow, TypeOK, redisVars
  <2>2. Untouched(j)
      BY <2>1 DEF Untouched
  <2>3. ~At(t, j, Removing)'
      BY <2>1 DEF At, Removing
  <2>4. pc[t] \notin Unread /\ pc'[t] \notin Unread
      BY <2>1 DEF Unread, Cleared
  <2>5. CASE r.job = j
    <3>1. /\ j \in active /\ emb[j] \in {0, r.text} /\ Gone(j)
          /\ \A q \in rows[t] : q.job = j => q = r
        BY <1>1, <1>9, <2>4, <2>5 DEF RebuildPhase
    <3>2. Gone(j)'
        BY <2>2, <3>1, TiedKept
    <3>3. UpsertPhase(t, j)'
        BY <1>3, <2>1, <3>1, <3>2 DEF UpsertPhase, Whole
    <3>4. RebuildPhase(t, j)'
        BY <2>1, <2>4, <3>1 DEF RebuildPhase, Unread, Cleared
    <3>5. At(t, j, Upserting)'
        BY <2>1, <2>5 DEF At, Upserting
    <3>6. ~(~At(t, j, Upserting \cup Removing)')
        BY <3>5 DEF At
    <3> QED
        BY <1>1, <1>3, <2>3, <3>3, <3>4, <3>6, PhasesOwn
  <2>6. CASE r.job # j
    <3>1. ~At(t, j, Upserting)'
        BY <2>1, <2>6 DEF At
    <3>2. ASSUME NEW q \in rows'[t], q.job = j
          PROVE  /\ j \in active' /\ emb'[j] \in {0, q.text} /\ Gone(j)'
                 /\ \A p \in rows'[t] : p.job = j => p = q
        BY <1>1, <1>3, <2>1, <2>2, <2>4, <3>2, TiedKept DEF RebuildPhase
    <3>3. RebuildPhase(t, j)'
        BY <2>1, <2>4, <3>1, <3>2 DEF RebuildPhase, Unread, Cleared
    <3>4. ~Awaited(t, j)' => ~Awaited(t, j)
        BY <1>1, <1>3, <2>1, <2>4, <2>6 DEF Awaited, Rebuilds, Busy
    <3>5. ~Awaited(t, j)' => Settled(j)'
        BY <1>2, <1>3, <2>2, <3>4, TiedKept
    <3> QED
        BY <1>1, <1>3, <2>3, <3>1, <3>3, <3>5, PhasesOwn
  <2> QED
      BY <2>5, <2>6
<1> QED
    BY <1>5, <1>6, <1>7, <1>8, <1>9

\* A task that has saved, or could not, leaves the labels to the others.
LEMMA SaveStep ==
    ASSUME TypeOK, NEW j \in Job, Phases(j), NEW t \in Task, Save(t) \/ SaveFails(t)
    PROVE  Phases(j)'
<1>1. /\ UNCHANGED <<active, emb, jobToId, idToJob, index>>
      /\ \A u \in Task \ {t} : UNCHANGED <<pc[u], kind[u], job[u], vec[u], id[u], rows[u]>>
      /\ pc[t] = "save" /\ pc'[t] = "idle"
    BY DEF Save, SaveFails, Goto, Rest, TypeOK, tableVars, redisVars
<1>2. Untouched(j)
    BY <1>1 DEF Untouched
<1>3. ~At(t, j, Upserting \cup Removing) /\ ~At(t, j, Upserting \cup Removing)'
    BY <1>1 DEF At, Upserting, Removing
<1>4. ~Awaited(t, j)
    BY <1>1 DEF Awaited, Rebuilds, Busy
<1>5. ASSUME NEW u \in Task, Rebuilds(u)'
      PROVE  RebuildPhase(u, j)'
  <2>1. u # t
      BY <1>1, <1>5 DEF Rebuilds, Busy
  <2>2. RebuildPhase(u, j)
      BY <1>1, <1>5, <2>1 DEF Rebuilds, Busy, Phases
  <2> QED
      BY <1>1, <2>1, <2>2 DEF RebuildPhase, At, Gone, Tied
<1> QED
    BY <1>1, <1>2, <1>3, <1>4, <1>5, PhasesFrame

\* A job nobody works on, and no rebuild will come to, is settled.
LEMMA QuietSettled ==
    ASSUME TaskOK, KindOK, NEW j \in Job, Phases(j), Quiet(j)
    PROVE  /\ Settled(j)
           /\ \A u \in Task : ~At(u, j, Upserting \cup Removing) /\ ~Rebuilds(u)
<1>1. \A u \in Task : ~Rebuilds(u)
    BY DEF Quiet, Rebuilding, Rebuilds
<1>2. ASSUME NEW u \in Task, At(u, j, Upserting \cup Removing)
      PROVE  FALSE
  <2>1. Busy(u) /\ job[u] = j
      BY <1>2 DEF At, Upserting, Removing, Busy
  <2> QED
      BY <1>1, <2>1 DEF Quiet, BusyOn, Rebuilds
<1> QED
    BY <1>1, <1>2 DEF Phases, Awaited

\* A task that begins finds its job settled.
LEMMA BeginStep ==
    ASSUME TypeOK, TaskOK, KindOK, NEW j \in Job, Phases(j), j \notin hurt',
           NEW t \in Task, NEW k \in Job, Deactivate(t, k) \/ Embed(t, k)
    PROVE  Phases(j)'
<1>1. /\ UNCHANGED <<emb, jobToId, idToJob, index>>
      /\ \A u \in Task \ {t} : UNCHANGED <<pc[u], kind[u], job[u], vec[u], id[u], rows[u]>>
      /\ pc[t] = "idle" /\ pc'[t] \in {"find", "write"} /\ kind'[t] # "rebuild" /\ job'[t] = k
      /\ Rebuilding = {} /\ (k = j => BusyOn(j) = {})
      /\ j # k => (j \in active <=> j \in active')
    BY DEF Deactivate, Embed, Begin, Goto, TypeOK, tableVars, redisVars
<1>2. Untouched(j)
    BY <1>1 DEF Untouched
<1>3. \A u \in Task : ~Rebuilds(u) /\ ~Rebuilds(u)'
    BY <1>1 DEF Rebuilding, Rebuilds, Busy
<1>4. CASE k # j
  <2>1. ~At(t, j, Upserting \cup Removing) /\ ~At(t, j, Upserting \cup Removing)'
      BY <1>1, <1>4 DEF At, Upserting, Removing
  <2>2. ~Awaited(t, j)
      BY <1>3 DEF Awaited
  <2> QED
      BY <1>1, <1>2, <1>3, <1>4, <2>1, <2>2, PhasesFrame
<1>5. CASE k = j
  <2>1. /\ Settled(j)
        /\ \A u \in Task : ~At(u, j, Upserting \cup Removing)
      BY <1>1, <1>5, QuietSettled DEF Quiet
  <2>2. \A u \in Task \ {t} : ~At(u, j, Upserting)' /\ ~At(u, j, Removing)'
      BY <1>1, <2>1 DEF At
  <2>3. Whole(j)'
    <3>1. Whole(j)
        BY <2>1 DEF Settled, Whole
    <3> QED
        BY <1>2, <3>1, TiedKept
  <2>4. At(t, j, Upserting)' => UpsertPhase(t, j)'
    <3>1. At(t, j, Upserting)' => pc'[t] = "write" /\ j \in active' /\ emb'[j] = 0
        BY <1>1, <1>5 DEF At, Upserting, Deactivate, Embed, Begin, Goto, TypeOK, tableVars
    <3> QED
        BY <2>3, <3>1 DEF UpsertPhase
  <2>5. At(t, j, Removing)' => RemovePhase(t, j)'
    <3>1. At(t, j, Removing)' => pc'[t] = "find" /\ j \notin active'
        BY <1>1, <1>5 DEF At, Removing, Deactivate, Embed, Begin, Goto, TypeOK, tableVars
    <3> QED
        BY <2>3, <3>1 DEF RemovePhase
  <2>6. At(t, j, Upserting \cup Removing)'
      BY <1>1, <1>5 DEF At, Upserting, Removing
  <2> QED
      BY <1>3, <2>2, <2>4, <2>5, <2>6 DEF Phases
<1> QED
    BY <1>4, <1>5

\* A refresh leaves the row of j alone, or pending.
LEMMA StoreStep ==
    ASSUME NEW j \in Job, Phases(j), UNCHANGED <<taskVars, jobToId, idToJob, index>>,
           \/ emb'[j] = emb[j] /\ (j \in active <=> j \in active')
           \/ emb'[j] = 0 /\ j \in active'
    PROVE  Phases(j)'
<1>1. Untouched(j) /\ UNCHANGED <<pc, kind, job, vec, id, rows, jobToId, idToJob, index>>
    BY DEF Untouched, taskVars
<1>2. ASSUME NEW u \in Task, At(u, j, Upserting)'
      PROVE  UpsertPhase(u, j)'
  <2>1. UpsertPhase(u, j)
      BY <1>1, <1>2 DEF Phases, At
  <2> QED
      BY <1>1, <2>1, TiedKept DEF UpsertPhase
<1>3. ASSUME NEW u \in Task, At(u, j, Removing)'
      PROVE  RemovePhase(u, j)'
  <2>1. RemovePhase(u, j)
      BY <1>1, <1>3 DEF Phases, At
  <2> QED
      BY <1>1, <2>1, TiedKept DEF RemovePhase
<1>4. ASSUME NEW u \in Task, Rebuilds(u)'
      PROVE  RebuildPhase(u, j)'
  <2>1. RebuildPhase(u, j)
      BY <1>1, <1>4 DEF Phases, Rebuilds, Busy
  <2> QED
      BY <1>1, <2>1, TiedKept DEF RebuildPhase, At
<1>5. ASSUME (\A u \in Task : ~At(u, j, Upserting \cup Removing) /\ ~Awaited(u, j))'
      PROVE  Settled(j)'
  <2>1. Settled(j)
      BY <1>1, <1>5 DEF Phases, At, Awaited, Rebuilds, Busy
  <2>2. CASE emb'[j] = emb[j] /\ (j \in active <=> j \in active')
      BY <1>1, <2>1, <2>2, TiedKept
  <2>3. CASE emb'[j] = 0 /\ j \in active'
      BY <1>1, <2>1, <2>3, TiedKept DEF Settled
  <2> QED
      BY <2>2, <2>3
<1> QED
    BY <1>2, <1>3, <1>4, <1>5 DEF Phases

\* A restart that does not hurt j finds it settled, and loses nothing of it.
LEMMA RestartStep ==
    ASSUME TaskOK, KindOK, NEW j \in Job, Phases(j), j \notin hurt',
           NEW c \in BOOLEAN, Restart(c)
    PROVE  Phases(j)'
<1>1. /\ UNCHANGED <<active, emb, jobToId, idToJob>> /\ \A u \in Task : pc'[u] = "idle"
    BY DEF Restart, tableVars, redisVars
<1>2. Settled(j)
    BY RestartSpares, QuietSettled DEF Quiet
<1>3. Untouched(j)
  <2>1. \A k \in Id : k \in Labels(index', j) \cup Labels(index, j) => index'[k] = index[k]
      BY RestartSpares
  <2>2. \A k \in Id : \/ k \in Labels(index', j) \cup Labels(index, j)
                      \/ /\ ~(index[k] # NoVector /\ index[k].job = j)
                         /\ ~(index'[k] # NoVector /\ index'[k].job = j)
      BY DEF Labels
  <2> QED
      BY <1>1, <2>1, <2>2 DEF Untouched
<1>4. Settled(j)'
    BY <1>1, <1>2, <1>3, TiedKept
<1>5. \A u \in Task : ~At(u, j, Upserting)' /\ ~At(u, j, Removing)' /\ ~Rebuilds(u)'
    BY <1>1 DEF At, Upserting, Removing, Rebuilds, Busy
<1> QED
    BY <1>4, <1>5 DEF Phases

\* A rebuild that begins alone will put every job right, whatever went wrong before.
LEMMA RebuildBegins ==
    ASSUME TypeOK, NEW j \in Job, NEW t \in Task, Rebuild(t), \A u \in Task : ~Busy(u),
           mixed' = mixed
    PROVE  InTurn(j)' /\ Phases(j)'
<1>1. /\ \A u \in Task \ {t} : pc'[u] = pc[u]
      /\ pc'[t] = "clear" /\ kind'[t] = "rebuild"
    BY DEF Rebuild, Goto, TypeOK
<1>2. \A u \in Task : Busy(u)' => u = t
    BY <1>1 DEF Busy
<1>3. InTurn(j)'
    BY <1>1, <1>2 DEF InTurn, Rebuilds, BusyOn
<1>4. \A u \in Task : ~At(u, j, Upserting)' /\ ~At(u, j, Removing)'
    BY <1>1, <1>2 DEF At, Upserting, Removing, Busy
<1>5. \A u \in Task : Rebuilds(u)' => RebuildPhase(u, j)'
    BY <1>1, <1>2 DEF Rebuilds, RebuildPhase, Unread, Cleared
<1>6. Awaited(t, j)'
    BY <1>1 DEF Awaited, Rebuilds, Busy, Unread
<1> QED
    BY <1>3, <1>4, <1>5, <1>6 DEF Phases

\* Every step keeps every unhurt job in order.
LEMMA OrderlyStep ==
    ASSUME Inv, KindOK, Orderly, [Next]_vars
    PROVE  Orderly'
<1> SUFFICES ASSUME NEW j \in Job, j \notin hurt'
             PROVE  InTurn(j)' /\ Phases(j)'
    BY DEF Orderly
<1>1. TypeOK /\ TaskOK
    BY DEF Inv
<1>2. CASE \E t \in Task : Rebuild(t) /\ (\A u \in Task : ~Busy(u)) /\ mixed' = mixed
    BY <1>1, <1>2, RebuildBegins
<1>3. CASE j \notin hurt /\ \A t \in Task : ~Rebuild(t)
  <2>1. InTurn(j) /\ Phases(j)
      BY <1>3 DEF Orderly
  <2>2. InTurn(j)'
      BY <1>1, <1>3, <2>1, InTurnStep
  <2>3. ASSUME NEW k \in Job, NEW c \in BOOLEAN, StoreJob(k, c)
        PROVE  Phases(j)'
    <3>1. UNCHANGED <<taskVars, jobToId, idToJob, index>>
        BY <2>3 DEF StoreJob, redisVars
    <3>2. \/ emb'[j] = emb[j] /\ (j \in active <=> j \in active')
          \/ emb'[j] = 0 /\ j \in active'
      <4>1. CASE k # j
          BY <1>1, <2>3, <4>1 DEF StoreJob, TypeOK
      <4>2. CASE k = j /\ c
          BY <1>1, <2>3, <4>2 DEF StoreJob, TypeOK
      <4>3. CASE k = j /\ ~c
          BY <1>1, <2>3, <4>3 DEF StoreJob, TypeOK
      <4> QED
          BY <4>1, <4>2, <4>3
    <3> QED
        BY <2>1, <3>1, <3>2, StoreStep
  <2>4. ASSUME NEW t \in Task, NEW k \in Job, Deactivate(t, k) \/ Embed(t, k)
        PROVE  Phases(j)'
      BY <1>1, <2>1, <2>4, BeginStep
  <2>5. ASSUME NEW t \in Task,
               \/ WriteEmbedding(t) \/ GetId(t) \/ Incr(t) \/ SetJob(t) \/ SetId(t) \/ Place(t)
               \/ Find(t) \/ Unindex(t) \/ Unmap(t)
        PROVE  Phases(j)'
    <3>1. pc[t] \in Upserting /\ (Find(t) \/ Unindex(t) \/ Unmap(t)) => FALSE
        BY DEF Find, Unindex, Unmap, Goto, Upserting
    <3>2. \/ pc[t] \in Upserting
          \/ pc[t] \in Removing /\ (Find(t) \/ Unindex(t) \/ Unmap(t))
        BY <2>5 DEF WriteEmbedding, GetId, Incr, SetJob, SetId, Place, Find, Unindex, Unmap,
           Goto, Upserting, Removing
    <3>3. CASE job[t] # j
        BY <2>1, <2>5, <3>2, <3>3, OtherJobStep
    <3>4. CASE job[t] = j /\ pc[t] \in Upserting
        BY <2>1, <2>5, <3>1, <3>4, UpsertStep DEF At
    <3>5. CASE job[t] = j /\ pc[t] \in Removing /\ (Find(t) \/ Unindex(t) \/ Unmap(t))
        BY <2>1, <3>5, RemoveStep DEF At
    <3> QED
        BY <3>2, <3>3, <3>4, <3>5
  <2>6. ASSUME NEW t \in Task, CommandFails(t)
        PROVE  Phases(j)'
    <3>1. /\ pc[t] \in Upserting \cup Removing
          /\ pc[t] = "write" \/ job[t] # j
        BY <2>6 DEF CommandFails, Upserting, Removing
    <3>2. CASE job[t] # j
        BY <2>1, <2>6, <3>1, <3>2, OtherJobStep
    <3>3. CASE job[t] = j
      <4>1. At(t, j, Upserting)
          BY <3>1, <3>3 DEF At, Upserting
      <4> QED
          BY <2>1, <2>6, <4>1, UpsertStep
    <3> QED
        BY <3>2, <3>3
  <2>7. ASSUME NEW t \in Task, Save(t) \/ SaveFails(t)
        PROVE  Phases(j)'
      BY <1>1, <2>1, <2>7, SaveStep
  <2>8. ASSUME NEW t \in Task,
               \/ Clear(t) \/ Swap(t) \/ ReadRows(t) \/ RowsDone(t)
               \/ \E r \in rows[t] : NextRow(t, r)
        PROVE  Phases(j)'
      BY <2>1, <2>8, RebuildStep
  <2>9. ASSUME NEW t \in Task, RebuildFails(t)
        PROVE  FALSE
      BY <2>9 DEF RebuildFails
  <2>10. ASSUME NEW c \in BOOLEAN, Restart(c)
         PROVE  Phases(j)'
      BY <1>1, <2>1, <2>10, RestartStep
  <2>11. ASSUME UNCHANGED vars
         PROVE  Phases(j)'
      BY <2>1, <2>11, StoreStep DEF vars, tableVars, redisVars
  <2>12. Phases(j)'
      BY <1>3, <2>3, <2>4, <2>5, <2>6, <2>7, <2>8, <2>9, <2>10, <2>11 DEF Next
  <2> QED
      BY <2>2, <2>12
<1> QED
  <2>1. ASSUME NEW t \in Task, Rebuild(t)
        PROVE  (\A u \in Task : ~Busy(u)) /\ mixed' = mixed
      BY <1>1, <2>1 DEF Rebuild, Goto, TypeOK
  <2> QED
      BY <1>1, <1>2, <1>3, <2>1, HurtSteps

\* The labels of a job that nothing disturbed follow its tasks step by step.
LEMMA OrderlyAlways == Spec => [](Inv /\ KindOK /\ Orderly)
<1>1. Init => Inv /\ KindOK /\ Orderly
  <2> SUFFICES ASSUME Init
               PROVE  Inv /\ KindOK /\ Orderly
      OBVIOUS
  <2>1. KindOK
      BY DEF Init, KindOK, Upserting, Removing
  <2>2. ASSUME NEW j \in Job
        PROVE  InTurn(j) /\ Phases(j)
    <3>1. InTurn(j)
        BY DEF Init, InTurn, Rebuilds, BusyOn, Busy
    <3>2. \A t \in Task : ~At(t, j, Upserting) /\ ~At(t, j, Removing) /\ ~Rebuilds(t)
        BY DEF Init, At, Upserting, Removing, Rebuilds, Busy
    <3>3. Gone(j)
        BY VectorIndexAssumption DEF Init, Gone, Tied, Empty
    <3>4. Settled(j)
        BY <3>3 DEF Init, Settled
    <3> QED
        BY <3>1, <3>2, <3>4 DEF Phases
  <2> QED
      BY <2>1, <2>2, InvInit DEF Orderly
<1>2. Inv /\ KindOK /\ Orderly /\ [Next]_vars => (Inv /\ KindOK /\ Orderly)'
    BY TypeStep, AloneStep, SwapStep, ClaimsStep, KindStep, OrderlyStep DEF Inv
<1> QED
    BY <1>1, <1>2, PTL DEF Spec

\* An active job with an embedding is found once, under one label, and by that embedding:
\* for every number of jobs, tasks, labels, texts, failures, restarts and rebuilds, as long
\* as what the service does about this job came in turn and without error, or an
\* undisturbed rebuild has put it right since (FaissService::upsert, rebuild_faiss_from_db).
THEOREM SearchFinds == Spec => []SearchComplete
<1>1. Inv /\ KindOK /\ Orderly => SearchComplete
  <2> SUFFICES ASSUME Inv, KindOK, Orderly, NEW j \in active \ hurt, emb[j] # 0, Quiet(j)
               PROVE  \E i \in Id : Hits(j) = {i} /\ index[i] = [job |-> j, text |-> emb[j]]
      BY DEF SearchComplete
  <2>1. TypeOK /\ TaskOK /\ j \in Job /\ Phases(j)
      BY DEF Inv, TypeOK, Orderly
  <2>2. PICK i \in Id : Held(j, i) /\ index[i].text = emb[j]
      BY <2>1, QuietSettled DEF Settled
  <2>3. index[i] # NoVector /\ index[i].job = j
      BY <2>2 DEF Held, Tied
  <2>4. index[i] = [job |-> j, text |-> emb[j]]
    <3>1. index[i] \in Vector
        BY <2>1, <2>3 DEF TypeOK
    <3> QED
        BY <2>2, <2>3, <3>1 DEF Vector
  <2>5. Hits(j) = {i}
      BY <2>2, <2>3 DEF Held, Tied, Hits
  <2> QED
      BY <2>4, <2>5
<1> QED
    BY <1>1, OrderlyAlways, PTL

\* A job that is no longer active is in no answer, on the same terms
\* (FaissService::remove, rebuild_faiss_from_db).
THEOREM SearchForgets == Spec => []SearchClean
<1>1. Inv /\ KindOK /\ Orderly => SearchClean
  <2> SUFFICES ASSUME Inv, KindOK, Orderly, NEW j \in Job \ (active \cup hurt), Quiet(j)
               PROVE  Hits(j) = {} /\ Labels(index, j) = {}
      BY DEF SearchClean
  <2>1. Gone(j)
      BY QuietSettled DEF Inv, Orderly, Settled
  <2> QED
      BY <2>1 DEF Gone, Tied, Hits, Labels
<1> QED
    BY <1>1, OrderlyAlways, PTL

\* A job that is found, and that nobody removes, has its label for the embedding too.
LEMMA FoundHeld ==
    ASSUME Inv, KindOK, NEW j \in Job, InTurn(j), Phases(j), Rebuilding = {},
           \A t \in BusyOn(j) : kind[t] # "remove", Hits(j) # {}
    PROVE  \E i \in Id : Held(j, i)
<1>1. \A t \in Task : ~Rebuilds(t) /\ ~Awaited(t, j) /\ ~At(t, j, Removing)
    BY DEF Rebuilding, Rebuilds, Awaited, At, Removing, KindOK, BusyOn, Busy
<1>2. ~mixed
    BY <1>1 DEF InTurn, Inv, TaskOK, Rebuilds, Busy
<1>3. PICK i \in Id : index[i] # NoVector /\ idToJob[i] = j
    BY DEF Hits
<1>4. index[i].job = j
  <2>1. index[i].job \in Job /\ ~Swapping
      BY <1>1, <1>3 DEF Inv, TypeOK, TaskOK, Vector, Swapping, Rebuilds, Busy
  <2>2. Claims(i, index[i].job) /\ Claims(i, j)
      BY <1>3, <2>1 DEF Claims
  <2> QED
      BY <1>2, <2>1, <2>2 DEF Inv, OneOwner
<1>5. ~Gone(j) /\ \A k, ids : ~Tied(j, k, ids, {})
    BY <1>3, <1>4 DEF Gone, Tied
<1>6. CASE \E t \in Task : At(t, j, Upserting)
  <2>1. PICK t \in Task : At(t, j, Upserting) /\ UpsertPhase(t, j)
      BY <1>6 DEF Phases
  <2>2. CASE pc[t] \in {"write", "get"}
      BY <1>5, <2>1, <2>2 DEF UpsertPhase, Whole
  <2>3. CASE pc[t] \in {"incr", "setjob", "setid"}
      BY <1>5, <2>1, <2>3 DEF UpsertPhase
  <2>4. CASE pc[t] = "place"
    <3>1. id[t] \in Id
        BY <2>4 DEF Inv, TaskOK, Holding
    <3> QED
        BY <1>5, <2>1, <2>4, <3>1 DEF UpsertPhase
  <2> QED
      BY <2>1, <2>2, <2>3, <2>4 DEF At, Upserting
<1>7. CASE \A t \in Task : ~At(t, j, Upserting)
  <2>1. Settled(j)
      BY <1>1, <1>7 DEF Phases, At
  <2> QED
      BY <1>5, <2>1 DEF Settled
<1> QED
    BY <1>6, <1>7

\* A job that a search finds stays under its one label while it is embedded again, while
\* other jobs come and go, and over a restart that loses nothing of it
\* (FaissService::upsert and search).
THEOREM SearchesFindOn == Spec => SearchSteady
<1>1. Inv /\ KindOK /\ Orderly /\ [Next]_vars =>
        \A j \in (active \cap active') \ (hurt \cup hurt') :
          Rebuilding = {} /\ (\A t \in BusyOn(j) : kind[t] # "remove") /\ Hits(j) # {}
              => Hits(j)' = Hits(j) /\ \E i \in Id : Hits(j) = {i}
  <2> SUFFICES ASSUME Inv, KindOK, Orderly, [Next]_vars, NEW j \in active, j \notin hurt,
                      j \notin hurt', Rebuilding = {}, \A t \in BusyOn(j) : kind[t] # "remove",
                      Hits(j) # {}
               PROVE  Hits(j)' = Hits(j) /\ \E i \in Id : Hits(j) = {i}
      OBVIOUS
  <2>1. TypeOK /\ TaskOK /\ j \in Job /\ InTurn(j) /\ Phases(j)
      BY DEF Inv, TypeOK, Orderly
  <2>2. PICK i \in Id : Held(j, i)
      BY <2>1, FoundHeld
  <2>3. /\ \A k \in Id : idToJob[k] = j <=> k = i
        /\ index[i] # NoVector /\ index[i].job = j
      BY <2>2 DEF Held, Tied
  <2>4. \A t \in Task : pc[t] \notin {"clear", "swap", "rows", "next"}
      BY <2>1 DEF TaskOK, Rebuilding, Busy
  <2>5. \A t \in Task : pc[t] \in Removing => job[t] # j
      BY DEF KindOK, Removing, BusyOn, Busy
  <2>6. \A t \in Task : pc[t] \in Holding /\ job[t] # j => id[t] # i
      BY <2>1, <2>3, LabelsApart
  <2> SUFFICES (\A k \in Id : idToJob'[k] = j <=> k = i) /\ index'[i] # NoVector
      BY <2>3 DEF Hits
  <2>7. CASE UNCHANGED <<idToJob, index>>
      BY <2>3, <2>7
  <2>8. ASSUME NEW t \in Task, SetId(t)
        PROVE  (\A k \in Id : idToJob'[k] = j <=> k = i) /\ index'[i] # NoVector
    <3>1. job[t] # j
      <4>1. job[t] = j => UpsertPhase(t, j)
          BY <2>1, <2>8 DEF SetId, Goto, Phases, At, Upserting
      <4> QED
          BY <2>3, <2>8, <4>1 DEF SetId, Goto, UpsertPhase, Tied
    <3> QED
        BY <2>1, <2>3, <2>6, <2>8, <3>1 DEF SetId, Goto, Holding, TypeOK
  <2>9. ASSUME NEW t \in Task, Place(t)
        PROVE  (\A k \in Id : idToJob'[k] = j <=> k = i) /\ index'[i] # NoVector
    <3>1. [job |-> job[t], text |-> vec[t]] # NoVector
        BY <2>1, <2>9, VectorIndexAssumption DEF Place, Goto, TaskOK, Text
    <3> QED
        BY <2>1, <2>3, <2>9, <3>1 DEF Place, redisVars, TypeOK
  <2>10. ASSUME NEW t \in Task, Unindex(t) \/ Unmap(t)
         PROVE  (\A k \in Id : idToJob'[k] = j <=> k = i) /\ index'[i] # NoVector
    <3>1. pc[t] \in Removing /\ pc[t] \in Holding
        BY <2>10 DEF Unindex, Unmap, Goto, Removing, Holding
    <3>2. id[t] # i /\ id[t] \in Id
        BY <2>1, <2>5, <2>6, <3>1 DEF TaskOK
    <3>3. NoJob # j
        BY <2>1, VectorIndexAssumption
    <3> QED
        BY <2>1, <2>3, <2>10, <3>2, <3>3 DEF Unindex, Unmap, redisVars, TypeOK
  <2>11. ASSUME NEW t \in Task, CommandFails(t)
         PROVE  (\A k \in Id : idToJob'[k] = j <=> k = i) /\ index'[i] # NoVector
    <3>1. CASE pc[t] = "place"
      <4>1. job[t] # j
          BY <2>11, <3>1 DEF CommandFails
      <4> QED
          BY <2>1, <2>3, <2>6, <2>11, <3>1, <4>1 DEF CommandFails, Holding, redisVars, TypeOK
    <3>2. CASE pc[t] # "place"
        BY <2>3, <2>11, <3>2 DEF CommandFails, redisVars
    <3> QED
        BY <3>1, <3>2
  <2>12. ASSUME NEW c \in BOOLEAN, Restart(c)
         PROVE  (\A k \in Id : idToJob'[k] = j <=> k = i) /\ index'[i] # NoVector
    <3>1. i \in Labels(index, j)
        BY <2>3 DEF Labels
    <3>2. index'[i] = index[i]
        BY <2>1, <2>12, <3>1, RestartSpares
    <3> QED
        BY <2>3, <2>12, <3>2 DEF Restart, redisVars
  <2>13. ASSUME NEW t \in Task, Clear(t) \/ Swap(t) \/ RebuildFails(t)
         PROVE  FALSE
      BY <2>4, <2>13 DEF Clear, Swap, RebuildFails, Goto
  <2> QED
    <3>1. CASE UNCHANGED vars
        BY <2>7, <3>1 DEF vars, redisVars
    <3>2. CASE Next
      <4>1. ASSUME NEW k \in Job, NEW c \in BOOLEAN, StoreJob(k, c)
            PROVE  UNCHANGED <<idToJob, index>>
          BY <4>1 DEF StoreJob, redisVars
      <4>2. ASSUME NEW t \in Task, NEW k \in Job, Deactivate(t, k) \/ Embed(t, k)
            PROVE  UNCHANGED <<idToJob, index>>
          BY <4>2 DEF Deactivate, Embed, redisVars
      <4>3. ASSUME NEW t \in Task,
                   \/ WriteEmbedding(t) \/ GetId(t) \/ Incr(t) \/ SetJob(t) \/ Find(t)
                   \/ Save(t) \/ Rebuild(t) \/ ReadRows(t) \/ RowsDone(t) \/ SaveFails(t)
            PROVE  UNCHANGED <<idToJob, index>>
          BY <4>3 DEF WriteEmbedding, GetId, Incr, SetJob, Find, Save, Rebuild, ReadRows,
                      RowsDone, SaveFails, redisVars
      <4>4. ASSUME NEW t \in Task, NEW r \in rows[t], NextRow(t, r)
            PROVE  UNCHANGED <<idToJob, index>>
          BY <4>4 DEF NextRow, redisVars
      <4> QED
          BY <2>7, <2>8, <2>9, <2>10, <2>11, <2>12, <2>13, <3>2, <4>1, <4>2, <4>3, <4>4 DEF Next
    <3> QED
        BY <3>1, <3>2
<1> QED
    BY <1>1, OrderlyAlways, PTL DEF Spec, SearchSteady
=============================================================================
