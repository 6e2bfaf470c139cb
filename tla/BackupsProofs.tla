--------------------------- MODULE BackupsProofs ---------------------------
(***************************************************************************)
(* Proofs about Backups, for any administrators, jobs, files and bounds:   *)
(* its types, that the latest backup survives, and that a restore leaves a *)
(* way back.                                                               *)
(*                                                                         *)
(* A row is at work in at most one task until it has a checksum, and from  *)
(* then on it has its file unless an administrator deleted it, another job *)
(* took its name, or a newer backup was completed: that is what a sweep    *)
(* needs to see before it dooms a row, and nothing takes it back.          *)
(*                                                                         *)
(* The support desk (SerialTickets) shares nothing with the backups; its   *)
(* proofs stand at the end, over an instance of its own.                   *)
(***************************************************************************)
EXTENDS Backups, FiniteSetTheorems, TLAPS

Working(t)  == pc[t] \in {"created", "running", "writing", "written"}
HasSum(j)   == job[j].sum # None
Newer(j)    == \E k \in Created : k > j /\ HasSum(k)

\* Rows are numbered as they come.
Numbered == \E n \in 0..MaxJobs : Created = 1..n

\* File and checksum are written together and for good.
RowAt(j) ==
    /\ dest[j] # None => j \in Created
    /\ j \in Created =>
          /\ job[j].file # None <=> HasSum(j)
          /\ HasSum(j) => job[j].file = dest[j] /\ job[j].status \in {"completed", "deleted"}
          /\ job[j].status = "completed" => HasSum(j)

\* One task at a time works on a row, and no longer when it has its checksum.
WorkerAt(t) ==
    Working(t) =>
        /\ task[t].id \in Created
        /\ ~HasSum(task[t].id)
        /\ (pc[t] = "created") <=> (dest[task[t].id] = None)
        /\ \A u \in Tasks \ {t} : Working(u) => task[u].id # task[t].id

SurvivesAt(j) ==
    j \in Created \ byHand /\ HasSum(j) /\ ~Clash(j) =>
        \/ job[j].status = "completed" /\ disk[job[j].file] = job[j].sum
        \/ Newer(j)

Doomed ==
    pc[Scheduler] \in {"sweeping", "swept"} =>
        \A j \in task[Scheduler].doomed : j \in Created /\ HasSum(j) /\ Newer(j)

DeletingAt(t) == pc[t] = "unlinked" => task[t].id \in byHand \cap Created

\* What the pre-restore backup of a restore has saved so far.
SavingAt(t) ==
    /\ task[t].had \subseteq files
    /\ task[t].target # None => task[t].target \in Created
    /\ pc[t] = "idle" \/ t = Scheduler => task[t].target = None
    /\ pc[t] \in {"planned", "confirmed", "saved", "guarded"} => task[t].target # None
    /\ task[t].target # None /\ Working(t) => job[task[t].id].kind = "full"
    /\ task[t].target # None /\ pc[t] \in {"writing", "written"} =>
          LET n == dest[task[t].id]
          IN  \/ Clash(task[t].id) \/ disk[n] = None
              \/ /\ task[t].had \subseteq disk[n].saved
                 /\ pc[t] = "writing" => disk[n].log = <<task[t].id>>
    /\ pc[t] \in {"saved", "guarded"} =>
          /\ task[t].id \in Created /\ HasSum(task[t].id)
          /\ Clash(task[t].id) \/ task[t].had \subseteq job[task[t].id].sum.saved

IInv ==
    /\ TypeOK
    /\ Numbered
    /\ \A j \in Ids : RowAt(j) /\ SurvivesAt(j)
    /\ \A t \in Tasks : WorkerAt(t) /\ DeletingAt(t) /\ SavingAt(t)
    /\ Doomed

-----------------------------------------------------------------------------
(* Lemmas.                                                                 *)

\* The next number is free, and taking it keeps the numbering.
LEMMA NextNumber ==
    ASSUME Numbered, Cardinality(Created) + 1 \in Ids, TypeOK
    PROVE  /\ Cardinality(Created) + 1 \notin Created
           /\ \E n \in 0..MaxJobs : Created \cup {Cardinality(Created) + 1} = 1..n
<1>1. PICK n \in 0..MaxJobs : Created = 1..n
  BY DEF Numbered
<1>2. Cardinality(Created) = n
  BY <1>1, FS_Interval, BoundsAreNumbers
<1>3. n + 1 \in 0..MaxJobs
  BY <1>2, BoundsAreNumbers DEF Ids
<1>4. Created \cup {n + 1} = 1..(n + 1) /\ n + 1 \notin 1..n
  BY <1>1, BoundsAreNumbers
<1> QED
  BY <1>1, <1>2, <1>3, <1>4

\* A path once given stays, so names once shared stay shared.
LEMMA ClashStays ==
    ASSUME NEW j \in Ids, dest[j] # None, Clash(j),
           \A k \in Ids : dest[k] # None => dest'[k] = dest[k]
    PROVE  Clash(j)'
BY DEF Clash

\* Checksums stay, so what is newer stays newer.
LEMMA NewerStays ==
    ASSUME NEW j \in Ids, Newer(j),
           \A k \in Created : job'[k] # None /\ (HasSum(k) => job'[k].sum # None)
    PROVE  Newer(j)'
BY DEF Newer, Created, HasSum

\* A sweep dooms only what something newer completed outlives.
LEMMA DoomedHaveNewer ==
    ASSUME IInv, NEW before \in 0..clock + 1, NEW j \in Prunable(before)
    PROVE  j \in Created /\ HasSum(j) /\ Newer(j)
<1>1. j \in Completed /\ Cardinality({k \in Completed : k > j}) >= Kept
  BY DEF Prunable
<1>2. \A k \in Completed : k \in Created /\ HasSum(k)
  BY DEF IInv, RowAt, Completed, Created
<1>3. Kept >= 1
  BY BoundsAreNumbers DEF Kept
<1>4. {k \in Completed : k > j} # {}
  <2> SUFFICES ASSUME {k \in Completed : k > j} = {} PROVE FALSE
    OBVIOUS
  <2>1. Cardinality({k \in Completed : k > j}) = 0
    BY FS_EmptySet
  <2> QED
    BY <1>1, <1>3, <2>1, BoundsAreNumbers DEF Kept
<1> QED
  BY <1>1, <1>2, <1>4 DEF Newer

-----------------------------------------------------------------------------
(* Types.                                                                  *)

LEMMA CreateTypes ==
    ASSUME TypeOK, NEW t \in Tasks, NEW kind \in BACKUP_TYPES, create_backup_job(t, kind)
    PROVE  /\ job' \in [Ids -> Rows \cup {None}]
           /\ task' \in [Tasks -> [id : Ids \cup {None}, target : Ids \cup {None},
                                   doomed : SUBSET Ids, gone : BOOLEAN, had : SUBSET Uploads]]
           /\ pc' = [pc EXCEPT ![t] = "created"]
<1> DEFINE r == [kind |-> kind, status |-> "pending", at |-> clock,
                 by |-> IF t = Scheduler THEN None ELSE t, file |-> None, sum |-> None]
<1>1. r \in Rows
  BY DEF Rows, TypeOK, Tasks, BACKUP_STATUSES
<1> QED
  BY <1>1 DEF create_backup_job, Goto, TypeOK

LEMMA ReturnTypes ==
    ASSUME TypeOK, NEW t \in Tasks, Return(t)
    PROVE  /\ task' \in [Tasks -> [id : Ids \cup {None}, target : Ids \cup {None},
                                   doomed : SUBSET Ids, gone : BOOLEAN, had : SUBSET Uploads]]
           /\ pc' = [pc EXCEPT ![t] = "idle"]
BY DEF Return, Goto, NoTask, TypeOK

LEMMA TypeStep ==
    ASSUME IInv, [Next]_vars
    PROVE  TypeOK'
<1> USE DEF TypeOK, Goto, Return, NoTask
<1>1. ASSUME NEW a \in Admins, NEW kind \in Types, RequestBackup(a, kind) PROVE TypeOK'
  <2>1. a \in Tasks /\ kind \in BACKUP_TYPES
    BY TypesAreKnown DEF Tasks, BACKUP_TYPES
  <2> QED
    BY <1>1, <2>1, CreateTypes DEF RequestBackup, IInv
<1>2. ASSUME NEW t \in Tasks, StartJob(t) PROVE TypeOK'
  <2>1. task[t].id \in Created /\ job[task[t].id] \in Rows /\ task[t].id \in Ids
    BY <1>2 DEF IInv, WorkerAt, Working, StartJob, Created
  <2>2. <<job[task[t].id].kind, clock>> \in Names
    BY <2>1 DEF Names, Rows, IInv
  <2>3. [job[task[t].id] EXCEPT !.status = "running"] \in Rows
    BY <2>1 DEF Rows, BACKUP_STATUSES
  <2> QED
    BY <1>2, <2>1, <2>2, <2>3 DEF StartJob, IInv
<1>3. ASSUME NEW t \in Tasks, OpenFile(t) PROVE TypeOK'
  <2>1. task[t].id \in Ids /\ dest[task[t].id] \in Names
    BY <1>3 DEF IInv, WorkerAt, Working, OpenFile, Created
  <2>2. [log |-> <<task[t].id>>,
         saved |-> IF job[task[t].id].kind = "database" THEN {} ELSE files] \in Contents
    BY <2>1 DEF Contents, IInv
  <2> QED
    BY <1>3, <2>1, <2>2 DEF OpenFile, IInv
<1>4. ASSUME NEW t \in Tasks, CloseFile(t) PROVE TypeOK'
  <2>1. task[t].id \in Ids /\ dest[task[t].id] \in Names
    BY <1>4 DEF IInv, WorkerAt, Working, CloseFile, Created
  <2>2. CASE disk' = disk
    BY <1>4, <2>2 DEF CloseFile, IInv
  <2>3. ASSUME disk[dest[task[t].id]] # None,
               NEW held \in SUBSET (disk[dest[task[t].id]].saved \cup files)
        PROVE  [log |-> Append(disk[dest[task[t].id]].log, task[t].id),
                saved |-> IF /\ disk[dest[task[t].id]].log = <<task[t].id>>
                             /\ job[task[t].id].kind # "database"
                          THEN held ELSE {}] \in Contents
    <3>1. disk[dest[task[t].id]] \in Contents
      BY <2>1, <2>3 DEF IInv
    <3> QED
      BY <2>1, <2>3, <3>1 DEF Contents, IInv
  <2> QED
    BY <1>4, <2>1, <2>2, <2>3 DEF CloseFile, IInv
<1>5. ASSUME NEW t \in Tasks, CompleteJob(t) PROVE TypeOK'
  <2>1. task[t].id \in Created /\ job[task[t].id] \in Rows /\ task[t].id \in Ids
        /\ dest[task[t].id] \in Names /\ disk[dest[task[t].id]] \in Contents
    BY <1>5 DEF IInv, WorkerAt, Working, CompleteJob, Created
  <2>2. [job[task[t].id] EXCEPT !.status = "completed", !.file = dest[task[t].id],
                                !.sum = disk[dest[task[t].id]]] \in Rows
    BY <2>1 DEF Rows, BACKUP_STATUSES
  <2>3. job' = [job EXCEPT ![task[t].id] =
                 [job[task[t].id] EXCEPT !.status = "completed", !.file = dest[task[t].id],
                                         !.sum = disk[dest[task[t].id]]]]
    BY <1>5, <2>1 DEF CompleteJob, IInv
  <2>4. job' \in [Ids -> Rows \cup {None}]
    BY <2>1, <2>2, <2>3 DEF IInv
  <2>5. CASE task[t].target = None
    <3>1. Return(t)
      BY <1>5, <2>5 DEF CompleteJob
    <3> QED
      BY <1>5, <2>4, <3>1, ReturnTypes DEF CompleteJob, IInv
  <2>6. CASE task[t].target # None
    BY <1>5, <2>4, <2>6 DEF CompleteJob, IInv
  <2> QED
    BY <2>5, <2>6
<1>6. ASSUME NEW t \in Tasks, FailJob(t) PROVE TypeOK'
  <2>1. task[t].id \in Created /\ job[task[t].id] \in Rows /\ task[t].id \in Ids
    BY <1>6 DEF IInv, WorkerAt, Working, FailJob, Created
  <2>2. [job[task[t].id] EXCEPT !.status = "failed"] \in Rows
    BY <2>1 DEF Rows, BACKUP_STATUSES
  <2> QED
    BY <1>6, <2>1, <2>2 DEF FailJob, IInv
<1>7. ASSUME NEW a \in Admins, NEW j \in Ids, DeleteFile(a, j) PROVE TypeOK'
  <2>1. disk' \in [Names -> Contents \cup {None}]
    BY <1>7 DEF DeleteFile, IInv
  <2>2. [task[a] EXCEPT !.id = j, !.gone = (job[j].status = "deleted")]
           \in [id : Ids \cup {None}, target : Ids \cup {None},
               doomed : SUBSET Ids, gone : BOOLEAN, had : SUBSET Uploads]
    BY DEF IInv, Tasks
  <2>3. task' = [task EXCEPT ![a] = [task[a] EXCEPT !.id = j, !.gone = (job[j].status = "deleted")]]
    BY <1>7 DEF DeleteFile, IInv, Tasks
  <2>4. task' \in [Tasks -> [id : Ids \cup {None}, target : Ids \cup {None},
                           doomed : SUBSET Ids, gone : BOOLEAN, had : SUBSET Uploads]]
    BY <2>2, <2>3 DEF IInv
  <2> QED
    BY <1>7, <2>1, <2>4 DEF DeleteFile, IInv
<1>8. ASSUME NEW a \in Admins, NEW j \in Ids, create_restore_plan(a, j) PROVE TypeOK'
  BY <1>8 DEF create_restore_plan, IInv
<1>9. ASSUME NEW a \in Admins, DeleteRow(a) PROVE TypeOK'
  <2>1. CASE job' = job
    BY <1>9, <2>1 DEF DeleteRow, IInv
  <2>2. ASSUME NEW r \in Rows PROVE [r EXCEPT !.status = "deleted"] \in Rows
    BY DEF Rows, BACKUP_STATUSES
  <2>3. task[a].id \in byHand /\ job[task[a].id] \in Rows
    BY <1>9 DEF DeleteRow, IInv, DeletingAt, Tasks, Created
  <2> QED
    BY <1>9, <2>1, <2>2, <2>3 DEF DeleteRow, IInv
<1>10. ASSUME NEW a \in Admins, Restore(a) PROVE TypeOK'
  <2>0. a \in Tasks
    BY DEF Tasks
  <2>1. ASSUME ConfirmRestore(a) PROVE TypeOK'
    BY <2>0, <2>1 DEF ConfirmRestore, IInv
  <2>2. ASSUME RefuseRestore(a) PROVE TypeOK'
    BY <2>0, <2>2 DEF RefuseRestore, IInv
  <2>3. ASSUME Preflight(a) PROVE TypeOK'
    <3>1. "full" \in BACKUP_TYPES
      BY DEF BACKUP_TYPES
    <3>2. create_backup_job(a, "full") /\ TypeOK
      BY <2>3 DEF Preflight, IInv
    <3> HIDE DEF TypeOK
    <3>3. /\ job' \in [Ids -> Rows \cup {None}]
          /\ task' \in [Tasks -> [id : Ids \cup {None}, target : Ids \cup {None},
                                  doomed : SUBSET Ids, gone : BOOLEAN, had : SUBSET Uploads]]
          /\ pc' = [pc EXCEPT ![a] = "created"]
      BY <2>0, <3>1, <3>2, CreateTypes
    <3> QED
      BY <2>3, <3>2, <3>3 DEF Preflight, TypeOK
  <2>4. ASSUME EnableMaintenance(a) PROVE TypeOK'
    <3>1. CASE Return(a)
      BY <2>0, <2>4, <3>1, ReturnTypes DEF EnableMaintenance, IInv
    <3>2. CASE Goto(a, "guarded") /\ task' = task
      BY <2>0, <2>4, <3>2 DEF EnableMaintenance, IInv
    <3> QED
      BY <2>4, <3>1, <3>2 DEF EnableMaintenance
  <2>5. ASSUME ExtractStorage(a) PROVE TypeOK'
    <3>1. task[a].target \in Created
      BY <2>0, <2>5 DEF ExtractStorage, IInv, SavingAt
    <3>2. OnDisk(task[a].target)
              => disk[job[task[a].target].file].saved \subseteq Uploads
      BY <3>1 DEF OnDisk, IInv, Rows, Contents, Created
    <3>3. files' \in SUBSET Uploads
      BY <2>0, <2>5, <3>1, <3>2 DEF ExtractStorage, IInv
    <3> QED
      BY <2>0, <2>5, <3>3 DEF ExtractStorage, IInv
  <2> QED
    BY <1>10, <2>1, <2>2, <2>3, <2>4, <2>5 DEF Restore
<1>11. ASSUME Sweep PROVE TypeOK'
  <2>1. PICK before \in 0..clock + 1 :
           task' = [task EXCEPT ![Scheduler].doomed = Prunable(before)]
    BY <1>11 DEF Sweep
  <2>2. Prunable(before) \in SUBSET Ids
    BY DEF Prunable, Completed, Created
  <2> QED
    BY <1>11, <2>1, <2>2 DEF Sweep, IInv, Tasks
<1>12. ASSUME SweepFiles PROVE TypeOK'
  BY <1>12 DEF SweepFiles, IInv, Tasks
<1>13. ASSUME SweepRows PROVE TypeOK'
  <2>1. ASSUME NEW r \in Rows PROVE [r EXCEPT !.status = "deleted"] \in Rows
    BY DEF Rows, BACKUP_STATUSES
  <2>2. \A j \in task[Scheduler].doomed : job[j] \in Rows
    BY <1>13 DEF SweepRows, IInv, Doomed, Created, Tasks
  <2> QED
    BY <1>13, <2>1, <2>2 DEF SweepRows, IInv, Tasks
<1>14. ASSUME NEW kind \in Types, ScheduledBackup(kind) PROVE TypeOK'
  <2>1. Scheduler \in Tasks /\ kind \in BACKUP_TYPES
    BY TypesAreKnown DEF Tasks, BACKUP_TYPES
  <2> QED
    BY <1>14, <2>1, CreateTypes DEF ScheduledBackup, IInv
<1>15. ASSUME SweepEnds PROVE TypeOK'
  BY <1>15 DEF SweepEnds, IInv, Tasks
<1>16. ASSUME NEW a \in Admins, NEW on \in BOOLEAN, SetMaintenance(a, on) PROVE TypeOK'
  BY <1>16 DEF SetMaintenance, IInv
<1>17. ASSUME NEW f \in Uploads, Upload(f) PROVE TypeOK'
  BY <1>17 DEF Upload, IInv
<1>18. ASSUME NEW f \in Uploads, Lose(f) PROVE TypeOK'
  BY <1>18 DEF Lose, IInv
<1>19. ASSUME Tick PROVE TypeOK'
  BY <1>19, BoundsAreNumbers DEF Tick, IInv
<1>20. ASSUME NEW process \in {Admins, {Scheduler}}, Crash(process) PROVE TypeOK'
  BY <1>20, BoundsAreNumbers DEF Crash, IInv
<1>21. ASSUME UNCHANGED vars PROVE TypeOK'
  BY <1>21 DEF vars, IInv
<1> QED
  BY <1>1, <1>2, <1>3, <1>4, <1>5, <1>6, <1>7, <1>8, <1>9, <1>10, <1>11, <1>12, <1>13, <1>14,
     <1>15, <1>16, <1>17, <1>18, <1>19, <1>20, <1>21 DEF Next, JobStep

-----------------------------------------------------------------------------
(* Steps that write neither rows nor archives.                             *)

LEMMA AsideRows ==
    ASSUME IInv, UNCHANGED <<job, disk, dest, byHand>>
    PROVE  Numbered' /\ \A j \in Ids : (RowAt(j) /\ SurvivesAt(j))'
BY DEF IInv, Numbered, RowAt, SurvivesAt, Created, HasSum, Newer, Clash

\* What a task's predicates read, when it is not the one that moves.
LEMMA AsideTask ==
    ASSUME IInv, UNCHANGED <<job, disk, dest, byHand>>, NEW t \in Tasks,
           pc'[t] = pc[t], task'[t] = task[t], files \subseteq files',
           \A u \in Tasks : Working(u)' => Working(u) /\ task'[u].id = task[u].id
    PROVE  WorkerAt(t)' /\ DeletingAt(t)' /\ SavingAt(t)'
<1>1. WorkerAt(t)'
  BY DEF IInv, WorkerAt, Working, Created, HasSum
<1>2. DeletingAt(t)'
  BY DEF IInv, DeletingAt, Created
<1>3. SavingAt(t)'
  BY DEF IInv, SavingAt, Working, Created, HasSum, Clash
<1> QED
  BY <1>1, <1>2, <1>3

\* A task that ends.
LEMMA ReturnStep ==
    ASSUME IInv, UNCHANGED <<job, disk, dest, byHand>>, NEW t \in Tasks, Return(t),
           files \subseteq files', TypeOK'
    PROVE  IInv'
<1>1. /\ pc'[t] = "idle" /\ task'[t] = NoTask
      /\ \A u \in Tasks \ {t} : pc'[u] = pc[u] /\ task'[u] = task[u]
  BY DEF Return, Goto, IInv, TypeOK
<1>2. \A u \in Tasks : Working(u)' => Working(u) /\ task'[u].id = task[u].id
  BY <1>1 DEF Working
<1>3. WorkerAt(t)' /\ DeletingAt(t)' /\ SavingAt(t)'
  BY <1>1 DEF WorkerAt, Working, DeletingAt, SavingAt, NoTask
<1>4. \A u \in Tasks : WorkerAt(u)' /\ DeletingAt(u)' /\ SavingAt(u)'
  BY <1>1, <1>2, <1>3, AsideTask
<1>5. Doomed'
  BY <1>1 DEF IInv, Doomed, Created, HasSum, Newer, Tasks
<1> QED
  BY <1>4, <1>5, AsideRows DEF IInv

\* A task that goes on to a place where it works on no row.
LEMMA AsideMove ==
    ASSUME IInv, UNCHANGED <<job, disk, dest, byHand, files>>, NEW t \in Admins,
           NEW place \in {"planned", "confirmed", "guarded"}, Goto(t, place),
           task'[t].target \in Created, task'[t].had \subseteq files,
           place = "guarded" => pc[t] = "saved" /\ task'[t] = task[t],
           \A u \in Tasks \ {t} : task'[u] = task[u], TypeOK'
    PROVE  IInv'
<1>1. /\ pc'[t] = place /\ t \in Tasks /\ t # Scheduler
      /\ \A u \in Tasks \ {t} : pc'[u] = pc[u]
  BY SchedulerIsApart DEF Goto, IInv, TypeOK, Tasks
<1>2. \A u \in Tasks : Working(u)' => Working(u) /\ task'[u].id = task[u].id
  BY <1>1 DEF Working
<1>3. WorkerAt(t)' /\ DeletingAt(t)'
  BY <1>1 DEF WorkerAt, Working, DeletingAt
<1>4. SavingAt(t)'
  <2>1. Created' = Created /\ None \notin Created
    BY NoneIsNothing DEF Created
  <2> QED
    BY <1>1, <2>1 DEF SavingAt, Working, IInv, HasSum, Clash
<1>5. \A u \in Tasks : WorkerAt(u)' /\ DeletingAt(u)' /\ SavingAt(u)'
  BY <1>1, <1>2, <1>3, <1>4, AsideTask
<1>6. Doomed'
  BY <1>1 DEF IInv, Doomed, Created, HasSum, Newer, Tasks
<1> QED
  BY <1>5, <1>6, AsideRows DEF IInv

\* All tasks stay or end; what they remember of the storage may shrink with it.
LEMMA AsideAll ==
    ASSUME IInv, UNCHANGED <<job, disk, dest, byHand>>, TypeOK',
           \A t \in Tasks :
              \/ pc'[t] = "idle" /\ task'[t] = NoTask
              \/ /\ pc'[t] = pc[t] /\ task'[t].id = task[t].id
                 /\ task'[t].target = task[t].target /\ task'[t].doomed = task[t].doomed
                 /\ task'[t].had \subseteq task[t].had /\ task'[t].had \subseteq files'
    PROVE  IInv'
<1>1. \A t \in Tasks : WorkerAt(t)'
  BY DEF IInv, WorkerAt, Working, Created, HasSum
<1>2. \A t \in Tasks : DeletingAt(t)'
  BY DEF IInv, DeletingAt, Created
<1>3. ASSUME NEW t \in Tasks PROVE SavingAt(t)'
  <2>1. CASE pc'[t] = "idle" /\ task'[t] = NoTask
    BY <2>1 DEF SavingAt, NoTask, Working
  <2>2. CASE /\ pc'[t] = pc[t] /\ task'[t].id = task[t].id
             /\ task'[t].target = task[t].target
             /\ task'[t].had \subseteq task[t].had /\ task'[t].had \subseteq files'
    BY <2>2 DEF IInv, SavingAt, Working, Created, HasSum, Clash
  <2> QED
    BY <2>1, <2>2
<1>4. Doomed'
  BY DEF IInv, Doomed, Created, HasSum, Newer, Tasks, NoTask
<1> QED
  BY <1>1, <1>2, <1>3, <1>4, AsideRows DEF IInv

LEMMA AsideStep ==
    ASSUME IInv, TypeOK',
           \/ \E a \in Admins : \/ RefuseRestore(a) \/ EnableMaintenance(a)
                                \/ ExtractStorage(a) \/ ConfirmRestore(a)
           \/ \E a \in Admins, j \in Ids : create_restore_plan(a, j)
           \/ \E a \in Admins, on \in BOOLEAN : SetMaintenance(a, on)
           \/ \E f \in Uploads : Upload(f) \/ Lose(f)
           \/ \E process \in {Admins, {Scheduler}} : Crash(process)
           \/ Sweep \/ SweepEnds \/ Tick \/ UNCHANGED vars
    PROVE  IInv'
<1>1. ASSUME NEW a \in Admins, RefuseRestore(a) PROVE IInv'
  BY <1>1, ReturnStep DEF RefuseRestore, Tasks
<1>2. ASSUME NEW a \in Admins, EnableMaintenance(a) PROVE IInv'
  <2>1. CASE Return(a)
    BY <1>2, <2>1, ReturnStep DEF EnableMaintenance, Tasks
  <2>2. CASE Goto(a, "guarded") /\ task' = task
    <3>1. task[a].target \in Created /\ task[a].had \subseteq files
      BY <1>2 DEF EnableMaintenance, IInv, SavingAt, Tasks
    <3> QED
      BY <1>2, <2>2, <3>1, AsideMove DEF EnableMaintenance, Tasks
  <2> QED
    BY <1>2, <2>1, <2>2 DEF EnableMaintenance
<1>3. ASSUME NEW a \in Admins, ExtractStorage(a) PROVE IInv'
  BY <1>3, ReturnStep DEF ExtractStorage, Tasks
<1>4. ASSUME NEW a \in Admins, ConfirmRestore(a) PROVE IInv'
  <2>1. task[a].target \in Created
    BY <1>4 DEF ConfirmRestore, IInv, SavingAt, Tasks
  <2>2. /\ task'[a].target = task[a].target /\ task'[a].had = files
        /\ \A u \in Tasks \ {a} : task'[u] = task[u]
    BY <1>4 DEF ConfirmRestore, IInv, TypeOK, Tasks
  <2> QED
    BY <1>4, <2>1, <2>2, AsideMove DEF ConfirmRestore, Tasks
<1>5. ASSUME NEW a \in Admins, NEW j \in Ids, create_restore_plan(a, j) PROVE IInv'
  <2>1. /\ task'[a].target = j /\ task'[a].had = task[a].had
        /\ \A u \in Tasks \ {a} : task'[u] = task[u]
    BY <1>5 DEF create_restore_plan, IInv, TypeOK, Tasks
  <2>2. task[a].had \subseteq files
    BY DEF IInv, SavingAt, Tasks
  <2> QED
    BY <1>5, <2>1, <2>2, AsideMove DEF create_restore_plan, Tasks
<1>6. ASSUME NEW a \in Admins, NEW on \in BOOLEAN, SetMaintenance(a, on) PROVE IInv'
  BY <1>6, AsideAll DEF SetMaintenance, IInv, SavingAt
<1>7. ASSUME NEW f \in Uploads, Upload(f) PROVE IInv'
  BY <1>7, AsideAll DEF Upload, IInv, SavingAt
<1>8. ASSUME NEW f \in Uploads, Lose(f) PROVE IInv'
  <2>1. \A t \in Tasks : /\ task'[t].id = task[t].id /\ task'[t].target = task[t].target
                         /\ task'[t].doomed = task[t].doomed
                         /\ task'[t].had = task[t].had \ {f}
    BY <1>8 DEF Lose, IInv, TypeOK
  <2> QED
    BY <1>8, <2>1, AsideAll DEF Lose, IInv, SavingAt
<1>9. ASSUME NEW process \in {Admins, {Scheduler}}, Crash(process) PROVE IInv'
  <2>1. \A t \in Tasks : \/ pc'[t] = "idle" /\ task'[t] = NoTask
                         \/ pc'[t] = pc[t] /\ task'[t] = task[t]
    BY <1>9 DEF Crash
  <2> QED
    BY <1>9, <2>1, AsideAll DEF Crash, IInv, SavingAt
<1>10. ASSUME Sweep PROVE IInv'
  <2>1. PICK before \in 0..clock + 1 :
           task' = [task EXCEPT ![Scheduler].doomed = Prunable(before)]
    BY <1>10 DEF Sweep
  <2>2. Scheduler \in Tasks
    BY DEF Tasks
  <2>3. /\ pc'[Scheduler] = "sweeping" /\ task'[Scheduler].doomed = Prunable(before)
        /\ task'[Scheduler].had = task[Scheduler].had
        /\ task'[Scheduler].target = task[Scheduler].target
        /\ \A u \in Tasks \ {Scheduler} : pc'[u] = pc[u] /\ task'[u] = task[u]
    BY <1>10, <2>1, <2>2 DEF Sweep, Goto, IInv, TypeOK
  <2>4. \A u \in Tasks : Working(u)' => Working(u) /\ task'[u].id = task[u].id
    BY <2>3 DEF Working
  <2>5. WorkerAt(Scheduler)' /\ DeletingAt(Scheduler)' /\ SavingAt(Scheduler)'
    BY <1>10, <2>2, <2>3 DEF Sweep, WorkerAt, Working, DeletingAt, SavingAt, IInv, Created
  <2>6. \A u \in Tasks : WorkerAt(u)' /\ DeletingAt(u)' /\ SavingAt(u)'
    BY <1>10, <2>3, <2>4, <2>5, AsideTask DEF Sweep
  <2>7. Doomed'
    <3>1. \A j \in Prunable(before) : j \in Created /\ HasSum(j) /\ Newer(j)
      BY DoomedHaveNewer
    <3> QED
      BY <1>10, <2>3, <3>1 DEF Sweep, Doomed, Created, HasSum, Newer
  <2> QED
    BY <1>10, <2>6, <2>7, AsideRows DEF Sweep, IInv
<1>11. ASSUME SweepEnds PROVE IInv'
  BY <1>11, ReturnStep DEF SweepEnds, Tasks
<1>12. ASSUME Tick PROVE IInv'
  BY <1>12, AsideAll DEF Tick, IInv, SavingAt
<1>13. ASSUME UNCHANGED vars PROVE IInv'
  BY <1>13, AsideAll DEF vars, IInv, SavingAt
<1> QED
  BY <1>1, <1>2, <1>3, <1>4, <1>5, <1>6, <1>7, <1>8, <1>9, <1>10, <1>11, <1>12, <1>13

-----------------------------------------------------------------------------
(* Steps of a job.                                                         *)

\* A task at work on its row leaves the invariant as it was for everybody else.
LEMMA OthersStand ==
    ASSUME IInv, TypeOK', NEW t \in Tasks, Working(t), NEW j \in Ids, j = task[t].id,
           byHand' = byHand, files' = files,
           \A u \in Tasks \ {t} : pc'[u] = pc[u] /\ task'[u] = task[u],
           pc'[t] \notin {"sweeping", "swept"},
           Working(t)' => task'[t].id = j,
           \A k \in Ids \ {j} : job'[k] = job[k] /\ dest'[k] = dest[k],
           job'[j] # None, dest[j] # None => dest'[j] = dest[j], dest'[j] # None,
           \A n \in Names : n # dest'[j] => disk'[n] = disk[n]
    PROVE  /\ Numbered'
           /\ \A k \in Ids \ {j} : RowAt(k)' /\ SurvivesAt(k)'
           /\ \A u \in Tasks \ {t} : WorkerAt(u)' /\ DeletingAt(u)' /\ SavingAt(u)'
           /\ Doomed'
<1>1. j \in Created /\ ~HasSum(j)
  BY DEF IInv, WorkerAt
<1>2. Created' = Created
  BY <1>1 DEF Created
<1>3. Numbered'
  BY <1>2 DEF IInv, Numbered
<1>4. \A k \in Ids : dest[k] # None => dest'[k] = dest[k]
  OBVIOUS
<1>5. \A k \in Ids : HasSum(k) /\ k \in Created => HasSum(k)' /\ job'[k] = job[k]
  BY <1>1 DEF HasSum
<1>6. \A k \in Ids : Newer(k) => Newer(k)'
  BY <1>2, <1>5 DEF Newer, Created
<1>7. \A k \in Ids : dest[k] # None /\ Clash(k) => Clash(k)'
  BY <1>4 DEF Clash
<1>8. \A k \in Ids \ {j} : RowAt(k)'
  BY <1>2 DEF IInv, RowAt, HasSum
<1>9. ASSUME NEW k \in Ids \ {j}, k \in (Created \ byHand)', HasSum(k)', ~Clash(k)'
      PROVE  (job[k].status = "completed" /\ disk[job[k].file] = job[k].sum)' \/ Newer(k)'
  <2>1. k \in Created \ byHand /\ HasSum(k)
    BY <1>2, <1>9 DEF HasSum
  <2>2. job[k].file = dest[k] /\ job[k].file # None
    BY <2>1 DEF IInv, RowAt
  <2>3. ~Clash(k)
    BY <1>7, <1>9, <2>2
  <2>4. dest'[k] # dest'[j] /\ dest'[k] = dest[k]
    BY <1>9 DEF Clash
  <2>5. dest[k] \in Names /\ disk'[dest[k]] = disk[dest[k]]
    BY <2>2, <2>4 DEF IInv, TypeOK
  <2> QED
    BY <1>6, <2>1, <2>2, <2>3, <2>5 DEF IInv, SurvivesAt
<1>10. \A k \in Ids \ {j} : SurvivesAt(k)'
  BY <1>9 DEF SurvivesAt
<1>11. ASSUME NEW u \in Tasks \ {t} PROVE WorkerAt(u)'
  BY <1>2, <1>11 DEF IInv, WorkerAt, Working, HasSum, Created
<1>12. ASSUME NEW u \in Tasks \ {t} PROVE DeletingAt(u)'
  BY <1>2, <1>12 DEF IInv, DeletingAt
<1>13. ASSUME NEW u \in Tasks \ {t} PROVE SavingAt(u)'
  <2>1. SavingAt(u) /\ WorkerAt(u) /\ WorkerAt(t) /\ pc'[u] = pc[u] /\ task'[u] = task[u]
    BY <1>13 DEF IInv
  <2>2. CASE Working(u)
    <3>1. task[u].id \in Ids \ {j} /\ job'[task[u].id] = job[task[u].id]
      BY <1>13, <2>1, <2>2 DEF WorkerAt, Created
    <3>2. ASSUME pc[u] \in {"writing", "written"}
          PROVE  \/ Clash(task[u].id)'
                 \/ /\ dest'[task[u].id] = dest[task[u].id]
                    /\ disk'[dest[task[u].id]] = disk[dest[task[u].id]]
                    /\ ~Clash(task[u].id)
      <4>1. dest[task[u].id] # None /\ dest[task[u].id] \in Names
        BY <2>1, <2>2, <3>1, <3>2 DEF WorkerAt, IInv, TypeOK
      <4>2. dest'[task[u].id] = dest[task[u].id]
        BY <3>1, <4>1
      <4>3. CASE dest'[j] = dest[task[u].id]
        BY <3>1, <4>2, <4>3 DEF Clash
      <4>4. CASE dest'[j] # dest[task[u].id]
        BY <1>7, <3>1, <4>1, <4>2, <4>4
      <4> QED
        BY <4>3, <4>4
    <3> QED
      BY <1>2, <2>1, <2>2, <3>1, <3>2 DEF SavingAt, Working
  <2>3. CASE ~Working(u)
    <3>1. pc[u] \in {"saved", "guarded"} =>
             /\ task[u].id \in Created /\ HasSum(task[u].id) /\ task[u].id # j
             /\ dest[task[u].id] # None
      BY <1>1, <2>1 DEF SavingAt, IInv, RowAt, Created
    <3>2. pc[u] \in {"saved", "guarded"} /\ Clash(task[u].id) => Clash(task[u].id)'
      BY <1>7, <3>1 DEF Created
    <3> QED
      BY <1>2, <1>5, <2>1, <2>3, <3>1, <3>2 DEF SavingAt, Working, Created
  <2> QED
    BY <2>2, <2>3
<1>14. Doomed'
  <2>1. pc'[Scheduler] \in {"sweeping", "swept"} =>
           pc'[Scheduler] = pc[Scheduler] /\ task'[Scheduler] = task[Scheduler]
    BY DEF Tasks
  <2> QED
    BY <1>2, <1>5, <1>6, <2>1 DEF IInv, Doomed, Created
<1> QED
  BY <1>3, <1>8, <1>10, <1>11, <1>12, <1>13, <1>14

LEMMA CreateStep ==
    ASSUME IInv, TypeOK', NEW t \in Tasks, NEW kind \in BACKUP_TYPES,
           create_backup_job(t, kind), UNCHANGED <<disk, files, dest, byHand>>,
           pc[t] \in {"idle", "cleaned", "confirmed"},
           task[t].target # None => kind = "full"
    PROVE  IInv'
<1> DEFINE j == Cardinality(Created) + 1
<1>1. j \in Ids /\ j \notin Created
  BY NextNumber DEF create_backup_job, IInv
<1>2. /\ \A k \in Ids \ {j} : job'[k] = job[k]
      /\ job'[j].kind = kind /\ job'[j].status = "pending" /\ job'[j].file = None
      /\ job'[j].sum = None
      /\ job'[j] = [kind |-> kind, status |-> "pending", at |-> clock,
                    by |-> IF t = Scheduler THEN None ELSE t, file |-> None, sum |-> None]
  BY <1>1 DEF create_backup_job, IInv, TypeOK
<1>3. job'[j] # None
  <2>1. [kind |-> kind, status |-> "pending", at |-> clock,
         by |-> IF t = Scheduler THEN None ELSE t, file |-> None, sum |-> None] \in Rows
    BY DEF Rows, IInv, TypeOK, Tasks, BACKUP_STATUSES
  <2> QED
    BY <1>2, <2>1, NoneIsNothing
<1>4. /\ pc'[t] = "created" /\ task'[t].id = j
      /\ task'[t].target = task[t].target /\ task'[t].had = task[t].had
      /\ \A u \in Tasks \ {t} : pc'[u] = pc[u] /\ task'[u] = task[u]
  BY DEF create_backup_job, Goto, IInv, TypeOK
<1> HIDE DEF j
<1>5. Created' = Created \cup {j}
  BY <1>1, <1>2, <1>3 DEF Created
<1>6. Numbered'
  <2>1. \E n \in 0..MaxJobs : Created \cup {j} = 1..n
    BY <1>1, NextNumber DEF IInv, j
  <2> QED
    BY <1>5, <2>1 DEF Numbered
<1>7. \A k \in Created : k \in Ids \ {j} /\ job'[k] = job[k]
  BY <1>1, <1>2 DEF Created
<1>8. \A k \in Ids : Newer(k) => Newer(k)'
  BY <1>5, <1>7 DEF Newer, HasSum
<1>9. \A k \in Ids : RowAt(k)'
  BY <1>1, <1>2, <1>5, <1>7 DEF IInv, RowAt, HasSum
<1>10. \A k \in Ids : SurvivesAt(k)'
  BY <1>2, <1>5, <1>7, <1>8 DEF IInv, SurvivesAt, HasSum, Clash
<1>11. dest[j] = None
  BY <1>1 DEF IInv, RowAt
<1>12. ASSUME NEW u \in Tasks PROVE WorkerAt(u)'
  <2>1. WorkerAt(u) /\ WorkerAt(t) /\ ~Working(t)
    BY DEF IInv, Working
  <2>2. CASE u = t
    BY <1>1, <1>2, <1>4, <1>5, <1>11, <2>2 DEF IInv, WorkerAt, Working, HasSum
  <2>3. CASE u # t
    BY <1>1, <1>4, <1>5, <1>7, <2>1, <2>3 DEF WorkerAt, Working, HasSum
  <2> QED
    BY <2>2, <2>3
<1>13. \A u \in Tasks : DeletingAt(u)'
  BY <1>4, <1>5 DEF IInv, DeletingAt
<1>14. ASSUME NEW u \in Tasks PROVE SavingAt(u)'
  <2>1. SavingAt(u) /\ WorkerAt(u)
    BY DEF IInv
  <2>2. CASE u = t
    BY <1>2, <1>4, <1>5, <2>1, <2>2 DEF SavingAt
  <2>3. CASE u # t
    BY <1>4, <1>5, <1>7, <2>1, <2>3 DEF SavingAt, WorkerAt, Working, HasSum, Clash
  <2> QED
    BY <2>2, <2>3
<1>15. Doomed'
  BY <1>4, <1>5, <1>7, <1>8 DEF IInv, Doomed, HasSum, Created, Tasks
<1> QED
  BY <1>6, <1>9, <1>10, <1>12, <1>13, <1>14, <1>15 DEF IInv

LEMMA StartStep ==
    ASSUME IInv, TypeOK', NEW t \in Tasks, NEW j \in Ids, j = task[t].id, StartJob(t)
    PROVE  IInv'
<1>0. Working(t) /\ WorkerAt(t) /\ RowAt(j) /\ pc[t] = "created"
  BY DEF StartJob, Working, IInv
<1>1. /\ j \in Created /\ Working(t) /\ ~HasSum(j) /\ dest[j] = None
      /\ job[j] \in Rows /\ job[j].file = None
  BY <1>0 DEF WorkerAt, RowAt, Created, IInv, TypeOK
<1>2. dest'[j] # None
  BY <1>1, NoneIsNothing DEF StartJob, IInv, TypeOK, Names, Rows
<1>3. /\ job'[j].kind = job[j].kind /\ job'[j].file = None /\ job'[j].sum = None
      /\ job'[j].status = "running" /\ job'[j] \in Rows
      /\ \A k \in Ids \ {j} : job'[k] = job[k] /\ dest'[k] = dest[k]
  BY <1>1 DEF StartJob, IInv, TypeOK, Rows, BACKUP_STATUSES, HasSum
<1>4. /\ pc'[t] = "running" /\ task' = task /\ disk' = disk /\ files' = files /\ byHand' = byHand
      /\ \A u \in Tasks \ {t} : pc'[u] = pc[u]
  BY DEF StartJob, Goto, IInv, TypeOK
<1>5. job'[j] # None /\ Created' = Created /\ ~HasSum(j)'
  BY <1>1, <1>3, NoneIsNothing DEF Created, HasSum
<1>6. /\ Numbered'
      /\ \A k \in Ids \ {j} : RowAt(k)' /\ SurvivesAt(k)'
      /\ \A u \in Tasks \ {t} : WorkerAt(u)' /\ DeletingAt(u)' /\ SavingAt(u)'
      /\ Doomed'
  BY <1>1, <1>2, <1>3, <1>4, <1>5, OthersStand
<1>7. RowAt(j)' /\ SurvivesAt(j)'
  BY <1>1, <1>3, <1>5 DEF RowAt, SurvivesAt, HasSum
<1>8. WorkerAt(t)' /\ DeletingAt(t)'
  BY <1>0, <1>1, <1>2, <1>3, <1>4, <1>5 DEF WorkerAt, Working, DeletingAt
<1>9. SavingAt(t)'
  BY <1>0, <1>1, <1>3, <1>4, <1>5 DEF IInv, SavingAt, Working
<1> QED
  <2>1. \A k \in Ids : RowAt(k)' /\ SurvivesAt(k)'
    BY <1>6, <1>7
  <2>2. \A u \in Tasks : WorkerAt(u)' /\ DeletingAt(u)' /\ SavingAt(u)'
    BY <1>6, <1>8, <1>9
  <2> QED
    BY <1>6, <2>1, <2>2 DEF IInv

\* The invariant from what OthersStand says and what the task that moved shows itself.
LEMMA AllStand ==
    ASSUME TypeOK', NEW t \in Tasks, NEW j \in Ids, Numbered', Doomed',
           \A k \in Ids \ {j} : RowAt(k)' /\ SurvivesAt(k)',
           \A u \in Tasks \ {t} : WorkerAt(u)' /\ DeletingAt(u)' /\ SavingAt(u)',
           RowAt(j)', SurvivesAt(j)', WorkerAt(t)', DeletingAt(t)', SavingAt(t)'
    PROVE  IInv'
<1>1. \A k \in Ids : RowAt(k)' /\ SurvivesAt(k)'
  OBVIOUS
<1>2. \A u \in Tasks : WorkerAt(u)' /\ DeletingAt(u)' /\ SavingAt(u)'
  OBVIOUS
<1> QED
  BY <1>1, <1>2 DEF IInv

\* A step that writes an archive and no row.
LEMMA WriteStep ==
    ASSUME IInv, TypeOK', NEW t \in Tasks, NEW j \in Ids, j = task[t].id,
           UNCHANGED <<job, dest, byHand, files, task>>,
           pc[t] \in {"running", "writing"}, pc'[t] \in {"writing", "written"},
           \A u \in Tasks \ {t} : pc'[u] = pc[u],
           \A n \in Names : n # dest[j] => disk'[n] = disk[n],
           task[t].target # None =>
              \/ Clash(j) \/ disk'[dest[j]] = None
              \/ /\ task[t].had \subseteq disk'[dest[j]].saved
                 /\ pc'[t] = "writing" => disk'[dest[j]].log = <<j>>
    PROVE  IInv'
<1>0. Working(t) /\ Working(t)' /\ WorkerAt(t) /\ RowAt(j) /\ SavingAt(t)
  BY DEF Working, IInv
<1>1. /\ j \in Created /\ ~HasSum(j) /\ dest[j] # None /\ job[j] # None
  BY <1>0 DEF WorkerAt, Created
<1>2. /\ Numbered'
      /\ \A k \in Ids \ {j} : RowAt(k)' /\ SurvivesAt(k)'
      /\ \A u \in Tasks \ {t} : WorkerAt(u)' /\ DeletingAt(u)' /\ SavingAt(u)'
      /\ Doomed'
  BY <1>0, <1>1, OthersStand
<1>3. RowAt(j)' /\ SurvivesAt(j)'
  BY <1>0, <1>1 DEF RowAt, SurvivesAt, HasSum, Created
<1>4. WorkerAt(t)' /\ DeletingAt(t)'
  BY <1>0, <1>1 DEF WorkerAt, Working, DeletingAt, HasSum, Created
<1>5. SavingAt(t)'
  BY <1>0, <1>1 DEF SavingAt, Working, Created, Clash
<1> QED
  BY <1>2, <1>3, <1>4, <1>5, AllStand

LEMMA OpenStep ==
    ASSUME IInv, TypeOK', NEW t \in Tasks, NEW j \in Ids, j = task[t].id, OpenFile(t)
    PROVE  IInv'
<1>1. Working(t) /\ WorkerAt(t) /\ SavingAt(t) /\ pc[t] = "running" /\ dest[j] \in Names
  BY DEF OpenFile, Working, IInv, WorkerAt, TypeOK
<1>2. /\ pc'[t] = "writing" /\ \A u \in Tasks \ {t} : pc'[u] = pc[u]
      /\ \A n \in Names : n # dest[j] => disk'[n] = disk[n]
      /\ disk'[dest[j]].log = <<j>>
      /\ disk'[dest[j]].saved = IF job[j].kind = "database" THEN {} ELSE files
  BY <1>1 DEF OpenFile, Goto, IInv, TypeOK
<1>3. task[t].target # None => task[t].had \subseteq disk'[dest[j]].saved
  BY <1>1, <1>2 DEF SavingAt
<1> QED
  BY <1>1, <1>2, <1>3, WriteStep DEF OpenFile

LEMMA CloseStep ==
    ASSUME IInv, TypeOK', NEW t \in Tasks, NEW j \in Ids, j = task[t].id, CloseFile(t)
    PROVE  IInv'
<1>1. Working(t) /\ WorkerAt(t) /\ SavingAt(t) /\ pc[t] = "writing" /\ dest[j] \in Names
  BY DEF CloseFile, Working, IInv, WorkerAt, TypeOK
<1>2. /\ pc'[t] = "written" /\ \A u \in Tasks \ {t} : pc'[u] = pc[u]
      /\ \A n \in Names : n # dest[j] => disk'[n] = disk[n]
  BY <1>1 DEF CloseFile, Goto, IInv, TypeOK
<1>3. CASE disk[dest[j]] = None
  BY <1>1, <1>2, <1>3, WriteStep DEF CloseFile
<1>4. CASE disk[dest[j]] # None
  <2>1. PICK held \in SUBSET (disk[dest[j]].saved \cup files) :
           /\ disk[dest[j]].saved \cap files \subseteq held
           /\ disk' = [disk EXCEPT ![dest[j]] =
                [log   |-> Append(disk[dest[j]].log, j),
                 saved |-> IF disk[dest[j]].log = <<j>> /\ job[j].kind # "database"
                           THEN held ELSE {}]]
    BY <1>4 DEF CloseFile
  <2>2. disk'[dest[j]].saved =
           IF disk[dest[j]].log = <<j>> /\ job[j].kind # "database" THEN held ELSE {}
    BY <1>1, <2>1 DEF IInv, TypeOK
  <2>3. task[t].target # None => Clash(j) \/ task[t].had \subseteq disk'[dest[j]].saved
    BY <1>1, <1>4, <2>1, <2>2 DEF SavingAt
  <2> QED
    BY <1>1, <1>2, <2>3, WriteStep DEF CloseFile
<1> QED
  BY <1>3, <1>4

LEMMA CompleteStep ==
    ASSUME IInv, TypeOK', NEW t \in Tasks, NEW j \in Ids, j = task[t].id, CompleteJob(t)
    PROVE  IInv'
<1>0. Working(t) /\ WorkerAt(t) /\ RowAt(j) /\ SavingAt(t) /\ pc[t] = "written"
  BY DEF CompleteJob, Working, IInv
<1>1. /\ j \in Created /\ ~HasSum(j) /\ dest[j] \in Names /\ job[j] \in Rows
      /\ dest[j] # None
  BY <1>0 DEF WorkerAt, Created, IInv, TypeOK
<1>2. /\ job'[j].kind = job[j].kind /\ job'[j].file = dest[j]
      /\ job'[j].sum = disk[dest[j]] /\ job'[j].status = "completed" /\ job'[j] \in Rows
      /\ \A k \in Ids \ {j} : job'[k] = job[k]
      /\ disk[dest[j]] # None
      /\ UNCHANGED <<disk, files, dest, byHand>>
  <2>1. /\ job' = [job EXCEPT ![j].status = "completed", ![j].file = dest[j],
                              ![j].sum = disk[dest[j]]]
        /\ disk[dest[j]] # None
        /\ UNCHANGED <<disk, files, dest, byHand>>
    BY DEF CompleteJob
  <2>2. job' = [job EXCEPT ![j] = [job[j] EXCEPT !.status = "completed", !.file = dest[j],
                                                 !.sum = disk[dest[j]]]]
    BY <1>1, <2>1 DEF IInv, TypeOK
  <2>3. disk[dest[j]] \in Contents
    BY <1>1, <2>1 DEF IInv, TypeOK
  <2>4. /\ job'[j] = [job[j] EXCEPT !.status = "completed", !.file = dest[j],
                                    !.sum = disk[dest[j]]]
        /\ \A k \in Ids \ {j} : job'[k] = job[k]
    BY <2>2 DEF IInv, TypeOK
  <2>5. /\ job'[j].kind = job[j].kind /\ job'[j].file = dest[j]
        /\ job'[j].sum = disk[dest[j]] /\ job'[j].status = "completed"
    BY <1>1, <2>4 DEF Rows
  <2>6. job'[j] \in Rows
    BY <1>1, <2>3, <2>4 DEF Rows, BACKUP_STATUSES
  <2> QED
    BY <2>1, <2>4, <2>5, <2>6
<1>3. job'[j] # None /\ Created' = Created /\ HasSum(j)'
  BY <1>1, <1>2, NoneIsNothing DEF Created, HasSum
<1>4. /\ \A u \in Tasks \ {t} : pc'[u] = pc[u] /\ task'[u] = task[u]
      /\ \/ pc'[t] = "idle" /\ task'[t] = NoTask
         \/ pc'[t] = "saved" /\ task'[t] = task[t] /\ task[t].target # None
  BY DEF CompleteJob, Return, Goto, IInv, TypeOK
<1>5. /\ Numbered'
      /\ \A k \in Ids \ {j} : RowAt(k)' /\ SurvivesAt(k)'
      /\ \A u \in Tasks \ {t} : WorkerAt(u)' /\ DeletingAt(u)' /\ SavingAt(u)'
      /\ Doomed'
  <2>1. ~Working(t)' /\ pc'[t] \notin {"sweeping", "swept"}
    BY <1>4 DEF Working
  <2> QED
    BY <1>0, <1>1, <1>2, <1>3, <1>4, <2>1, OthersStand
<1>6. RowAt(j)' /\ SurvivesAt(j)'
  BY <1>1, <1>2, <1>3 DEF RowAt, SurvivesAt
<1>7. WorkerAt(t)' /\ DeletingAt(t)'
  BY <1>4 DEF WorkerAt, Working, DeletingAt
<1>8. SavingAt(t)'
  <2>1. CASE pc'[t] = "idle" /\ task'[t] = NoTask
    BY <2>1 DEF SavingAt, NoTask, Working
  <2>2. CASE pc'[t] = "saved" /\ task'[t] = task[t] /\ task[t].target # None
    <3>1. Clash(j)' \/ task'[t].had \subseteq job'[j].sum.saved
      BY <1>0, <1>2, <2>2 DEF SavingAt, Clash
    <3> QED
      BY <1>0, <1>1, <1>2, <1>3, <2>2, <3>1 DEF SavingAt, Working
  <2> QED
    BY <1>4, <2>1, <2>2
<1> QED
  BY <1>5, <1>6, <1>7, <1>8, AllStand

LEMMA FailStep ==
    ASSUME IInv, TypeOK', NEW t \in Tasks, NEW j \in Ids, j = task[t].id, FailJob(t)
    PROVE  IInv'
<1>0. Working(t) /\ WorkerAt(t) /\ RowAt(j) /\ pc[t] # "created"
  BY DEF FailJob, Working, IInv
<1>1. /\ j \in Created /\ ~HasSum(j) /\ dest[j] \in Names /\ job[j] \in Rows
      /\ dest[j] # None /\ job[j].file = None
  BY <1>0 DEF WorkerAt, Created, IInv, TypeOK, RowAt
<1>2. /\ job'[j].file = None /\ job'[j].sum = None /\ job'[j].status = "failed"
      /\ job'[j] \in Rows
      /\ \A k \in Ids \ {j} : job'[k] = job[k]
      /\ \A n \in Names : n # dest[j] => disk'[n] = disk[n]
      /\ UNCHANGED <<files, dest, byHand>>
  BY <1>1 DEF FailJob, IInv, TypeOK, Rows, HasSum, BACKUP_STATUSES
<1>3. job'[j] # None /\ Created' = Created /\ ~HasSum(j)'
  BY <1>1, <1>2, NoneIsNothing DEF Created, HasSum
<1>4. /\ \A u \in Tasks \ {t} : pc'[u] = pc[u] /\ task'[u] = task[u]
      /\ pc'[t] = "idle" /\ task'[t] = NoTask
  BY DEF FailJob, Return, Goto, IInv, TypeOK
<1>5. /\ Numbered'
      /\ \A k \in Ids \ {j} : RowAt(k)' /\ SurvivesAt(k)'
      /\ \A u \in Tasks \ {t} : WorkerAt(u)' /\ DeletingAt(u)' /\ SavingAt(u)'
      /\ Doomed'
  <2>1. ~Working(t)' /\ pc'[t] \notin {"sweeping", "swept"}
    BY <1>4 DEF Working
  <2> QED
    BY <1>0, <1>1, <1>2, <1>3, <1>4, <2>1, OthersStand
<1>6. RowAt(j)' /\ SurvivesAt(j)'
  BY <1>1, <1>2, <1>3 DEF RowAt, SurvivesAt
<1>7. WorkerAt(t)' /\ DeletingAt(t)' /\ SavingAt(t)'
  BY <1>4 DEF WorkerAt, Working, DeletingAt, SavingAt, NoTask
<1> QED
  BY <1>5, <1>6, <1>7, AllStand

-----------------------------------------------------------------------------
(* Deletions and sweeps.                                                   *)

\* Files may go and rows be marked, as long as what must survive does.
LEMMA RemovalStep ==
    ASSUME IInv, TypeOK', NEW t \in Tasks,
           UNCHANGED <<dest, files>>, byHand \subseteq byHand',
           \A u \in Tasks \ {t} : pc'[u] = pc[u] /\ task'[u] = task[u],
           pc[t] \in {"idle", "unlinked", "sweeping", "swept"},
           pc'[t] \in {"idle", "unlinked", "swept", "cleaned"}, task'[t].target = None,
           task'[t].had \subseteq files,
           pc'[t] = "unlinked" => task'[t].id \in byHand' \cap Created,
           \A n \in Names : disk'[n] \in {disk[n], None},
           \A k \in Ids : job'[k] = job[k] \/
              /\ k \in Created /\ job'[k] # None
              /\ job'[k].kind = job[k].kind /\ job'[k].file = job[k].file
              /\ job'[k].sum = job[k].sum /\ job'[k].status = "deleted",
           \A k \in Created \ byHand' : HasSum(k) /\ ~Clash(k) =>
              Newer(k) \/ (job'[k] = job[k] /\ disk'[job[k].file] = disk[job[k].file]),
           t # Scheduler \/ (pc'[t] = "swept" => pc[t] = "sweeping" /\ task'[t] = task[t])
    PROVE  IInv'
<1>1. Created' = Created
  BY DEF Created
<1>2. \A k \in Created : HasSum(k)' <=> HasSum(k)
  BY DEF HasSum, Created
<1>3. \A k \in Ids : /\ Newer(k)' <=> Newer(k)
                     /\ Clash(k)' <=> Clash(k)
  BY <1>1, <1>2 DEF Newer, Clash
<1>4. Numbered'
  BY <1>1 DEF IInv, Numbered
<1>5. \A k \in Ids : RowAt(k)'
  BY <1>1, <1>2 DEF IInv, RowAt, HasSum
<1>6. ASSUME NEW k \in Ids PROVE SurvivesAt(k)'
  <2>1. SUFFICES ASSUME k \in Created \ byHand', HasSum(k), ~Clash(k), ~Newer(k)
                 PROVE  /\ job'[k].status = "completed"
                        /\ disk'[job'[k].file] = job'[k].sum
    BY <1>1, <1>2, <1>3 DEF SurvivesAt
  <2>2. job'[k] = job[k] /\ disk'[job[k].file] = disk[job[k].file]
    BY <2>1
  <2> QED
    BY <2>1, <2>2 DEF IInv, SurvivesAt
<1>7. ASSUME NEW u \in Tasks PROVE WorkerAt(u)'
  BY <1>1, <1>2 DEF IInv, WorkerAt, Working
<1>8. ASSUME NEW u \in Tasks PROVE DeletingAt(u)'
  BY <1>1 DEF IInv, DeletingAt
<1>9. ASSUME NEW u \in Tasks PROVE SavingAt(u)'
  <2>1. CASE u = t
    BY <2>1 DEF SavingAt, Working
  <2>2. CASE u # t
    <3>1. SavingAt(u) /\ WorkerAt(u) /\ pc'[u] = pc[u] /\ task'[u] = task[u]
      BY <2>2 DEF IInv
    <3>2. pc[u] \in {"writing", "written"} =>
            /\ task[u].id \in Ids /\ dest[task[u].id] \in Names
            /\ disk'[dest[task[u].id]] \in {disk[dest[task[u].id]], None}
      BY <3>1 DEF WorkerAt, Working, Created, IInv, TypeOK
    <3>3. Working(u) => task[u].id \in Ids /\ job'[task[u].id].kind = job[task[u].id].kind
      BY <3>1 DEF WorkerAt, Created
    <3>4. pc[u] \in {"saved", "guarded"} =>
            /\ task[u].id \in Ids /\ HasSum(task[u].id)'
            /\ job'[task[u].id].sum = job[task[u].id].sum
      BY <1>2, <3>1 DEF SavingAt, Created
    <3> QED
      BY <1>1, <1>3, <3>1, <3>2, <3>3, <3>4 DEF SavingAt, Working, Created
  <2> QED
    BY <2>1, <2>2
<1>10. Doomed'
  <2>1. pc'[Scheduler] \in {"sweeping", "swept"} =>
           pc[Scheduler] \in {"sweeping", "swept"} /\ task'[Scheduler] = task[Scheduler]
    BY DEF Tasks
  <2> QED
    BY <1>1, <1>2, <1>3, <2>1 DEF IInv, Doomed, Created
<1> QED
  BY <1>4, <1>5, <1>6, <1>7, <1>8, <1>9, <1>10 DEF IInv

\* Whose file it is, when it is anybody's.
LEMMA FileOwner ==
    ASSUME IInv, NEW j \in Created, NEW k \in Created, HasSum(k),
           job[j].file # None, job[j].file = job[k].file, ~Clash(k)
    PROVE  j = k
<1>1. job[j].file = dest[j] /\ job[k].file = dest[k]
  BY DEF IInv, RowAt, Created
<1> QED
  BY <1>1 DEF Clash, Created

LEMMA DeleteFileStep ==
    ASSUME IInv, TypeOK', NEW a \in Admins, NEW j \in Ids, DeleteFile(a, j)
    PROVE  IInv'
<1>1. a \in Tasks /\ a # Scheduler
  BY SchedulerIsApart DEF Tasks
<1>2. /\ pc[a] = "idle" /\ pc'[a] = "unlinked" /\ task'[a].id = j
      /\ task'[a].target = task[a].target /\ task'[a].had = task[a].had
      /\ \A u \in Tasks \ {a} : pc'[u] = pc[u] /\ task'[u] = task[u]
  BY <1>1 DEF DeleteFile, Goto, IInv, TypeOK
<1>3. task[a].target = None /\ task[a].had \subseteq files
  BY <1>1, <1>2 DEF IInv, SavingAt
<1>4. \A n \in Names : /\ disk'[n] \in {disk[n], None}
                       /\ job[j].file # n => disk'[n] = disk[n]
  BY DEF DeleteFile, IInv, TypeOK
<1>5. ASSUME NEW k \in Created \ byHand', HasSum(k), ~Clash(k)
      PROVE  disk'[job[k].file] = disk[job[k].file]
  <2>1. k # j /\ j \in Created
    BY <1>5 DEF DeleteFile
  <2>2. job[k].file # None /\ job[k].file \in Names
    BY <1>5 DEF IInv, RowAt, TypeOK, Rows, Created
  <2>3. job[k].file # job[j].file
    BY <1>5, <2>1, <2>2, FileOwner
  <2> QED
    BY <1>4, <2>2, <2>3
<1>6. j \in byHand' \cap Created /\ byHand \subseteq byHand' /\ UNCHANGED <<job, dest, files>>
  BY DEF DeleteFile
<1> QED
  BY <1>1, <1>2, <1>3, <1>4, <1>5, <1>6, RemovalStep

LEMMA DeleteRowStep ==
    ASSUME IInv, TypeOK', NEW a \in Admins, DeleteRow(a)
    PROVE  IInv'
<1>1. a \in Tasks /\ a # Scheduler
  BY SchedulerIsApart DEF Tasks
<1>2. /\ pc[a] = "unlinked" /\ pc'[a] = "idle" /\ task'[a] = NoTask
      /\ \A u \in Tasks \ {a} : pc'[u] = pc[u] /\ task'[u] = task[u]
  BY <1>1 DEF DeleteRow, Return, Goto, IInv, TypeOK
<1>3. task[a].id \in byHand \cap Created /\ job[task[a].id] \in Rows
  BY <1>1, <1>2 DEF IInv, DeletingAt, TypeOK, Created
<1>4. [job[task[a].id] EXCEPT !.status = "deleted"] \in Rows
  BY <1>3 DEF Rows, BACKUP_STATUSES
<1>5. \A k \in Ids : job'[k] = job[k] \/
         /\ k = task[a].id /\ job'[k] # None
         /\ job'[k].kind = job[k].kind /\ job'[k].file = job[k].file
         /\ job'[k].sum = job[k].sum /\ job'[k].status = "deleted"
  <2>1. CASE job' = job
    BY <2>1
  <2>2. CASE job' = [job EXCEPT ![task[a].id].status = "deleted"]
    BY <1>3, <1>4, <2>2, NoneIsNothing DEF IInv, TypeOK, Rows
  <2> QED
    BY <2>1, <2>2 DEF DeleteRow
<1>6. UNCHANGED <<disk, dest, files, byHand>>
  BY DEF DeleteRow
<1>7. \A k \in Created \ byHand' : job'[k] = job[k] /\ disk' = disk
  BY <1>3, <1>5, <1>6 DEF Created
<1>8. /\ task'[a].target = None /\ task'[a].had = {}
      /\ \A n \in Names : disk'[n] \in {disk[n], None}
  BY <1>2, <1>6 DEF NoTask
<1>9. \A k \in Ids : job'[k] = job[k] \/
         /\ k \in Created /\ job'[k] # None
         /\ job'[k].kind = job[k].kind /\ job'[k].file = job[k].file
         /\ job'[k].sum = job[k].sum /\ job'[k].status = "deleted"
  BY <1>3, <1>5
<1> QED
  BY <1>1, <1>2, <1>6, <1>7, <1>8, <1>9, RemovalStep

LEMMA SweepFilesStep ==
    ASSUME IInv, TypeOK', SweepFiles
    PROVE  IInv'
<1>1. Scheduler \in Tasks
  BY DEF Tasks
<1>2. /\ pc[Scheduler] = "sweeping" /\ pc'[Scheduler] = "swept" /\ task' = task
      /\ \A u \in Tasks \ {Scheduler} : pc'[u] = pc[u]
      /\ UNCHANGED <<job, dest, files, byHand>>
  BY <1>1 DEF SweepFiles, Goto, IInv, TypeOK
<1>3. task[Scheduler].target = None /\ task[Scheduler].had \subseteq files
  BY <1>1, <1>2 DEF IInv, SavingAt
<1>4. \A n \in Names :
         /\ disk'[n] \in {disk[n], None}
         /\ (\A j \in task[Scheduler].doomed : job[j].file # n) => disk'[n] = disk[n]
  BY DEF SweepFiles, IInv, TypeOK
<1>5. ASSUME NEW k \in Created \ byHand, HasSum(k), ~Clash(k), ~Newer(k)
      PROVE  disk'[job[k].file] = disk[job[k].file]
  <2>1. job[k].file # None /\ job[k].file \in Names
    BY <1>5 DEF IInv, RowAt, TypeOK, Rows, Created
  <2>2. ASSUME NEW j \in task[Scheduler].doomed PROVE job[j].file # job[k].file
    <3>1. j \in Created /\ Newer(j)
      BY <1>2 DEF IInv, Doomed
    <3> QED
      BY <1>5, <2>1, <3>1, FileOwner
  <2> QED
    BY <1>4, <2>1, <2>2
<1>6. /\ \A k \in Ids : job'[k] = job[k]
      /\ \A k \in Created \ byHand' : HasSum(k) /\ ~Clash(k) =>
            Newer(k) \/ (job'[k] = job[k] /\ disk'[job[k].file] = disk[job[k].file])
  <2>1. job' = job /\ byHand' = byHand
    BY <1>2
  <2>2. ASSUME NEW k \in Created \ byHand', HasSum(k), ~Clash(k)
        PROVE  Newer(k) \/ (job'[k] = job[k] /\ disk'[job[k].file] = disk[job[k].file])
    <3>1. k \in Created \ byHand
      BY <2>1, <2>2
    <3>2. CASE Newer(k)
      BY <3>2
    <3>3. CASE ~Newer(k)
      <4>1. disk'[job[k].file] = disk[job[k].file]
        BY <1>5, <2>2, <3>1, <3>3
      <4> QED
        BY <2>1, <4>1
    <3> QED
      BY <3>2, <3>3
  <2>3. \A k \in Ids : job'[k] = job[k]
    BY <2>1
  <2> QED
    BY <2>2, <2>3
<1>7. /\ \A n \in Names : disk'[n] \in {disk[n], None}
      /\ \A u \in Tasks \ {Scheduler} : pc'[u] = pc[u] /\ task'[u] = task[u]
      /\ task'[Scheduler] = task[Scheduler] /\ byHand \subseteq byHand'
      /\ UNCHANGED <<dest, files>>
  BY <1>2, <1>4
<1> QED
  BY <1>1, <1>2, <1>3, <1>6, <1>7, RemovalStep

LEMMA SweepRowsStep ==
    ASSUME IInv, TypeOK', SweepRows
    PROVE  IInv'
<1>1. Scheduler \in Tasks
  BY DEF Tasks
<1>2. /\ pc[Scheduler] = "swept" /\ pc'[Scheduler] = "cleaned" /\ task'[Scheduler] = NoTask
      /\ \A u \in Tasks \ {Scheduler} : pc'[u] = pc[u] /\ task'[u] = task[u]
      /\ UNCHANGED <<disk, dest, files, byHand>>
  BY <1>1 DEF SweepRows, Goto, IInv, TypeOK
<1>3. \A k \in Ids \ task[Scheduler].doomed : job'[k] = job[k]
  BY DEF SweepRows
<1>4. ASSUME NEW k \in task[Scheduler].doomed
      PROVE  /\ k \in Created /\ Newer(k) /\ job'[k] # None
             /\ job'[k].kind = job[k].kind /\ job'[k].file = job[k].file
             /\ job'[k].sum = job[k].sum /\ job'[k].status = "deleted"
  <2>1. k \in Created /\ Newer(k) /\ job[k] \in Rows
    BY <1>2 DEF IInv, Doomed, TypeOK, Created
  <2>2. job'[k] = [job[k] EXCEPT !.status = "deleted"]
    BY <2>1 DEF SweepRows, Created
  <2>3. job'[k] \in Rows
    BY <2>1, <2>2 DEF Rows, BACKUP_STATUSES
  <2> QED
    BY <2>1, <2>2, <2>3, NoneIsNothing DEF Rows
<1> QED
  BY <1>1, <1>2, <1>3, <1>4, RemovalStep DEF NoTask, Created

-----------------------------------------------------------------------------
(* Theorems.                                                               *)

LEMMA InvInit == ASSUME Init PROVE IInv
<1>1. TypeOK
  <2>1. NoTask \in [id : Ids \cup {None}, target : Ids \cup {None},
                   doomed : SUBSET Ids, gone : BOOLEAN, had : SUBSET Uploads]
    BY DEF NoTask
  <2>2. 0 \in 0..MaxClock /\ 0 \in 0..MaxCrashes
    BY BoundsAreNumbers
  <2> QED
    BY <2>1, <2>2 DEF Init, TypeOK
<1>2. Created = {}
  BY DEF Init, Created
<1>3. Numbered
  <2>1. 0 \in 0..MaxJobs /\ 1..0 = {}
    BY BoundsAreNumbers
  <2> QED
    BY <1>2, <2>1 DEF Numbered
<1>4. \A j \in Ids : RowAt(j) /\ SurvivesAt(j)
  BY <1>2 DEF RowAt, SurvivesAt, Init
<1>5. \A t \in Tasks : WorkerAt(t) /\ DeletingAt(t) /\ SavingAt(t)
  BY DEF Init, WorkerAt, DeletingAt, SavingAt, Working, NoTask
<1>6. Doomed
  BY DEF Init, Doomed, Tasks
<1> QED
  BY <1>1, <1>3, <1>4, <1>5, <1>6 DEF IInv

LEMMA InvStep == ASSUME IInv, [Next]_vars PROVE IInv'
<1>0. TypeOK'
  BY TypeStep
<1>1. ASSUME NEW a \in Admins, NEW kind \in Types, RequestBackup(a, kind) PROVE IInv'
  <2>1. a \in Tasks /\ kind \in BACKUP_TYPES
    BY TypesAreKnown DEF Tasks, BACKUP_TYPES
  <2>2. task[a].target = None
    BY <1>1, <2>1 DEF RequestBackup, IInv, SavingAt
  <2> QED
    BY <1>0, <1>1, <2>1, <2>2, CreateStep DEF RequestBackup
<1>2. ASSUME NEW a \in Admins, Preflight(a) PROVE IInv'
  <2>1. a \in Tasks /\ "full" \in BACKUP_TYPES
    BY DEF Tasks, BACKUP_TYPES
  <2> QED
    BY <1>0, <1>2, <2>1, CreateStep DEF Preflight
<1>3. ASSUME NEW kind \in Types, ScheduledBackup(kind) PROVE IInv'
  <2>1. Scheduler \in Tasks /\ kind \in BACKUP_TYPES
    BY TypesAreKnown DEF Tasks, BACKUP_TYPES
  <2>2. task[Scheduler].target = None
    BY <2>1 DEF IInv, SavingAt
  <2> QED
    BY <1>0, <1>3, <2>1, <2>2, CreateStep DEF ScheduledBackup
<1>4. ASSUME NEW t \in Tasks, JobStep(t) PROVE IInv'
  <2>1. Working(t)
    BY <1>4 DEF JobStep, StartJob, OpenFile, CloseFile, CompleteJob, FailJob, Working
  <2>2. task[t].id \in Ids
    BY <2>1 DEF IInv, WorkerAt, Created
  <2> QED
    BY <1>0, <1>4, <2>2, StartStep, OpenStep, CloseStep, CompleteStep, FailStep DEF JobStep
<1>5. ASSUME NEW a \in Admins, NEW j \in Ids, DeleteFile(a, j) PROVE IInv'
  BY <1>0, <1>5, DeleteFileStep
<1>6. ASSUME NEW a \in Admins, DeleteRow(a) PROVE IInv'
  BY <1>0, <1>6, DeleteRowStep
<1>7. ASSUME SweepFiles PROVE IInv'
  BY <1>0, <1>7, SweepFilesStep
<1>8. ASSUME SweepRows PROVE IInv'
  BY <1>0, <1>8, SweepRowsStep
<1> QED
  BY <1>0, <1>1, <1>2, <1>3, <1>4, <1>5, <1>6, <1>7, <1>8, AsideStep DEF Next, Restore

\* Every variable keeps to its type.
THEOREM TypesHold == Spec => []TypeOK
<1>1. IInv => TypeOK
  BY DEF IInv
<1> QED
  BY <1>1, InvInit, InvStep, PTL DEF Spec

\* Sweeps, failures, crashes and whatever else runs beside them never take the latest
\* completed backup away: only an administrator's own deletion does, or a second job that
\* writes to the same name.
THEOREM LatestBackupSurvives == Spec => []LatestSurvives
<1>1. ASSUME IInv PROVE LatestSurvives
  <2>1. SUFFICES ASSUME NEW j \in Created \ byHand, job[j].sum # None, ~Clash(j),
                        \A k \in Created : k > j => job[k].sum = None
                 PROVE  j \in Completed /\ Verified(j)
    BY DEF LatestSurvives
  <2>2. job[j].status = "completed" /\ disk[job[j].file] = job[j].sum /\ job[j].file # None
    BY <1>1, <2>1 DEF IInv, SurvivesAt, RowAt, HasSum, Newer, Created
  <2> QED
    BY <2>1, <2>2 DEF Completed, Verified, OnDisk
<1> QED
  BY <1>1, InvInit, InvStep, PTL DEF Spec

\* A restore that writes storage can be undone: what lay there when it was confirmed is in
\* the intact archive it took first, unless that one was deleted by hand, lost its name or
\* gave way to a newer backup.
THEOREM RestoresLeaveAWayBack == Spec => WayBack
<1>1. ASSUME IInv, NEW a \in Admins, ExtractStorage(a)
      PROVE  LET p == task[a].id
             IN  \/ p \in byHand \/ Clash(p)
                 \/ \E k \in Created : k > p /\ job[k].sum # None
                 \/ p \in Completed /\ Verified(p) /\ task[a].had \subseteq job[p].sum.saved
  <2>1. /\ task[a].id \in Created /\ HasSum(task[a].id)
        /\ Clash(task[a].id) \/ task[a].had \subseteq job[task[a].id].sum.saved
    BY <1>1 DEF ExtractStorage, IInv, SavingAt, Tasks
  <2>2. \/ task[a].id \in byHand \/ Clash(task[a].id) \/ Newer(task[a].id)
        \/ /\ job[task[a].id].status = "completed"
           /\ disk[job[task[a].id].file] = job[task[a].id].sum
           /\ job[task[a].id].file # None
    BY <1>1, <2>1 DEF IInv, SurvivesAt, RowAt, Created
  <2> QED
    BY <2>1, <2>2 DEF Newer, HasSum, Completed, Verified, OnDisk
<1>2. ASSUME IInv, [Next]_vars
      PROVE  [\A a \in Admins : ExtractStorage(a) /\ files' # files =>
                LET p == task[a].id
                IN  \/ p \in byHand \/ Clash(p)
                    \/ \E k \in Created : k > p /\ job[k].sum # None
                    \/ p \in Completed /\ Verified(p)
                       /\ task[a].had \subseteq job[p].sum.saved]_vars
  BY <1>1, <1>2
<1> QED
  BY <1>2, InvInit, InvStep, PTL DEF Spec, WayBack
-----------------------------------------------------------------------------
(* The support desk: SerialTickets, for any handlers, staff and number of   *)
(* tickets.  Nothing locks a ticket's row; what a handler relies on is that *)
(* it read a row the call is allowed on, and, as long as no two handlers    *)
(* meet on a ticket, that the row is still what it read.                    *)

CONSTANTS Handlers, Staff, MaxTickets, Reopening
VARIABLES ticket, speaker, chat, desk, place, work, met

Desk == INSTANCE SerialTickets
           WITH Tasks <- Handlers, pc <- place, job <- work, overlapped <- met

Answers == Desk!FromStaff
Kinds == Desk!FromUser \cup Answers \cup {"close", "reopen", "triage"}
Work == [kind : Kinds \cup {"none", "create"}, ticket : Desk!Ids \cup {None},
         seen : Desk!Row \cup {None}, staff : Staff \cup {None}]

\* What handler t works with is what its place in the code makes it.
DeskCall(t) ==
    LET j == work[t] IN
    /\ place[t] = "loading" => j.kind \in Kinds /\ j.ticket \in Desk!Opened
    /\ place[t] = "loaded" =>
          j.kind = "create" \/ /\ j.kind \in Kinds /\ j.ticket \in Desk!Opened
                               /\ j.seen \in Desk!Row /\ ~Desk!Refused(j.kind, j.seen)
    /\ place[t] = "downloading" =>
          j.kind \in {"create", "photo"} \/ (j.kind = "answer" /\ j.ticket \in Desk!Opened)
    /\ j.kind = "triage" => j.staff \in Staff

\* The chats' states name tickets there are, and tickets are numbered as they come.
DeskSound ==
    /\ Desk!TypeOK
    /\ work \in [Handlers -> Work]
    /\ \A t \in Handlers : DeskCall(t)
    /\ chat.ticket # None => chat.ticket \in Desk!Opened
    /\ chat.state = "reply" => chat.ticket # None
    /\ desk.ticket # None => desk.ticket \in Desk!Opened
    /\ desk.state = "reply" => desk.ticket # None
    /\ \E n \in 0..MaxTickets : Desk!Opened = 1..n

\* Tickets are never deleted, and a handler's step is its own.
LEMMA DeskFrame ==
    ASSUME DeskSound, NEW t \in Handlers, NEW j \in Work, NEW p,
           Desk!NoneIsNothing,
           p \in {"idle", "downloading", "loading", "loaded", "stored"},
           place' = [place EXCEPT ![t] = p], work' = [work EXCEPT ![t] = j],
           Desk!Opened \subseteq Desk!Opened',
           DeskCall(t)'
    PROVE  /\ place' \in [Handlers -> {"idle", "downloading", "loading", "loaded", "stored"}]
           /\ work' \in [Handlers -> Work]
           /\ \A u \in Handlers : work'[u].seen \in Desk!Row \cup {None}
           /\ \A u \in Handlers : DeskCall(u)'
  <1>1. /\ place' \in [Handlers -> {"idle", "downloading", "loading", "loaded", "stored"}]
        /\ work' \in [Handlers -> Work]
    BY DEF DeskSound, Desk!TypeOK
  <1>2. \A u \in Handlers : work'[u].seen \in Desk!Row \cup {None}
    BY <1>1 DEF Work
  <1>3. ASSUME NEW u \in Handlers, u # t PROVE DeskCall(u)'
    <2>1. place'[u] = place[u] /\ work'[u] = work[u] /\ DeskCall(u)
      BY <1>3 DEF DeskSound, Desk!TypeOK
    <2>2. QED
      BY <2>1 DEF DeskCall, Desk!Refused
  <1>4. QED
    BY <1>1, <1>2, <1>3

\* The record a handler starts with.
LEMMA DeskCalls ==
    ASSUME NEW kind \in Kinds \cup {"create"}, NEW k \in Desk!Ids \cup {None}
    PROVE  /\ Desk!Call(kind, k) \in Work
           /\ Desk!Call(kind, k).kind = kind /\ Desk!Call(kind, k).ticket = k
           /\ \A a \in Staff : /\ [Desk!Call(kind, k) EXCEPT !.staff = a] \in Work
                               /\ [Desk!Call(kind, k) EXCEPT !.staff = a].staff = a
  BY DEF Desk!Call, Desk!NoJob, Work

\* What a call makes of a row it is allowed on is a row.
LEMMA DeskRows ==
    ASSUME NEW kind \in Kinds, NEW seen \in Desk!Row, NEW now \in Desk!Row, NEW a,
           kind = "triage" => a \in Staff
    PROVE  /\ Desk!Changed(kind, seen, a) \in Desk!Row
           /\ Desk!Written(now, seen, Desk!Changed(kind, seen, a)) \in Desk!Row
  <1>1. Desk!Changed(kind, seen, a) \in Desk!Row
    BY DEF Desk!Changed, Desk!Row, Desk!Statuses, Kinds, Answers, Desk!FromUser, Desk!FromStaff
  <1> DEFINE new == Desk!Changed(kind, seen, a)
  <1> HIDE DEF new
  <1>2. Desk!Written(now, seen, new) \in Desk!Row
    BY <1>1 DEF Desk!Written, Desk!Row, new
  <1>3. QED
    BY <1>1, <1>2 DEF new

\* Every step keeps the desk sound.
LEMMA DeskStep ==
    ASSUME Desk!TicketBounds, Desk!NoneIsNothing, DeskSound, [Desk!Next]_(Desk!vars)
    PROVE  DeskSound'
  <1> DEFINE Spots == {"idle", "downloading", "loading", "loaded", "stored"}
  <1> DEFINE Same == ticket' = ticket /\ speaker' = speaker
  <1>0. /\ Desk!TypeOK /\ work \in [Handlers -> Work]
        /\ \A t \in Handlers : DeskCall(t)
        /\ \E n \in 0..MaxTickets : Desk!Opened = 1..n
        /\ Desk!Opened \subseteq Desk!Ids
    BY DEF DeskSound, Desk!Opened
  <1>n. Desk!NoJob \in Work /\ Desk!NoJob.kind = "none"
    BY DEF Desk!NoJob, Work
  \* The rows stay, and so does what is known of them.
  <1>s. ASSUME Same PROVE Desk!Opened' = Desk!Opened
    BY <1>s DEF Desk!Opened
  \* What is left to show where the rows stay: the handlers and the chats.
  <1>r. ASSUME Same,
               place' \in [Handlers -> Spots], work' \in [Handlers -> Work],
               \A u \in Handlers : work'[u].seen \in Desk!Row \cup {None},
               \A u \in Handlers : DeskCall(u)',
               \/ chat' \in {chat, Desk!NoChat}
               \/ \E k \in Desk!Opened : chat' = [chat EXCEPT !.state = "reply", !.ticket = k]
               \/ \E x \in {"subject", "message"} : chat' = [chat EXCEPT !.state = x],
               \/ desk' \in {desk, Desk!NoChat}
               \/ \E k \in Desk!Opened : desk' = [desk EXCEPT !.state = "reply", !.ticket = k]
        PROVE  DeskSound'
    <2>1. Desk!Opened' = Desk!Opened
      BY <1>r, <1>s
    <2>a. /\ chat \in [state : {"none", "subject", "message", "reply"}, ticket : Desk!Ids \cup {None}]
          /\ desk \in [state : {"none", "reply"}, ticket : Desk!Ids \cup {None}]
      BY <1>0 DEF Desk!TypeOK
    <2>b. /\ chat.ticket # None => chat.ticket \in Desk!Opened
          /\ chat.state = "reply" => chat.ticket # None
          /\ desk.ticket # None => desk.ticket \in Desk!Opened
          /\ desk.state = "reply" => desk.ticket # None
      BY DEF DeskSound
    <2>c. \A k \in Desk!Opened : k \in Desk!Ids /\ k # None
      BY <1>0 DEF Desk!NoneIsNothing
    <2>2. /\ chat' \in [state : {"none", "subject", "message", "reply"}, ticket : Desk!Ids \cup {None}]
          /\ chat'.ticket # None => chat'.ticket \in Desk!Opened
          /\ chat'.state = "reply" => chat'.ticket # None
      <3>1. CASE chat' \in {chat, Desk!NoChat}
        BY <2>a, <2>b, <3>1 DEF Desk!NoChat
      <3>2. CASE \E k \in Desk!Opened : chat' = [chat EXCEPT !.state = "reply", !.ticket = k]
        BY <2>a, <2>c, <3>2
      <3>3. CASE \E x \in {"subject", "message"} : chat' = [chat EXCEPT !.state = x]
        BY <2>a, <2>b, <3>3
      <3>4. QED
        BY <1>r, <3>1, <3>2, <3>3
    <2>3. /\ desk' \in [state : {"none", "reply"}, ticket : Desk!Ids \cup {None}]
          /\ desk'.ticket # None => desk'.ticket \in Desk!Opened
          /\ desk'.state = "reply" => desk'.ticket # None
      <3>1. CASE desk' \in {desk, Desk!NoChat}
        BY <2>a, <2>b, <3>1 DEF Desk!NoChat
      <3>2. CASE \E k \in Desk!Opened : desk' = [desk EXCEPT !.state = "reply", !.ticket = k]
        BY <2>a, <2>c, <3>2
      <3>3. QED
        BY <1>r, <3>1, <3>2
    <2>4. Desk!TypeOK'
      BY <1>0, <1>r, <2>2, <2>3 DEF Desk!TypeOK
    <2>5. QED
      BY <1>0, <1>r, <2>1, <2>2, <2>3, <2>4 DEF DeskSound
  <1>f. ASSUME NEW t \in Handlers, NEW j \in Work, NEW p \in Spots, Same,
               place' = [place EXCEPT ![t] = p], work' = [work EXCEPT ![t] = j],
               DeskCall(t)'
        PROVE  /\ place' \in [Handlers -> Spots] /\ work' \in [Handlers -> Work]
               /\ \A u \in Handlers : work'[u].seen \in Desk!Row \cup {None}
               /\ \A u \in Handlers : DeskCall(u)'
    BY <1>f, <1>s, DeskFrame
  <1>i. ASSUME NEW t \in Handlers, place'[t] \in {"idle", "stored"},
               work'[t].kind # "triage"
        PROVE  DeskCall(t)'
    BY <1>i DEF DeskCall
  \* No handler moves.
  <1>1. ASSUME \/ Desk!Menu \/ Desk!NewTicket \/ Desk!Subject \/ Desk!AnswerCancel
               \/ \E k \in Desk!Ids : Desk!ReplyButton(k) \/ Desk!AnswerButton(k)
        PROVE  DeskSound'
    <2>1. Same /\ place' = place /\ work' = work
      BY <1>1 DEF Desk!Menu, Desk!NewTicket, Desk!Subject, Desk!AnswerCancel, Desk!ReplyButton,
                  Desk!AnswerButton, Desk!rows
    <2>2. \A u \in Handlers : DeskCall(u)'
      BY <1>0, <1>s, <2>1 DEF DeskCall, Desk!Refused
    <2>3. /\ \/ chat' \in {chat, Desk!NoChat}
             \/ \E k \in Desk!Opened : chat' = [chat EXCEPT !.state = "reply", !.ticket = k]
             \/ \E x \in {"subject", "message"} : chat' = [chat EXCEPT !.state = x]
          /\ \/ desk' \in {desk, Desk!NoChat}
             \/ \E k \in Desk!Opened : desk' = [desk EXCEPT !.state = "reply", !.ticket = k]
      BY <1>1 DEF Desk!Menu, Desk!NewTicket, Desk!Subject, Desk!AnswerCancel, Desk!ReplyButton,
                  Desk!AnswerButton
    <2>4. /\ place' \in [Handlers -> Spots] /\ work' \in [Handlers -> Work]
          /\ \A u \in Handlers : work'[u].seen \in Desk!Row \cup {None}
      BY <1>0, <2>1 DEF Desk!TypeOK, Work
    <2>5. QED
      BY <1>r, <2>1, <2>2, <2>3, <2>4
  \* A handler begins.
  <1>2. ASSUME NEW t \in Handlers,
               \/ Desk!MessageText(t) \/ Desk!MessageAttachment(t) \/ Desk!ReplyText(t)
               \/ Desk!ReplyAttachment(t) \/ Desk!Answer(t)
               \/ \E k \in Desk!Ids :
                     \/ Desk!CloseButton(t, k) \/ Desk!ReopenButton(t, k)
                     \/ Desk!WebAnswer(t, k) \/ Desk!AdminClose(t, k)
                     \/ \E a \in Staff : Desk!Triage(t, k, a)
        PROVE  DeskSound'
    <2>1. PICK p \in {"downloading", "loading", "loaded"}, j \in Work :
             /\ Same /\ chat' = chat /\ desk' = desk
             /\ place' = [place EXCEPT ![t] = p] /\ work' = [work EXCEPT ![t] = j]
             /\ p = "loading" => j.kind \in Kinds /\ j.ticket \in Desk!Opened
             /\ p = "loaded" => j.kind = "create"
             /\ p = "downloading" =>
                   j.kind \in {"create", "photo"} \/ (j.kind = "answer" /\ j.ticket \in Desk!Opened)
             /\ j.kind = "triage" => j.staff \in Staff
      <3>1. CASE Desk!MessageText(t) \/ Desk!MessageAttachment(t)
        <4>1. Desk!Call("create", None) \in Work /\ Desk!Call("create", None).kind = "create"
          BY DeskCalls
        <4>2. QED
          BY <3>1, <4>1 DEF Desk!MessageText, Desk!MessageAttachment, Desk!Start, Desk!Goto, Desk!rows
      <3>2. CASE Desk!ReplyText(t)
        <4>1. chat.ticket \in Desk!Opened /\ chat.ticket \in Desk!Ids /\ "reply" \in Kinds
          BY <1>0, <3>2 DEF Desk!ReplyText, DeskSound, Kinds, Desk!FromUser
        <4>2. /\ Desk!Call("reply", chat.ticket) \in Work
              /\ Desk!Call("reply", chat.ticket).kind = "reply"
              /\ Desk!Call("reply", chat.ticket).ticket = chat.ticket
          BY <4>1, DeskCalls
        <4>3. QED
          BY <3>2, <4>1, <4>2 DEF Desk!ReplyText, Desk!Start, Desk!Goto, Desk!rows
      <3>3. CASE Desk!ReplyAttachment(t)
        <4>1. Desk!Call("photo", None) \in Work /\ Desk!Call("photo", None).kind = "photo"
          BY DeskCalls DEF Kinds, Desk!FromUser
        <4>2. QED
          BY <3>3, <4>1 DEF Desk!ReplyAttachment, Desk!Start, Desk!Goto, Desk!rows
      <3>4. CASE Desk!Answer(t)
        <4>1. desk.ticket \in Desk!Opened /\ desk.ticket \in Desk!Ids /\ "answer" \in Kinds
          BY <1>0, <3>4 DEF Desk!Answer, DeskSound, Kinds, Answers, Desk!FromStaff
        <4>2. /\ Desk!Call("answer", desk.ticket) \in Work
              /\ Desk!Call("answer", desk.ticket).kind = "answer"
              /\ Desk!Call("answer", desk.ticket).ticket = desk.ticket
          BY <4>1, DeskCalls
        <4>3. QED
          BY <3>4, <4>1, <4>2 DEF Desk!Answer, Desk!Start, Desk!Goto, Desk!rows
      <3>5. ASSUME NEW k \in Desk!Ids, NEW kind \in {"close", "reopen", "web_answer"},
                   k \in Desk!Opened, Desk!Start(t, "loading", Desk!Call(kind, k)),
                   UNCHANGED <<Desk!rows, chat, desk>>
            PROVE  \E p \in {"downloading", "loading", "loaded"}, j \in Work :
                     /\ Same /\ chat' = chat /\ desk' = desk
                     /\ place' = [place EXCEPT ![t] = p] /\ work' = [work EXCEPT ![t] = j]
                     /\ p = "loading" => j.kind \in Kinds /\ j.ticket \in Desk!Opened
                     /\ p = "loaded" => j.kind = "create"
                     /\ p = "downloading" =>
                           \/ j.kind \in {"create", "photo"}
                           \/ j.kind = "answer" /\ j.ticket \in Desk!Opened
                     /\ j.kind = "triage" => j.staff \in Staff
        <4>1. kind \in Kinds
          BY DEF Kinds, Answers, Desk!FromStaff
        <4>2. /\ Desk!Call(kind, k) \in Work /\ Desk!Call(kind, k).kind = kind
              /\ Desk!Call(kind, k).ticket = k
          BY <4>1, DeskCalls
        <4>3. QED
          BY <3>5, <4>1, <4>2 DEF Desk!Start, Desk!Goto, Desk!rows
      <3>6. ASSUME NEW k \in Desk!Ids, NEW a \in Staff, Desk!Triage(t, k, a)
            PROVE  \E p \in {"downloading", "loading", "loaded"}, j \in Work :
                     /\ Same /\ chat' = chat /\ desk' = desk
                     /\ place' = [place EXCEPT ![t] = p] /\ work' = [work EXCEPT ![t] = j]
                     /\ p = "loading" => j.kind \in Kinds /\ j.ticket \in Desk!Opened
                     /\ p = "loaded" => j.kind = "create"
                     /\ p = "downloading" =>
                           \/ j.kind \in {"create", "photo"}
                           \/ j.kind = "answer" /\ j.ticket \in Desk!Opened
                     /\ j.kind = "triage" => j.staff \in Staff
        <4> DEFINE c == [Desk!Call("triage", k) EXCEPT !.staff = a]
        <4>1. "triage" \in Kinds
          BY DEF Kinds
        <4>2. c \in Work /\ c.kind = "triage" /\ c.ticket = k /\ c.staff = a
          BY <4>1 DEF Desk!Call, Desk!NoJob, Work
        <4>3. /\ k \in Desk!Opened /\ Same /\ chat' = chat /\ desk' = desk
              /\ place' = [place EXCEPT ![t] = "loading"] /\ work' = [work EXCEPT ![t] = c]
          BY <3>6 DEF Desk!Triage, Desk!Start, Desk!Goto, Desk!rows
        <4> HIDE DEF c
        <4>4. QED
          BY <4>1, <4>2, <4>3
      <3>7. ASSUME NEW k \in Desk!Ids,
                   \/ Desk!CloseButton(t, k) \/ Desk!ReopenButton(t, k)
                   \/ Desk!WebAnswer(t, k) \/ Desk!AdminClose(t, k)
            PROVE  \E kind \in {"close", "reopen", "web_answer"} :
                      /\ k \in Desk!Opened /\ Desk!Start(t, "loading", Desk!Call(kind, k))
                      /\ UNCHANGED <<Desk!rows, chat, desk>>
        BY <3>7 DEF Desk!CloseButton, Desk!ReopenButton, Desk!WebAnswer, Desk!AdminClose
      <3>8. QED
        BY <1>2, <3>1, <3>2, <3>3, <3>4, <3>5, <3>6, <3>7
    <2>2. place'[t] = p /\ work'[t] = j /\ Desk!Opened' = Desk!Opened
      BY <1>0, <1>s, <2>1 DEF Desk!TypeOK
    <2>3. DeskCall(t)'
      BY <2>1, <2>2 DEF DeskCall
    <2>4. QED
      BY <1>f, <1>r, <2>1, <2>3
  <1>3. ASSUME NEW t \in Handlers, Desk!Downloaded(t) \/ Desk!Abandon(t)
        PROVE  DeskSound'
    <2>1. work[t] \in Work /\ DeskCall(t) /\ place[t] = "downloading"
      BY <1>0, <1>3 DEF Desk!Downloaded, Desk!Abandon
    <2>2. PICK p \in {"loaded", "loading", "idle"}, j \in Work :
             /\ Same
             /\ place' = [place EXCEPT ![t] = p] /\ work' = [work EXCEPT ![t] = j]
             /\ p = "loading" => j.kind \in Kinds /\ j.ticket \in Desk!Opened
             /\ p = "loaded" => j.kind = "create"
             /\ j.kind # "triage"
             /\ chat' \in {chat, Desk!NoChat} /\ desk' \in {desk, Desk!NoChat}
      <3>1. CASE Desk!Abandon(t)
        BY <1>n, <3>1 DEF Desk!Abandon, Desk!Finish, Desk!Goto, Desk!rows
      <3>2. CASE Desk!Downloaded(t) /\ work[t].kind = "create"
        <4>1. work' = [work EXCEPT ![t] = work[t]]
          BY <1>0, <3>2 DEF Desk!Downloaded
        <4>2. QED
          BY <2>1, <3>2, <4>1 DEF Desk!Downloaded, Desk!Goto, Desk!rows
      <3>3. CASE Desk!Downloaded(t) /\ work[t].kind = "photo" /\ chat.ticket # None
        <4>1. chat.ticket \in Desk!Opened /\ chat.ticket \in Desk!Ids
          BY <1>0, <3>3 DEF DeskSound
        <4>2. PICK j \in Work : /\ work' = [work EXCEPT ![t] = j]
                                /\ j.kind = "photo" /\ j.ticket = chat.ticket
          <5> DEFINE j == [work[t] EXCEPT !.ticket = chat.ticket]
          <5>1. j \in Work /\ j.kind = "photo" /\ j.ticket = chat.ticket
            BY <2>1, <3>3, <4>1 DEF Work
          <5>2. work' = [work EXCEPT ![t] = j]
            BY <3>3 DEF Desk!Downloaded
          <5>3. QED
            BY <5>1, <5>2
        <4>3. j.kind \in Kinds
          BY <4>2 DEF Kinds, Desk!FromUser
        <4>4. QED
          BY <3>3, <4>1, <4>2, <4>3 DEF Desk!Downloaded, Desk!Goto, Desk!rows
      <3>4. CASE Desk!Downloaded(t) /\ work[t].kind = "photo" /\ chat.ticket = None
        BY <1>n, <3>4 DEF Desk!Downloaded, Desk!Finish, Desk!Goto, Desk!rows
      <3>5. CASE Desk!Downloaded(t) /\ work[t].kind = "answer"
        <4>1. work' = [work EXCEPT ![t] = work[t]] /\ "answer" \in Kinds
          BY <1>0, <3>5 DEF Desk!Downloaded, Kinds, Answers, Desk!FromStaff
        <4>2. work[t].ticket \in Desk!Opened
          BY <2>1, <3>5 DEF DeskCall
        <4>3. QED
          BY <2>1, <3>5, <4>1, <4>2 DEF Desk!Downloaded, Desk!Goto, Desk!rows
      <3>6. QED
        BY <1>3, <3>1, <3>2, <3>3, <3>4, <3>5 DEF Desk!Downloaded
    <2>3. place'[t] = p /\ work'[t] = j /\ Desk!Opened' = Desk!Opened
      BY <1>0, <1>s, <2>2 DEF Desk!TypeOK
    <2>4. DeskCall(t)'
      BY <2>2, <2>3 DEF DeskCall
    <2>5. QED
      BY <1>f, <1>r, <2>2, <2>4
  <1>4. ASSUME NEW t \in Handlers, Desk!Load(t)
        PROVE  DeskSound'
    <2> DEFINE k == work[t].ticket
    <2> DEFINE kind == work[t].kind
    <2>1. /\ work[t] \in Work /\ place[t] = "loading" /\ kind \in Kinds
          /\ k \in Desk!Opened /\ ticket[k] \in Desk!Row
          /\ kind = "triage" => work[t].staff \in Staff
      BY <1>0, <1>4 DEF Desk!Load, DeskCall, Desk!Opened, Desk!TypeOK
    <2>2. PICK p \in {"idle", "loaded"}, j \in Work :
             /\ Same /\ chat' = chat /\ desk' \in {desk, Desk!NoChat}
             /\ place' = [place EXCEPT ![t] = p] /\ work' = [work EXCEPT ![t] = j]
             /\ p = "loaded" => /\ j.kind \in Kinds /\ j.ticket \in Desk!Opened
                                /\ j.seen \in Desk!Row /\ ~Desk!Refused(j.kind, j.seen)
             /\ j.kind = "triage" => j.staff \in Staff
      <3>1. CASE Desk!Refused(kind, ticket[k])
        BY <1>4, <1>n, <3>1 DEF Desk!Load, Desk!Finish, Desk!Goto, Desk!rows
      <3>2. CASE ~Desk!Refused(kind, ticket[k])
        <4> DEFINE j == [work[t] EXCEPT !.seen = ticket[k]]
        <4>1. /\ j \in Work /\ j.kind = kind /\ j.ticket = k /\ j.seen = ticket[k]
              /\ j.staff = work[t].staff
          BY <2>1 DEF Work
        <4>2. work' = [work EXCEPT ![t] = j]
          BY <1>4, <3>2 DEF Desk!Load
        <4> HIDE DEF j
        <4>3. /\ Same /\ chat' = chat /\ desk' = desk /\ place' = [place EXCEPT ![t] = "loaded"]
          BY <1>4, <3>2 DEF Desk!Load, Desk!Goto, Desk!rows
        <4>4. QED
          BY <2>1, <3>2, <4>1, <4>2, <4>3
      <3>3. QED
        BY <3>1, <3>2
    <2>3. place'[t] = p /\ work'[t] = j /\ Desk!Opened' = Desk!Opened
      BY <1>0, <1>s, <2>2 DEF Desk!TypeOK
    <2>4. DeskCall(t)'
      BY <2>2, <2>3 DEF DeskCall, Desk!Refused
    <2>5. QED
      BY <1>f, <1>r, <2>2, <2>4
  <1>5. ASSUME NEW t \in Handlers, Desk!Leave(t)
        PROVE  DeskSound'
    <2>1. /\ Same /\ chat' \in {chat, Desk!NoChat} /\ desk' \in {desk, Desk!NoChat}
          /\ place' = [place EXCEPT ![t] = "idle"] /\ work' = [work EXCEPT ![t] = Desk!NoJob]
      BY <1>5 DEF Desk!Leave, Desk!Finish, Desk!Goto, Desk!rows
    <2>2. DeskCall(t)'
      BY <1>0, <1>i, <1>n, <2>1 DEF Desk!TypeOK
    <2>3. QED
      BY <1>f, <1>n, <1>r, <2>1, <2>2
  <1>6. ASSUME Desk!Crash
        PROVE  DeskSound'
    <2>1. /\ Same /\ chat' = Desk!NoChat /\ desk' = Desk!NoChat
          /\ place' = [t \in Handlers |-> "idle"] /\ work' = [t \in Handlers |-> Desk!NoJob]
      BY <1>6 DEF Desk!Crash, Desk!rows
    <2>2. /\ place' \in [Handlers -> Spots] /\ work' \in [Handlers -> Work]
          /\ \A u \in Handlers : work'[u].seen \in Desk!Row \cup {None}
      BY <1>n, <2>1 DEF Work
    <2>3. \A u \in Handlers : DeskCall(u)'
      BY <1>n, <2>1 DEF DeskCall
    <2>4. QED
      BY <1>r, <2>1, <2>2, <2>3
  \* What is left to show where rows change and handler t leaves or goes on to its answer.
  <1>w. ASSUME NEW t \in Handlers, NEW j \in Work, NEW p \in {"idle", "stored"},
               ticket' \in [Desk!Ids -> Desk!Row \cup {None}],
               speaker' \in [Desk!Ids -> {"user", "admin", None}],
               Desk!Opened \subseteq Desk!Opened', \E n \in 0..MaxTickets : Desk!Opened' = 1..n,
               chat' = chat, desk' = desk,
               place' = [place EXCEPT ![t] = p], work' = [work EXCEPT ![t] = j],
               j.kind = "triage" => j.staff \in Staff
        PROVE  DeskSound'
    <2>1. place'[t] = p /\ work'[t] = j
      BY <1>0, <1>w DEF Desk!TypeOK
    <2>2. DeskCall(t)'
      BY <1>w, <2>1 DEF DeskCall
    <2>3. /\ place' \in [Handlers -> Spots] /\ work' \in [Handlers -> Work]
          /\ \A u \in Handlers : work'[u].seen \in Desk!Row \cup {None}
          /\ \A u \in Handlers : DeskCall(u)'
      BY <1>w, <2>2, DeskFrame
    <2>4. Desk!TypeOK'
      BY <1>0, <1>w, <2>3 DEF Desk!TypeOK
    <2>5. QED
      BY <1>w, <2>3, <2>4 DEF DeskSound
  <1>7. ASSUME NEW t \in Handlers, Desk!Commit(t)
        PROVE  DeskSound'
    <2> DEFINE k == work[t].ticket
    <2> DEFINE kind == work[t].kind
    <2> DEFINE new == Desk!Changed(kind, work[t].seen, work[t].staff)
    <2>1. /\ work[t] \in Work /\ place[t] = "loaded" /\ kind \in Kinds
          /\ k \in Desk!Opened /\ k \in Desk!Ids /\ ticket[k] \in Desk!Row
          /\ work[t].seen \in Desk!Row
          /\ kind = "triage" => work[t].staff \in Staff
      BY <1>0, <1>7 DEF Desk!Commit, DeskCall, Desk!Opened, Desk!TypeOK
    <2>2. Desk!Written(ticket[k], work[t].seen, new) \in Desk!Row
      BY <2>1, DeskRows
    <2>3. PICK r \in Desk!Row : ticket' = [ticket EXCEPT ![k] = r]
      BY <1>7, <2>2 DEF Desk!Commit
    <2>4. /\ ticket' \in [Desk!Ids -> Desk!Row \cup {None}]
          /\ Desk!Opened' = Desk!Opened
      BY <1>0, <2>1, <2>3 DEF Desk!TypeOK, Desk!Opened, Desk!NoneIsNothing
    <2>5. speaker' \in [Desk!Ids -> {"user", "admin", None}]
      BY <1>0, <1>7 DEF Desk!Commit, Desk!TypeOK, Desk!Speaks
    <2>6. \E j \in Work, p \in {"idle", "stored"} :
             /\ place' = [place EXCEPT ![t] = p] /\ work' = [work EXCEPT ![t] = j]
             /\ j.kind = "triage" => j.staff \in Staff
      <3>1. CASE kind \in Desk!FromUser \cup {"answer"}
        <4>1. work' = [work EXCEPT ![t] = work[t]] /\ place' = [place EXCEPT ![t] = "stored"]
          BY <1>0, <1>7, <3>1 DEF Desk!Commit, Desk!Goto
        <4>2. QED
          BY <2>1, <4>1
      <3>2. CASE kind \notin Desk!FromUser \cup {"answer"}
        BY <1>7, <1>n, <3>2 DEF Desk!Commit, Desk!Finish, Desk!Goto
      <3>3. QED
        BY <3>1, <3>2
    <2>7. chat' = chat /\ desk' = desk
      BY <1>7 DEF Desk!Commit
    <2>8. QED
      BY <1>0, <1>w, <2>4, <2>5, <2>6, <2>7
  <1>8. ASSUME NEW t \in Handlers, Desk!CreateTicket(t)
        PROVE  DeskSound'
    <2> DEFINE k == Desk!Cardinality(Desk!Opened) + 1
    <2>1. PICK n \in 0..MaxTickets : Desk!Opened = 1..n
      BY <1>0
    <2>2. k = n + 1 /\ n \in Nat
      <3>1. n \in Nat /\ n = n - 1 + 1
        BY DEF Desk!TicketBounds
      <3>2. Cardinality(1..n) = n
        BY <3>1, FS_Interval
      <3>3. Desk!Cardinality(Desk!Opened) = Cardinality(Desk!Opened)
        BY DEF Desk!Cardinality, Cardinality
      <3>4. QED
        BY <2>1, <3>1, <3>2, <3>3
    <2>3. work[t] \in Work /\ work[t].kind = "create" /\ chat' = chat /\ desk' = desk
      BY <1>0, <1>8 DEF Desk!CreateTicket
    <2>4. CASE k \in Desk!Ids
      <3>1. PICK r \in Desk!Row : ticket' = [ticket EXCEPT ![k] = r]
        <4>1. [status |-> "pending_admin", closed |-> FALSE, triage |-> None] \in Desk!Row
          BY DEF Desk!Row, Desk!Statuses
        <4>2. QED
          BY <1>8, <2>4, <4>1 DEF Desk!CreateTicket
      <3>2. /\ speaker' = [speaker EXCEPT ![k] = "user"]
            /\ place' = [place EXCEPT ![t] = "stored"] /\ work' = work
        BY <1>8, <2>4 DEF Desk!CreateTicket, Desk!Goto
      <3>3. /\ ticket' \in [Desk!Ids -> Desk!Row \cup {None}]
            /\ speaker' \in [Desk!Ids -> {"user", "admin", None}]
        BY <1>0, <3>1, <3>2 DEF Desk!TypeOK
      <3>4. Desk!Opened' = Desk!Opened \cup {k}
        <4>1. /\ ticket'[k] # None /\ \A j \in Desk!Ids \ {k} : ticket'[j] = ticket[j]
              /\ ticket' \in [Desk!Ids -> Desk!Row \cup {None}]
          BY <1>0, <2>4, <3>1, <3>3 DEF Desk!TypeOK, Desk!NoneIsNothing
        <4> HIDE DEF k
        <4>2. QED
          BY <2>4, <4>1 DEF Desk!Opened
      <3>5. n + 1 \in 0..MaxTickets /\ Desk!Opened' = 1..(n + 1)
        BY <2>1, <2>2, <2>4, <3>4 DEF Desk!Ids, Desk!TicketBounds
      <3>6. work' = [work EXCEPT ![t] = work[t]]
        BY <1>0, <3>2
      <3>7. QED
        BY <1>w, <2>3, <3>2, <3>3, <3>4, <3>5, <3>6
    <2>5. CASE k \notin Desk!Ids
      <3>1. /\ Same /\ place' = [place EXCEPT ![t] = "idle"]
            /\ work' = [work EXCEPT ![t] = Desk!NoJob]
        BY <1>8, <2>5 DEF Desk!CreateTicket, Desk!Finish, Desk!Goto, Desk!rows
      <3>2. DeskCall(t)'
        BY <1>0, <1>i, <1>n, <3>1 DEF Desk!TypeOK
      <3>3. QED
        BY <1>f, <1>n, <1>r, <2>3, <3>1, <3>2
    <2>6. QED
      BY <2>4, <2>5
  <1>9. CASE UNCHANGED Desk!vars
    <2>1. /\ Same /\ chat' = chat /\ desk' = desk /\ place' = place /\ work' = work
      BY <1>9 DEF Desk!vars
    <2>2. \A u \in Handlers : DeskCall(u)'
      BY <1>0, <1>s, <2>1 DEF DeskCall, Desk!Refused
    <2>3. /\ place' \in [Handlers -> Spots] /\ work' \in [Handlers -> Work]
          /\ \A u \in Handlers : work'[u].seen \in Desk!Row \cup {None}
      BY <1>0, <2>1 DEF Desk!TypeOK, Work
    <2>4. QED
      BY <1>r, <2>1, <2>2, <2>3
  <1>10. QED
    BY <1>1, <1>2, <1>3, <1>4, <1>5, <1>6, <1>7, <1>8, <1>9 DEF Desk!Next, Desk!Handler


LEMMA DeskInit ==
    ASSUME Desk!TicketBounds, Desk!Init
    PROVE  DeskSound
  <1>1. \A k \in Desk!Ids : ticket[k] = None
    BY DEF Desk!Init
  <1>2. Desk!Opened = 1..0 /\ 0 \in 0..MaxTickets
    BY <1>1 DEF Desk!Opened, Desk!TicketBounds
  <1>3. Desk!TypeOK
    BY DEF Desk!Init, Desk!TypeOK, Desk!NoChat, Desk!NoJob
  <1>4. Desk!NoJob \in Work /\ Desk!NoJob.kind = "none"
    BY DEF Desk!NoJob, Work
  <1>5. work \in [Handlers -> Work] /\ \A t \in Handlers : DeskCall(t)
    BY <1>4 DEF Desk!Init, DeskCall
  <1>6. QED
    BY <1>2, <1>3, <1>5 DEF DeskSound, Desk!Init, Desk!NoChat

\* Whatever happens at the support desk, in the bot's chats, the web panel and the service:
\* the chats and the calls name tickets there are, a call that is about to write read a row
\* it is allowed on, and tickets are numbered as they come.
THEOREM DeskInvariant ==
    ASSUME Desk!TicketBounds, Desk!NoneIsNothing
    PROVE  Desk!Spec => []DeskSound
  <1>1. Desk!Init => DeskSound
    BY DeskInit
  <1>2. DeskSound /\ [Desk!Next]_(Desk!vars) => DeskSound'
    BY DeskStep
  <1>3. QED
    BY <1>1, <1>2, PTL DEF Desk!Spec

\* The rows move only where a call commits; a call that is about to write then either was
\* so before, or has just read its row, or is to open a new ticket.
LEMMA DeskMoves ==
    ASSUME Desk!NoneIsNothing, DeskSound, [Desk!Next]_(Desk!vars)
    PROVE  \/ \E t \in Handlers : Desk!Commit(t)
           \/ \E t \in Handlers : Desk!CreateTicket(t)
           \/ /\ ticket' = ticket /\ speaker' = speaker
              /\ \A u \in Handlers :
                    place'[u] = "loaded" /\ work'[u].kind # "create" =>
                       \/ place[u] = "loaded" /\ work'[u] = work[u]
                       \/ work'[u].seen = ticket[work'[u].ticket]
  <1> DEFINE Holds(u) ==
         place'[u] = "loaded" /\ work'[u].kind # "create" =>
            \/ place[u] = "loaded" /\ work'[u] = work[u]
            \/ work'[u].seen = ticket[work'[u].ticket]
  <1> DEFINE Quiet == ticket' = ticket /\ speaker' = speaker /\ \A u \in Handlers : Holds(u)
  <1>0. place \in [Handlers -> {"idle", "downloading", "loading", "loaded", "stored"}]
        /\ work \in [Handlers -> Work]
    BY DEF DeskSound, Desk!TypeOK
  <1>s. ASSUME NEW t \in Handlers, NEW p, NEW j, Desk!Start(t, p, j),
               p = "loaded" => j.kind = "create", ticket' = ticket, speaker' = speaker
        PROVE  Quiet
    <2>1. place' = [place EXCEPT ![t] = p] /\ work' = [work EXCEPT ![t] = j]
      BY <1>s DEF Desk!Start, Desk!Goto
    <2>2. QED
      BY <1>0, <1>s, <2>1
  <1>1. ASSUME NEW t \in Handlers,
               \/ Desk!MessageText(t) \/ Desk!MessageAttachment(t) \/ Desk!ReplyText(t)
               \/ Desk!ReplyAttachment(t) \/ Desk!Answer(t)
        PROVE  Quiet
    <2>1. CASE Desk!MessageText(t)
      BY <1>s, <2>1 DEF Desk!MessageText, Desk!rows, Desk!Call, Desk!NoJob
    <2>2. CASE Desk!MessageAttachment(t)
      BY <1>s, <2>2 DEF Desk!MessageAttachment, Desk!rows
    <2>3. CASE Desk!ReplyText(t)
      BY <1>s, <2>3 DEF Desk!ReplyText, Desk!rows
    <2>4. CASE Desk!ReplyAttachment(t)
      BY <1>s, <2>4 DEF Desk!ReplyAttachment, Desk!rows
    <2>5. CASE Desk!Answer(t)
      BY <1>s, <2>5 DEF Desk!Answer, Desk!rows
    <2>6. QED
      BY <1>1, <2>1, <2>2, <2>3, <2>4, <2>5
  <1>2. ASSUME NEW t \in Handlers, NEW k \in Desk!Ids,
               \/ Desk!CloseButton(t, k) \/ Desk!ReopenButton(t, k)
               \/ Desk!WebAnswer(t, k) \/ Desk!AdminClose(t, k)
               \/ \E a \in Staff : Desk!Triage(t, k, a)
        PROVE  Quiet
    <2>1. \E j : Desk!Start(t, "loading", j) /\ ticket' = ticket /\ speaker' = speaker
      BY <1>2 DEF Desk!CloseButton, Desk!ReopenButton, Desk!WebAnswer, Desk!AdminClose,
                  Desk!Triage, Desk!rows
    <2>2. QED
      BY <1>s, <2>1
  <1>3. ASSUME NEW t \in Handlers, Desk!Downloaded(t)
        PROVE  Quiet
    <2>1. ticket' = ticket /\ speaker' = speaker /\ place[t] = "downloading"
      BY <1>3 DEF Desk!Downloaded, Desk!rows
    <2>2. /\ \A u \in Handlers \ {t} : place'[u] = place[u] /\ work'[u] = work[u]
          /\ place'[t] = "loaded" => work'[t].kind = "create"
      BY <1>0, <1>3 DEF Desk!Downloaded, Desk!Goto, Desk!Finish
    <2>3. QED
      BY <2>1, <2>2
  <1>4. ASSUME NEW t \in Handlers, Desk!Abandon(t) \/ Desk!Leave(t)
        PROVE  Quiet
    <2>1. /\ ticket' = ticket /\ speaker' = speaker
          /\ place' = [place EXCEPT ![t] = "idle"] /\ work' = [work EXCEPT ![t] = Desk!NoJob]
      BY <1>4 DEF Desk!Abandon, Desk!Leave, Desk!Finish, Desk!Goto, Desk!rows
    <2>2. QED
      BY <1>0, <2>1
  <1>5. ASSUME NEW t \in Handlers, Desk!Load(t)
        PROVE  Quiet
    <2>1. ticket' = ticket /\ speaker' = speaker
      BY <1>5 DEF Desk!Load, Desk!rows
    <2>2. /\ \A u \in Handlers \ {t} : place'[u] = place[u] /\ work'[u] = work[u]
          /\ place'[t] = "loaded" => work'[t].seen = ticket[work'[t].ticket]
      BY <1>0, <1>5 DEF Desk!Load, Desk!Goto, Desk!Finish, Work
    <2>3. QED
      BY <2>1, <2>2
  <1>6. CASE Desk!Crash
    BY <1>6 DEF Desk!Crash, Desk!rows
  <1>7. CASE \/ Desk!Menu \/ Desk!NewTicket \/ Desk!Subject \/ Desk!AnswerCancel
             \/ \E k \in Desk!Ids : Desk!ReplyButton(k) \/ Desk!AnswerButton(k)
             \/ UNCHANGED Desk!vars
    <2>1. ticket' = ticket /\ speaker' = speaker /\ place' = place /\ work' = work
      BY <1>7 DEF Desk!Menu, Desk!NewTicket, Desk!Subject, Desk!AnswerCancel, Desk!ReplyButton,
                  Desk!AnswerButton, Desk!vars, Desk!rows
    <2>2. QED
      BY <2>1
  <1>8. QED
    BY <1>1, <1>2, <1>3, <1>4, <1>5, <1>6, <1>7 DEF Desk!Next, Desk!Handler

\* What a commit writes, to a row that is still or no longer what the call read.
LEMMA DeskWrites ==
    ASSUME NEW kind \in Kinds, NEW seen \in Desk!Row, NEW now \in Desk!Row, NEW a
    PROVE  LET new == Desk!Written(now, seen, Desk!Changed(kind, seen, a)) IN
           /\ new.status \in {now.status, Desk!Changed(kind, seen, a).status}
           /\ new.status # now.status => Desk!Changed(kind, seen, a).status # seen.status
           /\ now = seen => new.status = Desk!Changed(kind, seen, a).status
                            /\ new.closed = Desk!Changed(kind, seen, a).closed
  BY DEF Desk!Written, Desk!Row, Desk!Changed

\* A closed ticket wakes up only by its owner's reopening, where that is allowed, or by a
\* reply that was under way when it was closed: Tickets' WakesOnlyInFlight, for every desk.
THEOREM ClosedStaysClosed ==
    ASSUME Desk!TicketBounds, Desk!NoneIsNothing
    PROVE  Desk!Spec => Desk!WakesOnlyInFlight
  <1> DEFINE Wakes(k) == ticket[k].status = "closed" /\ ticket'[k].status # "closed"
  <1> DEFINE InFlight(t, k) ==
         /\ place[t] = "loaded" /\ work[t].ticket = k
         /\ \/ work[t].kind = "reopen" /\ Reopening
            \/ work[t].kind \in Desk!FromUser \cup Answers /\ work[t].seen.status # "closed"
  <1>1. ASSUME DeskSound, [Desk!Next]_(Desk!vars), NEW k \in Desk!Opened, Wakes(k)
        PROVE  \E t \in Handlers : InFlight(t, k)
    <2>1. /\ k \in Desk!Ids /\ ticket[k] \in Desk!Row
          /\ ticket \in [Desk!Ids -> Desk!Row \cup {None}]
      BY <1>1 DEF Desk!Opened, DeskSound, Desk!TypeOK
    <2>2. ASSUME NEW t \in Handlers, Desk!Commit(t)
          PROVE  InFlight(t, k)
      <3> DEFINE j == work[t]
      <3>1. /\ place[t] = "loaded" /\ j.kind \in Kinds /\ j.seen \in Desk!Row
            /\ j.ticket \in Desk!Opened /\ ~Desk!Refused(j.kind, j.seen)
        BY <1>1, <2>2 DEF Desk!Commit, DeskSound, DeskCall
      <3>2. ticket' = [ticket EXCEPT ![j.ticket] =
                          Desk!Written(@, j.seen, Desk!Changed(j.kind, j.seen, j.staff))]
        BY <2>2 DEF Desk!Commit
      <3>3. j.ticket = k
        BY <1>1, <2>1, <3>2
      <3>4. ticket'[k] = Desk!Written(ticket[k], j.seen, Desk!Changed(j.kind, j.seen, j.staff))
        BY <2>1, <3>2, <3>3
      <3>5. /\ Desk!Changed(j.kind, j.seen, j.staff).status # "closed"
            /\ Desk!Changed(j.kind, j.seen, j.staff).status # j.seen.status
        BY <1>1, <2>1, <3>1, <3>4, DeskWrites
      <3>6. j.kind \in {"reply", "photo", "answer", "web_answer", "reopen"}
        BY <3>1, <3>5 DEF Desk!Changed, Desk!Row, Kinds, Answers, Desk!FromUser, Desk!FromStaff
      <3>7. CASE j.kind = "reopen"
        BY <3>1, <3>3, <3>7 DEF Desk!Refused
      <3>8. CASE j.kind \in {"reply", "photo"}
        BY <3>1, <3>3, <3>8 DEF Desk!Refused, Desk!FromUser
      <3>9. CASE j.kind \in {"answer", "web_answer"}
        BY <3>1, <3>3, <3>5, <3>9 DEF Desk!Changed, Desk!Row, Answers, Desk!FromUser, Desk!FromStaff
      <3>10. QED
        BY <3>6, <3>7, <3>8, <3>9
    <2>3. ASSUME NEW t \in Handlers, Desk!CreateTicket(t)
          PROVE  FALSE
      <3>1. PICK n \in 0..MaxTickets : Desk!Opened = 1..n
        BY <1>1 DEF DeskSound
      <3>2. n \in Int /\ Cardinality(1..n) = n
        BY FS_Interval, 0 \in Int DEF Desk!TicketBounds
      <3>3. Desk!Cardinality(Desk!Opened) = Cardinality(Desk!Opened)
        BY DEF Desk!Cardinality, Cardinality
      <3>4. Desk!Cardinality(Desk!Opened) + 1 # k
        BY <3>1, <3>2, <3>3
      <3>5. ticket'[k] = ticket[k]
        BY <2>1, <2>3, <3>4 DEF Desk!CreateTicket, Desk!rows
      <3>6. QED
        BY <1>1, <3>5
    <2>4. QED
      BY <1>1, <2>2, <2>3, DeskMoves
  <1>2. DeskSound /\ [Desk!Next]_(Desk!vars)
           => [\A k \in Desk!Opened :
                  ticket[k].status = "closed" /\ ticket'[k].status # "closed" =>
                     \E t \in Handlers :
                        /\ place[t] = "loaded" /\ work[t].ticket = k
                        /\ \/ work[t].kind = "reopen" /\ Reopening
                           \/ work[t].kind \in Desk!FromUser \cup Desk!FromStaff
                              /\ work[t].seen.status # "closed"]_(Desk!vars)
    BY <1>1 DEF Answers
  <1>3. QED
    BY <1>2, DeskInvariant, PTL DEF Desk!Spec, Desk!WakesOnlyInFlight

\* As long as no two calls meet on a ticket, a call that is about to write read the row as
\* it is.
DeskFresh ==
    ~met =>
      /\ ~Desk!OnOneTicket
      /\ \A t \in Handlers : place[t] = "loaded" /\ work[t].kind # "create"
                                => work[t].seen = ticket[work[t].ticket]

BallSound(k) ==
    /\ ticket[k].closed <=> ticket[k].status = "closed"
    /\ ticket[k].status = "pending_user" => speaker[k] = "admin"
    /\ speaker[k] = "user" => ticket[k].status \in {"pending_admin", "closed"}

\* What a commit leaves on a row that is what the call read.
LEMMA DeskTurns ==
    ASSUME NEW kind \in Kinds, NEW seen \in Desk!Row, NEW new \in Desk!Row, NEW a,
           NEW before, NEW after,
           ~Desk!Refused(kind, seen),
           new.status = Desk!Changed(kind, seen, a).status,
           new.closed = Desk!Changed(kind, seen, a).closed,
           after = Desk!Speaks(kind, before),
           seen.closed <=> seen.status = "closed",
           seen.status = "pending_user" => before = "admin",
           before = "user" => seen.status \in {"pending_admin", "closed"}
    PROVE  /\ new.closed <=> new.status = "closed"
           /\ new.status = "pending_user" => after = "admin"
           /\ after = "user" => new.status \in {"pending_admin", "closed"}
  <1>0. seen.closed \in BOOLEAN /\ new.closed \in BOOLEAN
        /\ seen.status \in {"pending_admin", "pending_user", "closed"}
    BY DEF Desk!Row, Desk!Statuses
  <1>1. CASE kind \in {"reply", "photo"}
    BY <1>0, <1>1 DEF Desk!Row, Desk!Changed, Desk!Speaks, Desk!Refused, Desk!FromUser
  <1>2. CASE kind \in {"answer", "web_answer"}
    BY <1>0, <1>2 DEF Desk!Row, Desk!Changed, Desk!Speaks, Desk!FromUser, Desk!FromStaff
  <1>3. CASE kind \in {"close", "reopen", "triage"}
    BY <1>0, <1>3 DEF Desk!Row, Desk!Changed, Desk!Speaks, Desk!Refused, Desk!FromUser, Desk!FromStaff
  <1>4. QED
    BY <1>1, <1>2, <1>3 DEF Kinds, Answers, Desk!FromUser, Desk!FromStaff

LEMMA DeskAgrees ==
    ASSUME Desk!TicketBounds, Desk!NoneIsNothing, DeskSound, DeskFresh, Desk!BallSide,
           [Desk!SerialNext]_<<Desk!vars, met>>
    PROVE  DeskFresh' /\ Desk!BallSide'
  <1>1. CASE UNCHANGED <<Desk!vars, met>>
    BY <1>1 DEF DeskFresh, Desk!BallSide, Desk!OnOneTicket, Desk!Opened, Desk!vars
  <1>2. CASE Desk!SerialNext
    <2> SUFFICES ASSUME ~met'
                 PROVE  /\ \A t \in Handlers : place'[t] = "loaded" /\ work'[t].kind # "create"
                                                  => work'[t].seen = ticket'[work'[t].ticket]
                        /\ \A k \in Desk!Opened' : BallSound(k)'
      BY <1>2 DEF Desk!SerialNext, DeskFresh, Desk!BallSide, BallSound
    <2>0. /\ ~met /\ ~Desk!OnOneTicket /\ [Desk!Next]_(Desk!vars)
          /\ \A k \in Desk!Opened : BallSound(k)
          /\ \A t \in Handlers : place[t] = "loaded" /\ work[t].kind # "create"
                                    => work[t].seen = ticket[work[t].ticket]
      BY <1>2 DEF Desk!SerialNext, DeskFresh, Desk!BallSide, BallSound
    <2>1. /\ ticket \in [Desk!Ids -> Desk!Row \cup {None}]
          /\ speaker \in [Desk!Ids -> {"user", "admin", None}]
          /\ place \in [Handlers -> {"idle", "downloading", "loading", "loaded", "stored"}]
          /\ work \in [Handlers -> Work]
          /\ \A t \in Handlers : DeskCall(t)
          /\ \A k \in Desk!Opened : k \in Desk!Ids /\ ticket[k] \in Desk!Row
      BY DEF DeskSound, Desk!TypeOK, Desk!Opened
    <2>2. ASSUME NEW t \in Handlers, Desk!Commit(t)
          PROVE  /\ \A u \in Handlers : place'[u] = "loaded" /\ work'[u].kind # "create"
                                           => work'[u].seen = ticket'[work'[u].ticket]
                 /\ \A k \in Desk!Opened' : BallSound(k)'
      <3> DEFINE j == work[t]
      <3>k. PICK k : k = j.ticket
        OBVIOUS
      <3> DEFINE new == Desk!Written(ticket[k], j.seen, Desk!Changed(j.kind, j.seen, j.staff))
      <3>1. /\ place[t] = "loaded" /\ j.kind \in Kinds /\ j.kind # "create"
            /\ j.seen \in Desk!Row /\ j.seen = ticket[k] /\ k \in Desk!Opened /\ k \in Desk!Ids
            /\ ~Desk!Refused(j.kind, j.seen) /\ (j.kind = "triage" => j.staff \in Staff)
        BY <2>0, <2>1, <2>2, <3>k DEF Desk!Commit, DeskCall
      <3>2. /\ ticket' = [ticket EXCEPT ![k] = new]
            /\ speaker' = [speaker EXCEPT ![k] = Desk!Speaks(j.kind, @)]
        BY <2>2, <3>k DEF Desk!Commit
      <3>3. new \in Desk!Row /\ new # None
        BY <3>1, DeskRows DEF Desk!NoneIsNothing
      <3>4. /\ new.status = Desk!Changed(j.kind, j.seen, j.staff).status
            /\ new.closed = Desk!Changed(j.kind, j.seen, j.staff).closed
        BY <3>1, DeskWrites
      <3> HIDE DEF new
      <3>5. /\ ticket'[k] = new /\ speaker'[k] = Desk!Speaks(j.kind, speaker[k])
            /\ \A i \in Desk!Ids \ {k} : ticket'[i] = ticket[i] /\ speaker'[i] = speaker[i]
        BY <2>1, <3>1, <3>2
      <3>6. Desk!Opened' = Desk!Opened
        BY <3>1, <3>3, <3>5 DEF Desk!Opened
      <3>7. BallSound(k)'
        <4>1. BallSound(k)
          BY <2>0, <3>1
        <4>2. /\ j.seen.closed <=> j.seen.status = "closed"
              /\ j.seen.status = "pending_user" => speaker[k] = "admin"
              /\ speaker[k] = "user" => j.seen.status \in {"pending_admin", "closed"}
          BY <3>1, <4>1 DEF BallSound
        <4>3. \A a, b :
                 (/\ b = Desk!Speaks(j.kind, a)
                  /\ j.seen.status = "pending_user" => a = "admin"
                  /\ a = "user" => j.seen.status \in {"pending_admin", "closed"})
                 => /\ new.closed <=> new.status = "closed"
                    /\ new.status = "pending_user" => b = "admin"
                    /\ b = "user" => new.status \in {"pending_admin", "closed"}
          BY <3>1, <3>3, <3>4, <4>2, DeskTurns
        <4>4. /\ new.closed <=> new.status = "closed"
              /\ new.status = "pending_user" => speaker'[k] = "admin"
              /\ speaker'[k] = "user" => new.status \in {"pending_admin", "closed"}
          BY <3>5, <4>2, <4>3
        <4>5. QED
          BY <3>5, <4>4 DEF BallSound
      <3>8. ASSUME NEW i \in Desk!Opened', i # k
            PROVE  BallSound(i)'
        BY <2>0, <2>1, <3>5, <3>6, <3>8 DEF BallSound
      <3>9. ASSUME NEW u \in Handlers, place'[u] = "loaded", work'[u].kind # "create"
            PROVE  work'[u].seen = ticket'[work'[u].ticket]
        <4>1. u # t
          BY <2>1, <2>2, <3>9 DEF Desk!Commit, Desk!Finish, Desk!Goto
        <4>2. place[u] = "loaded" /\ work'[u] = work[u]
          BY <2>1, <2>2, <3>9, <4>1 DEF Desk!Commit, Desk!Finish, Desk!Goto
        <4>3. work[u].ticket \in Desk!Ids /\ work[u].seen = ticket[work[u].ticket]
          BY <2>0, <2>1, <3>9, <4>2 DEF DeskCall
        <4>4. work[u].ticket # k
          BY <2>0, <3>1, <3>k, <4>1, <4>2, <4>3 DEF Desk!OnOneTicket, Desk!NoneIsNothing
        <4>5. QED
          BY <3>5, <4>2, <4>3, <4>4
      <3>10. QED
        BY <3>7, <3>8, <3>9
    <2>3. ASSUME NEW t \in Handlers, Desk!CreateTicket(t)
          PROVE  /\ \A u \in Handlers : place'[u] = "loaded" /\ work'[u].kind # "create"
                                           => work'[u].seen = ticket'[work'[u].ticket]
                 /\ \A k \in Desk!Opened' : BallSound(k)'
      <3> DEFINE n == Desk!Cardinality(Desk!Opened) + 1
      <3>1. n \notin Desk!Opened
        <4>1. PICK m \in 0..MaxTickets : Desk!Opened = 1..m
          BY DEF DeskSound
        <4>2. m \in Int /\ Cardinality(1..m) = m
          BY FS_Interval, 0 \in Int DEF Desk!TicketBounds
        <4>3. Desk!Cardinality(Desk!Opened) = Cardinality(Desk!Opened)
          BY DEF Desk!Cardinality, Cardinality
        <4>4. QED
          BY <4>1, <4>2, <4>3
      <3>2. \A u \in Handlers : place'[u] = "loaded" /\ work'[u].kind # "create"
                => place[u] = "loaded" /\ work'[u] = work[u] /\ work[u].ticket \in Desk!Opened
        BY <2>1, <2>3 DEF Desk!CreateTicket, Desk!Goto, Desk!Finish, DeskCall
      <3>3. /\ \A i \in Desk!Opened : ticket'[i] = ticket[i] /\ speaker'[i] = speaker[i]
            /\ \A i \in Desk!Opened' : i \in Desk!Opened \/
                  /\ i \in Desk!Ids /\ i \notin Desk!Opened
                  /\ ticket'[i].status = "pending_admin" /\ ticket'[i].closed = FALSE
                  /\ speaker'[i] = "user"
        <4>1. CASE n \in Desk!Ids
          <5>1. /\ ticket' = [ticket EXCEPT ![n] = [status |-> "pending_admin", closed |-> FALSE,
                                                    triage |-> None]]
                /\ speaker' = [speaker EXCEPT ![n] = "user"]
            BY <2>3, <4>1 DEF Desk!CreateTicket
          <5> HIDE DEF n
          <5>2. QED
            BY <2>1, <3>1, <4>1, <5>1 DEF Desk!Opened
        <4>2. CASE n \notin Desk!Ids
          BY <2>3, <4>2 DEF Desk!CreateTicket, Desk!rows, Desk!Opened
        <4>3. QED
          BY <4>1, <4>2
      <3>4. QED
        BY <2>0, <3>2, <3>3 DEF BallSound
    <2>4. ASSUME ticket' = ticket, speaker' = speaker,
                 \A u \in Handlers :
                    place'[u] = "loaded" /\ work'[u].kind # "create" =>
                       \/ place[u] = "loaded" /\ work'[u] = work[u]
                       \/ work'[u].seen = ticket[work'[u].ticket]
          PROVE  /\ \A u \in Handlers : place'[u] = "loaded" /\ work'[u].kind # "create"
                                           => work'[u].seen = ticket'[work'[u].ticket]
                 /\ \A k \in Desk!Opened' : BallSound(k)'
      BY <2>0, <2>4 DEF BallSound, Desk!Opened
    <2>5. QED
      BY <2>0, <2>2, <2>3, <2>4, DeskMoves
  <1>3. QED
    BY <1>1, <1>2

\* As long as no two calls meet on a ticket, its status says who spoke last and its closing
\* time whether it is closed: SerialTickets' BallSide, for every desk.
THEOREM BallSideAgrees ==
    ASSUME Desk!TicketBounds, Desk!NoneIsNothing
    PROVE  Desk!SerialSpec => []Desk!BallSide
  <1> DEFINE Inv == DeskSound /\ DeskFresh /\ Desk!BallSide
  <1>1. Desk!SerialInit => Inv
    <2> SUFFICES ASSUME Desk!SerialInit PROVE DeskFresh /\ Desk!BallSide
      BY DeskInit DEF Desk!SerialInit
    <2>1. \A k \in Desk!Ids : ticket[k] = None
      BY DEF Desk!SerialInit, Desk!Init
    <2>2. \A t \in Handlers : place[t] = "idle"
      BY DEF Desk!SerialInit, Desk!Init
    <2>3. QED
      BY <2>1, <2>2 DEF DeskFresh, Desk!BallSide, Desk!Opened, Desk!OnOneTicket
  <1>2. Inv /\ [Desk!SerialNext]_<<Desk!vars, met>> => Inv'
    <2> SUFFICES ASSUME Inv, [Desk!SerialNext]_<<Desk!vars, met>> PROVE Inv'
      OBVIOUS
    <2>1. [Desk!Next]_(Desk!vars)
      BY DEF Desk!SerialNext
    <2>2. QED
      BY <2>1, DeskStep, DeskAgrees
  <1>3. QED
    BY <1>1, <1>2, PTL DEF Desk!SerialSpec
=============================================================================
