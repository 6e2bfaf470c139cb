------------------------------ MODULE Backups ------------------------------
(***************************************************************************)
(* Backups and restore: app/services/backup_service.py and                 *)
(* restore_service.py, driven by the maintenance pages of the panel        *)
(* (app/web/views.py) and by the hourly sweep of app/worker/main.py.       *)
(*                                                                         *)
(* Rows of backup_jobs and files under storage/backups are written in      *)
(* separate steps by two processes, so each handler is cut at its commits  *)
(* and at the file operations it leaves the event loop for.  An archive is *)
(* what was written into it: the jobs that opened or closed it, in order,  *)
(* and the uploaded files it holds; its checksum is that content.          *)
(* A tick of the clock is the next second, or any longer time.             *)
(***************************************************************************)
EXTENDS Integers, FiniteSets, Sequences

CONSTANTS
    Admins,      \* administrators' requests to the panel
    Scheduler,   \* the worker's maintenance sweep
    Uploads,     \* files users store under storage/
    Types,       \* the kinds of backup asked for
    KeepLast,    \* setting backup_keep_last
    MaxJobs, MaxClock, MaxDeletes, MaxCrashes,
    None

ASSUME BoundsAreNumbers ==
    MaxJobs \in Nat /\ MaxClock \in Nat /\ MaxDeletes \in Nat /\ MaxCrashes \in Nat /\ KeepLast \in Int
ASSUME TypesAreKnown    == Types \subseteq {"database", "storage", "full"}
ASSUME SchedulerIsApart == Scheduler \notin Admins

Ids   == 1..MaxJobs
Tasks == Admins \cup {Scheduler}

BACKUP_TYPES    == {"database", "storage", "full"}
BACKUP_STATUSES == {"pending", "running", "completed", "failed", "deleted"}

\* A file name: the kind of backup and the second it was begun in.
Names    == BACKUP_TYPES \X (0..MaxClock)
Contents == [log : Seq(Ids), saved : SUBSET Uploads]
Rows     == [kind : BACKUP_TYPES, status : BACKUP_STATUSES, by : Admins \cup {None},
             at : 0..MaxClock, file : Names \cup {None}, sum : Contents \cup {None}]

ASSUME NoneIsNothing ==
    /\ None \notin Ids /\ None \notin Admins
    /\ None \notin Names /\ None \notin Contents /\ None \notin Rows

VARIABLES
    job,          \* table backup_jobs
    disk,         \* what each name under storage/backups holds
    files,        \* what lies under the other directories of storage/
    maintenance,  \* setting maintenance_mode
    clock,
    pc, task,     \* where each request or sweep is, and what it holds
    dest,         \* the path each job's producer writes to
    byHand,       \* jobs an administrator deleted
    crashes

vars == <<job, disk, files, maintenance, clock, pc, task, dest, byHand, crashes>>

NoTask == [id |-> None, target |-> None, doomed |-> {}, gone |-> FALSE, had |-> {}]
\* id: the job at hand; target: the one to restore; doomed: those being pruned; gone: was
\* the row read deleted?; had (history): what was stored at the confirmation, and still is.

TypeOK ==
    /\ job \in [Ids -> Rows \cup {None}]
    /\ disk \in [Names -> Contents \cup {None}]
    /\ files \in SUBSET Uploads
    /\ maintenance \in BOOLEAN
    /\ clock \in 0..MaxClock
    /\ pc \in [Tasks -> {"idle", "created", "running", "writing", "written", "unlinked",
                         "sweeping", "swept", "cleaned",
                         "planned", "confirmed", "saved", "guarded"}]
    /\ task \in [Tasks -> [id : Ids \cup {None}, target : Ids \cup {None},
                           doomed : SUBSET Ids, gone : BOOLEAN, had : SUBSET Uploads]]
    /\ dest \in [Ids -> Names \cup {None}]
    /\ byHand \in SUBSET Ids
    /\ crashes \in 0..MaxCrashes

Init ==
    /\ job = [j \in Ids |-> None]
    /\ disk = [n \in Names |-> None]
    /\ files = {}
    /\ maintenance = FALSE
    /\ clock = 0
    /\ pc = [t \in Tasks |-> "idle"]
    /\ task = [t \in Tasks |-> NoTask]
    /\ dest = [j \in Ids |-> None]
    /\ byHand = {}
    /\ crashes = 0

Created      == {j \in Ids : job[j] # None}
Completed    == {j \in Created : job[j].status = "completed"}
OnDisk(j)    == job[j].file # None /\ disk[job[j].file] # None
\* What verify_backup answers ok to.
Verified(j)  == OnDisk(j) /\ job[j].status # "deleted" /\ disk[job[j].file] = job[j].sum

Goto(t, label) == pc' = [pc EXCEPT ![t] = label]
Return(t)      == Goto(t, "idle") /\ task' = [task EXCEPT ![t] = NoTask]

-----------------------------------------------------------------------------
(* A backup: create_backup_job, then run_backup_job and its producer.      *)

\* The next row, committed as pending.
create_backup_job(t, kind) ==
    LET j == Cardinality(Created) + 1
    IN  /\ j \in Ids
        /\ job' = [job EXCEPT ![j] =
                     [kind |-> kind, status |-> "pending", at |-> clock,
                      by |-> IF t = Scheduler THEN None ELSE t, file |-> None, sum |-> None]]
        /\ task' = [task EXCEPT ![t].id = j]
        /\ Goto(t, "created")

RequestBackup(a, kind) ==
    /\ pc[a] = "idle"
    /\ create_backup_job(a, kind)
    /\ UNCHANGED <<disk, files, maintenance, clock, dest, byHand, crashes>>

\* The row is committed as running, whatever it became meanwhile, and the producer names
\* its file after the current second.
StartJob(t) ==
    LET j == task[t].id
    IN  /\ pc[t] = "created"
        /\ job' = [job EXCEPT ![j].status = "running"]
        /\ dest' = [dest EXCEPT ![j] = <<job[j].kind, clock>>]
        /\ Goto(t, "running")
        /\ UNCHANGED <<disk, files, maintenance, clock, task, byHand, crashes>>

\* Opening for writing truncates a file of that name.  An archive holds at least what
\* was stored before it was opened.
OpenFile(t) ==
    LET j == task[t].id
    IN  /\ pc[t] = "running"
        /\ disk' = [disk EXCEPT ![dest[j]] =
                      [log |-> <<j>>, saved |-> IF job[j].kind = "database" THEN {} ELSE files]]
        /\ Goto(t, "writing")
        /\ UNCHANGED <<job, files, maintenance, clock, task, dest, byHand, crashes>>

\* An archive two jobs wrote into is no archive; one unlinked under its writer is gone.
\* Files stored or lost while it was written are in it or not.
CloseFile(t) ==
    LET j == task[t].id  n == dest[task[t].id]
    IN  /\ pc[t] = "writing"
        /\ \/ disk[n] = None /\ disk' = disk
           \/ /\ disk[n] # None
              /\ \E held \in SUBSET (disk[n].saved \cup files) :
                    /\ disk[n].saved \cap files \subseteq held
                    /\ disk' = [disk EXCEPT ![n] =
                         [log   |-> Append(disk[n].log, j),
                          saved |-> IF disk[n].log = <<j>> /\ job[j].kind # "database"
                                    THEN held ELSE {}]]
        /\ Goto(t, "written")
        /\ UNCHANGED <<job, files, maintenance, clock, task, dest, byHand, crashes>>

\* _finalize, and the commit of the completed row: it also revives a row deleted while
\* its job ran.
CompleteJob(t) ==
    LET j == task[t].id
    IN  /\ pc[t] = "written"
        /\ disk[dest[j]] # None
        /\ job' = [job EXCEPT ![j].status = "completed", ![j].file = dest[j],
                              ![j].sum = disk[dest[j]]]
        /\ IF task[t].target = None THEN Return(t) ELSE Goto(t, "saved") /\ task' = task
        /\ UNCHANGED <<disk, files, maintenance, clock, dest, byHand, crashes>>

\* Mutant: a failed pre-restore backup does not abort the restore.
FailJobIgnored(t) ==
    LET j == task[t].id
    IN  /\ pc[t] \in {"running", "writing", "written"}
        /\ disk' = [disk EXCEPT ![dest[j]] = None]
        /\ job' = [job EXCEPT ![j].status = "failed"]
        /\ IF task[t].target = None THEN Return(t) ELSE Goto(t, "saved") /\ task' = task
        /\ UNCHANGED <<files, maintenance, clock, dest, byHand, crashes>>

\* The producer unlinks its own path, whoever wrote it, and the row is committed as
\* failed; a restore waiting for this backup is aborted.
FailJob(t) ==
    LET j == task[t].id
    IN  /\ pc[t] \in {"running", "writing", "written"}
        /\ disk' = [disk EXCEPT ![dest[j]] = None]
        /\ job' = [job EXCEPT ![j].status = "failed"]
        /\ Return(t)
        /\ UNCHANGED <<files, maintenance, clock, dest, byHand, crashes>>

-----------------------------------------------------------------------------
(* Deleting one, and the worker's sweep.                                   *)

\* delete_backup: the file goes first ...
DeleteFile(a, j) ==
    /\ pc[a] = "idle" /\ j \in Created
    /\ Cardinality(byHand \cup {j}) <= MaxDeletes
    /\ disk' = IF job[j].file = None THEN disk ELSE [disk EXCEPT ![job[j].file] = None]
    /\ task' = [task EXCEPT ![a].id = j, ![a].gone = (job[j].status = "deleted")]
    /\ byHand' = byHand \cup {j}
    /\ Goto(a, "unlinked")
    /\ UNCHANGED <<job, files, maintenance, clock, dest, crashes>>

\* ... then the row, which is not written when the copy read was deleted already.
DeleteRow(a) ==
    /\ pc[a] = "unlinked"
    /\ job' = IF task[a].gone THEN job ELSE [job EXCEPT ![task[a].id].status = "deleted"]
    /\ Return(a)
    /\ UNCHANGED <<disk, files, maintenance, clock, dest, byHand, crashes>>

\* Mutant: the setting is used as it is.
KeptAsSet == KeepLast

\* max(keep_last, 1): a setting of zero keeps one.
Kept == IF KeepLast < 1 THEN 1 ELSE KeepLast

\* The completed rows beyond the newest Kept that are older than the retention time.
Prunable(before) ==
    {j \in Completed : /\ Cardinality({k \in Completed : k > j}) >= Kept
                       /\ job[j].at < before}

\* cleanup_old_backups reads the completed rows ...
Sweep ==
    /\ pc[Scheduler] = "idle"
    /\ \E before \in 0..clock + 1 :
          task' = [task EXCEPT ![Scheduler].doomed = Prunable(before)]
    /\ Goto(Scheduler, "sweeping")
    /\ UNCHANGED <<job, disk, files, maintenance, clock, dest, byHand, crashes>>

\* ... unlinks the files of those it prunes ...
SweepFiles ==
    /\ pc[Scheduler] = "sweeping"
    /\ disk' = [n \in Names |->
                  IF \E j \in task[Scheduler].doomed : job[j].file = n THEN None ELSE disk[n]]
    /\ Goto(Scheduler, "swept")
    /\ UNCHANGED <<job, files, maintenance, clock, task, dest, byHand, crashes>>

\* ... and commits their rows.
SweepRows ==
    /\ pc[Scheduler] = "swept"
    /\ job' = [j \in Ids |-> IF j \in task[Scheduler].doomed
                             THEN [job[j] EXCEPT !.status = "deleted"] ELSE job[j]]
    /\ task' = [task EXCEPT ![Scheduler] = NoTask]
    /\ Goto(Scheduler, "cleaned")
    /\ UNCHANGED <<disk, files, maintenance, clock, dest, byHand, crashes>>

\* The hour has come, and no unattended backup was completed since the day began.
ScheduledBackup(kind) ==
    /\ pc[Scheduler] = "cleaned"
    /\ \E day \in 0..clock :
          \A j \in Completed : job[j].by = None => job[j].at < day
    /\ create_backup_job(Scheduler, kind)
    /\ UNCHANGED <<disk, files, maintenance, clock, dest, byHand, crashes>>

SweepEnds ==
    /\ pc[Scheduler] = "cleaned"
    /\ Return(Scheduler)
    /\ UNCHANGED <<job, disk, files, maintenance, clock, dest, byHand, crashes>>

-----------------------------------------------------------------------------
(* Restore.                                                                *)

\* The plan of a backup that is there carries the confirmation token.
create_restore_plan(a, j) ==
    /\ pc[a] = "idle" /\ j \in Created
    /\ job[j].status # "deleted" /\ OnDisk(j)
    /\ task' = [task EXCEPT ![a].target = j]
    /\ Goto(a, "planned")
    /\ UNCHANGED <<job, disk, files, maintenance, clock, dest, byHand, crashes>>

\* The phrase was typed and the token is this administrator's and young enough; the audit
\* entries are committed before anything is verified.
ConfirmRestore(a) ==
    /\ pc[a] = "planned"
    /\ job[task[a].target].status # "deleted"
    /\ task' = [task EXCEPT ![a].had = files]
    /\ Goto(a, "confirmed")
    /\ UNCHANGED <<job, disk, files, maintenance, clock, dest, byHand, crashes>>

\* A page left, a token expired, a backup deleted meanwhile, or a file that no longer
\* matches: the restore ends with nothing written.
RefuseRestore(a) ==
    /\ pc[a] \in {"planned", "confirmed"}
    /\ Return(a)
    /\ UNCHANGED <<job, disk, files, maintenance, clock, dest, byHand, crashes>>

\* _preflight: the file still has its checksum; the pre-restore backup comes first.
Preflight(a) ==
    LET j == task[a].target
    IN  /\ pc[a] = "confirmed"
        /\ OnDisk(j) /\ disk[job[j].file] = job[j].sum
        /\ create_backup_job(a, "full")
        /\ UNCHANGED <<disk, files, maintenance, clock, dest, byHand, crashes>>

\* Then maintenance mode; if that cannot be committed, the rollback expires the rows the
\* restore still needs, and it dies.
EnableMaintenance(a) ==
    /\ pc[a] = "saved"
    /\ \/ maintenance' = TRUE /\ Goto(a, "guarded") /\ task' = task
       \/ maintenance' = maintenance /\ Return(a)
    /\ UNCHANGED <<job, disk, files, clock, dest, byHand, crashes>>

\* _extract_storage copies what the archive holds over what is there.  It extracts
\* nothing from a database dump, and fails on a file that has gone.
ExtractStorage(a) ==
    LET j == task[a].target
    IN  /\ pc[a] = "guarded"
        /\ files' = IF job[j].kind # "database" /\ OnDisk(j)
                    THEN files \cup disk[job[j].file].saved ELSE files
        /\ Return(a)
        /\ UNCHANGED <<job, disk, maintenance, clock, dest, byHand, crashes>>

-----------------------------------------------------------------------------
(* The surroundings.                                                       *)

\* The maintenance page's switch.
SetMaintenance(a, on) ==
    /\ pc[a] = "idle" /\ maintenance # on
    /\ maintenance' = on
    /\ UNCHANGED <<job, disk, files, clock, pc, task, dest, byHand, crashes>>

\* A user's receipt or attachment is stored, also by a handler that passed the
\* maintenance check before it was switched on.
Upload(f) ==
    /\ f \notin files
    /\ files' = files \cup {f}
    /\ UNCHANGED <<job, disk, maintenance, clock, pc, task, dest, byHand, crashes>>

\* A stored file is gone: payment_service.delete_receipt unlinks one, or the disk loses it.
Lose(f) ==
    /\ f \in files
    /\ files' = files \ {f}
    /\ task' = [t \in Tasks |-> [task[t] EXCEPT !.had = @ \ {f}]]
    /\ UNCHANGED <<job, disk, maintenance, clock, pc, dest, byHand, crashes>>

Tick ==
    /\ clock < MaxClock
    /\ clock' = clock + 1
    /\ UNCHANGED <<job, disk, files, maintenance, pc, task, dest, byHand, crashes>>

\* The panel or the worker is killed: rows stay running, files stay half written.
Crash(process) ==
    /\ crashes < MaxCrashes
    /\ \E t \in process : pc[t] # "idle"
    /\ crashes' = crashes + 1
    /\ pc' = [t \in Tasks |-> IF t \in process THEN "idle" ELSE pc[t]]
    /\ task' = [t \in Tasks |-> IF t \in process THEN NoTask ELSE task[t]]
    /\ UNCHANGED <<job, disk, files, maintenance, clock, dest, byHand>>

JobStep(t) == StartJob(t) \/ OpenFile(t) \/ CloseFile(t) \/ CompleteJob(t) \/ FailJob(t)

Restore(a) ==
    \/ ConfirmRestore(a) \/ RefuseRestore(a) \/ Preflight(a)
    \/ EnableMaintenance(a) \/ ExtractStorage(a)

Next ==
    \/ \E a \in Admins, kind \in Types : RequestBackup(a, kind)
    \/ \E t \in Tasks : JobStep(t)
    \/ \E a \in Admins, j \in Ids : DeleteFile(a, j) \/ create_restore_plan(a, j)
    \/ \E a \in Admins : DeleteRow(a) \/ Restore(a)
    \/ Sweep \/ SweepFiles \/ SweepRows \/ SweepEnds
    \/ \E kind \in Types : ScheduledBackup(kind)
    \/ \E a \in Admins, on \in BOOLEAN : SetMaintenance(a, on)
    \/ \E f \in Uploads : Upload(f) \/ Lose(f)
    \/ Tick
    \/ \E process \in {Admins, {Scheduler}} : Crash(process)

Spec == Init /\ [][Next]_vars

-----------------------------------------------------------------------------
(* Properties.                                                             *)

\* Jobs that were begun in the same second under the same name.
Clash(j) == \E k \in Ids \ {j} : dest[k] = dest[j]

\* "The single latest successful backup is never removed": the newest job that ever
\* completed is still completed and its file intact, whatever sweeps, failures and
\* crashes came after, unless an administrator deleted it or another job took its name.
LatestSurvives ==
    \A j \in Created \ byHand :
        /\ job[j].sum # None
        /\ \A k \in Created : k > j => job[k].sum = None
        /\ ~Clash(j)
        => j \in Completed /\ Verified(j)

\* "Takes a pre-restore backup first": when a restore writes storage, all that lay there
\* when it was confirmed is in the intact archive it made for that, or that one was
\* deleted by hand, lost its name, or gave way to a newer backup.
WayBack ==
    [][\A a \in Admins : ExtractStorage(a) /\ files' # files =>
          LET p == task[a].id
          IN  \/ p \in byHand \/ Clash(p)
              \/ \E k \in Created : k > p /\ job[k].sum # None
              \/ p \in Completed /\ Verified(p) /\ task[a].had \subseteq job[p].sum.saved]_vars
=============================================================================
