-------------------------------- MODULE Backup --------------------------------
(***************************************************************************)
(* Database backups: services/backup.py and the handlers of                *)
(* routers/backup.py that change something.                                *)
(*                                                                         *)
(*   workers    POST /trigger and the thread it starts, or the scheduler's *)
(*              thread: run_backup_thread, run_backup, _enforce_retention  *)
(*   restorers  POST /restore: run_restore, in a thread of the pool        *)
(*   deleters   DELETE /{id}: delete_backup, in a thread of the pool       *)
(*                                                                         *)
(* Backups and restores exclude each other with `_backup_lock`, deletions  *)
(* take no lock.  The history of backups is a table of the database that   *)
(* is backed up: a dump holds the history as it was when the dump began,   *)
(* with its own row as "running", and a restore brings that history back,  *)
(* while the files stay as they are.  A file is named by the time of its   *)
(* backup, here a number, so a name is never used twice; the ids of rows   *)
(* are, because a restore resets AUTO_INCREMENT with the table.            *)
(***************************************************************************)
EXTENDS Naturals, FiniteSets

CONSTANTS
    Workers, Restorers, Deleters,
    Retention,  \* retention_count of the configuration
    MaxFiles,   \* bound: backups begun
    MaxId,      \* bound: ids of the rows that POST /trigger inserts
    MaxFaults   \* bound: crashes, failing tools and full disks

ASSUME RetentionAssumption == Retention \in Nat \ {0}
ASSUME BoundsAssumption == /\ MaxFiles \in Nat /\ MaxId \in Nat
                           /\ MaxFaults \in Nat

VARIABLES
    lock,     \* _backup_lock, which has no owner
    history,  \* the rows of app_backup_history
    nextId,   \* its AUTO_INCREMENT
    made,     \* how many backup files were named
    file,     \* what is on disk under each name
    dump,     \* the history that each file holds
    worker, restorer, deleter,  \* how far each has come, with its locals
    faults    \* how often a tool failed, and how often the container

vars == <<lock, history, nextId, made, file, dump, worker, restorer, deleter,
          faults>>

Files == 1 .. MaxFiles
Placeholder == 0  \* the file name of the row that POST /trigger inserts

\* A row of the history; started_at is not kept, the files' numbers are as old.
Row == [id : Nat, file : Files \cup {Placeholder},
        status : {"running", "completed", "failed"}]
Snapshot == [rows : SUBSET Row, next : Nat]

\* id and file of the backup, entries that retention has yet to delete, ids of
\* those it has deleted but not committed.
Worker == [pc : {"idle", "placed", "starting", "locked", "named", "dumping",
                 "dumped", "completed", "pruning", "unlinking", "failing",
                 "failed", "closing"},
           id : Nat, file : Files \cup {Placeholder}, doomed : SUBSET Row,
           gone : SUBSET Nat]
Restorer == [pc : {"idle", "checked", "locked", "piping", "restored"},
             file : Files \cup {Placeholder}]
Deleter == [pc : {"idle", "unlinking", "deleting"}, id : Nat,
            file : Files \cup {Placeholder}]

IdleWorker == [pc |-> "idle", id |-> 0, file |-> Placeholder, doomed |-> {},
               gone |-> {}]
IdleRestorer == [pc |-> "idle", file |-> Placeholder]
IdleDeleter == [pc |-> "idle", id |-> 0, file |-> Placeholder]

TypeOK ==
    /\ lock \in BOOLEAN
    /\ history \subseteq Row
    /\ nextId \in Nat
    /\ made \in 0 .. MaxFiles
    /\ file \in [Files -> {"none", "partial", "whole"}]
    /\ dump \in [Files -> Snapshot]
    /\ worker \in [Workers -> Worker]
    /\ restorer \in [Restorers -> Restorer]
    /\ deleter \in [Deleters -> Deleter]
    /\ faults \in [{"tool", "crash"} -> 0 .. MaxFaults]

Init ==
    /\ lock = FALSE
    /\ history = {}
    /\ nextId = 1
    /\ made = 0
    /\ file = [f \in Files |-> "none"]
    /\ dump = [f \in Files |-> [rows |-> {}, next |-> 1]]
    /\ worker = [w \in Workers |-> IdleWorker]
    /\ restorer = [r \in Restorers |-> IdleRestorer]
    /\ deleter = [d \in Deleters |-> IdleDeleter]
    /\ faults = [kind \in {"tool", "crash"} |-> 0]

-----------------------------------------------------------------------------
(* Operations on the history and on the actors' locals.                     *)

Completed == {r \in history : r.status = "completed"}
Listed(id) == \E r \in history : r.id = id

\* UPDATE and DELETE by id; a DELETE that finds no row is only a warning.
WithStatus(id, status) ==
    {IF r.id = id THEN [r EXCEPT !.status = status] ELSE r : r \in history}
Without(ids) == {r \in history : r.id \notin ids}

Newer(r) == {s \in Completed : s.file > r.file}

\* Wrong: the status that the placeholder's file name suggests.
InsertPending(f) ==
    /\ history' = history \cup {[id |-> nextId, file |-> f, status |-> "pending"]}
    /\ nextId' = nextId + 1

\* INSERT of a row that is "running".
Insert(f) ==
    /\ history' = history \cup {[id |-> nextId, file |-> f, status |-> "running"]}
    /\ nextId' = nextId + 1

WorkerMoves(w, pc) == worker' = [worker EXCEPT ![w].pc = pc]
RestorerMoves(r, pc) == restorer' = [restorer EXCEPT ![r].pc = pc]
Fault(kind) ==
    /\ faults.tool + faults.crash < MaxFaults
    /\ faults' = [faults EXCEPT ![kind] = @ + 1]

\* Wrong: run_restore does not close the session in which it read the history.
TableIsFreeUnclosed == /\ \A d \in Deleters : deleter[d].pc = "idle"
                       /\ \A r \in Restorers : restorer[r].pc # "piping"

\* The session of a deletion reads the table and keeps its transaction open
\* until it ends, and DROP TABLE waits for that; the session of a backup is
\* closed before the lock is released.
TableIsFree == \A d \in Deleters : deleter[d].pc = "idle"

WorkerInSection(w) == worker[w].pc \notin {"idle", "placed", "starting"}
RestorerInSection(r) == restorer[r].pc \in {"locked", "piping", "restored"}
Busy == \/ \E w \in Workers : WorkerInSection(w)
        \/ \E r \in Restorers : RestorerInSection(r)

-----------------------------------------------------------------------------
(* A backup.  POST /trigger inserts a row and deletes it again before it    *)
(* starts the thread; the scheduler starts the thread at once.              *)

TriggerInserts(w) ==
    /\ worker[w].pc = "idle" /\ nextId <= MaxId
    /\ Insert(Placeholder)
    /\ worker' = [worker EXCEPT ![w].pc = "placed", ![w].id = nextId]
    /\ UNCHANGED <<lock, made, file, dump, restorer, deleter, faults>>

TriggerDeletes(w) ==
    /\ worker[w].pc = "placed"
    /\ worker' = [worker EXCEPT ![w] =
           [IdleWorker EXCEPT !.pc = IF Listed(worker[w].id) THEN "starting"
                                                             ELSE "idle"]]
    /\ history' = Without({worker[w].id})
    /\ UNCHANGED <<lock, nextId, made, file, dump, restorer, deleter, faults>>

ScheduleFires(w) ==
    /\ worker[w].pc = "idle"
    /\ WorkerMoves(w, "starting")
    /\ UNCHANGED <<lock, history, nextId, made, file, dump, restorer, deleter,
                   faults>>

\* Wrong: the finally that releases the lock covers the acquire as well.
BackupSkipsReleasing(w) ==
    /\ worker[w].pc = "starting" /\ lock
    /\ lock' = FALSE
    /\ worker' = [worker EXCEPT ![w] = IdleWorker]
    /\ UNCHANGED <<history, nextId, made, file, dump, restorer, deleter, faults>>

\* acquire(blocking=False) of run_backup_thread.
BackupSkips(w) ==
    /\ worker[w].pc = "starting" /\ lock
    /\ worker' = [worker EXCEPT ![w] = IdleWorker]
    /\ UNCHANGED <<lock, history, nextId, made, file, dump, restorer, deleter,
                   faults>>

BackupLocks(w) ==
    /\ worker[w].pc = "starting" /\ ~lock /\ made < MaxFiles
    /\ lock' = TRUE
    /\ WorkerMoves(w, "locked")
    /\ UNCHANGED <<history, nextId, made, file, dump, restorer, deleter, faults>>

BackupInserts(w) ==
    /\ worker[w].pc = "locked"
    /\ made' = made + 1
    /\ Insert(made')
    /\ worker' = [worker EXCEPT ![w] = [pc |-> "named", id |-> nextId,
           file |-> made', doomed |-> {}, gone |-> {}]]
    /\ UNCHANGED <<lock, file, dump, restorer, deleter, faults>>

\* _write_defaults_file raises, outside the try: the row stays "running".
BackupBreaks(w) ==
    /\ worker[w].pc = "named" /\ Fault("tool")
    /\ WorkerMoves(w, "closing")
    /\ UNCHANGED <<lock, history, nextId, made, file, dump, restorer, deleter>>

\* mysqldump begins its transaction, _encrypt_stream opens the file.
DumpBegins(w) ==
    /\ worker[w].pc = "named"
    /\ file' = [file EXCEPT ![worker[w].file] = "partial"]
    /\ dump' = [dump EXCEPT ![worker[w].file] = [rows |-> history, next |-> nextId]]
    /\ WorkerMoves(w, "dumping")
    /\ UNCHANGED <<lock, history, nextId, made, restorer, deleter, faults>>

\* The file may have been unlinked by a deletion while it was written.
DumpEnds(w) ==
    /\ worker[w].pc = "dumping"
    /\ file' = [file EXCEPT ![worker[w].file] = IF @ = "none" THEN @ ELSE "whole"]
    /\ WorkerMoves(w, "dumped")
    /\ UNCHANGED <<lock, history, nextId, made, dump, restorer, deleter, faults>>

\* Wrong: the exit code of mysqldump is not looked at.
DumpFailsUnseen(w) ==
    /\ worker[w].pc = "dumping" /\ Fault("tool")
    /\ WorkerMoves(w, "dumped")
    /\ UNCHANGED <<lock, history, nextId, made, file, dump, restorer, deleter>>

\* mysqldump exits with another code than 0, or the disk is full.
DumpFails(w) ==
    /\ worker[w].pc = "dumping" /\ Fault("tool")
    /\ WorkerMoves(w, "failing")
    /\ UNCHANGED <<lock, history, nextId, made, file, dump, restorer, deleter>>

\* getsize finds the file and the UPDATE its row, or one of them raises.
BackupCompletes(w) ==
    /\ worker[w].pc = "dumped"
    /\ \/ /\ file[worker[w].file] # "none" /\ Listed(worker[w].id)
          /\ history' = WithStatus(worker[w].id, "completed")
          /\ WorkerMoves(w, "completed")
       \/ /\ file[worker[w].file] = "none" \/ ~Listed(worker[w].id)
          /\ WorkerMoves(w, "failing")
          /\ UNCHANGED history
    /\ UNCHANGED <<lock, nextId, made, file, dump, restorer, deleter, faults>>

-----------------------------------------------------------------------------
(* _enforce_retention, still inside the try of run_backup.                  *)

\* Wrong: keeps one backup more than `Retention`.
RetentionLoadsLate(w) ==
    /\ worker[w].pc = "completed"
    /\ LET old == {r \in Completed : Cardinality(Newer(r)) > Retention} IN
       \/ /\ ~Listed(worker[w].id)
          /\ WorkerMoves(w, "failing")
       \/ /\ Listed(worker[w].id) /\ old = {}
          /\ WorkerMoves(w, "closing")
       \/ /\ Listed(worker[w].id) /\ old # {}
          /\ worker' = [worker EXCEPT ![w].pc = "pruning", ![w].doomed = old]
    /\ UNCHANGED <<lock, history, nextId, made, file, dump, restorer, deleter,
                   faults>>

\* db.refresh raises if the row was deleted meanwhile.
RetentionLoads(w) ==
    /\ worker[w].pc = "completed"
    /\ LET old == {r \in Completed : Cardinality(Newer(r)) >= Retention} IN
       \/ /\ ~Listed(worker[w].id)
          /\ WorkerMoves(w, "failing")
       \/ /\ Listed(worker[w].id) /\ old = {}
          /\ WorkerMoves(w, "closing")
       \/ /\ Listed(worker[w].id) /\ old # {}
          /\ worker' = [worker EXCEPT ![w].pc = "pruning", ![w].doomed = old]
    /\ UNCHANGED <<lock, history, nextId, made, file, dump, restorer, deleter,
                   faults>>

\* The entries are deleted from the newest to the oldest.
IsNext(w, r) == \A s \in worker[w].doomed : s.file <= r.file

Dropped(w, r) ==
    [pc |-> "pruning", id |-> worker[w].id, file |-> worker[w].file,
     doomed |-> worker[w].doomed \ {r}, gone |-> worker[w].gone \cup {r.id}]

\* exists() and unlink() are two system calls, with deletions between.
RetentionLooks(w) ==
    /\ worker[w].pc = "pruning"
    /\ \E r \in worker[w].doomed :
          /\ IsNext(w, r)
          /\ \/ /\ file[r.file] = "none"
                /\ worker' = [worker EXCEPT ![w] = Dropped(w, r)]
             \/ /\ file[r.file] # "none"
                /\ WorkerMoves(w, "unlinking")
    /\ UNCHANGED <<lock, history, nextId, made, file, dump, restorer, deleter,
                   faults>>

RetentionUnlinks(w) ==
    /\ worker[w].pc = "unlinking"
    /\ \E r \in worker[w].doomed :
          /\ IsNext(w, r)
          /\ file' = [file EXCEPT ![r.file] = "none"]
          /\ \/ /\ file[r.file] # "none"
                /\ worker' = [worker EXCEPT ![w] = Dropped(w, r)]
             \/ /\ file[r.file] = "none"  \* FileNotFoundError
                /\ WorkerMoves(w, "failing")
    /\ UNCHANGED <<lock, history, nextId, made, dump, restorer, deleter, faults>>

RetentionCommits(w) ==
    /\ worker[w].pc = "pruning" /\ worker[w].doomed = {}
    /\ history' = Without(worker[w].gone)
    /\ WorkerMoves(w, "closing")
    /\ UNCHANGED <<lock, nextId, made, file, dump, restorer, deleter, faults>>

-----------------------------------------------------------------------------
(* The except branch of run_backup, and the two finally blocks.             *)

\* The UPDATE raises again if the row is gone, and then the file stays.  The
\* commit includes what retention deleted before it failed.
FailureCommits(w) ==
    /\ worker[w].pc = "failing"
    /\ \/ /\ Listed(worker[w].id)
          /\ history' = {r \in WithStatus(worker[w].id, "failed") :
                           r.id \notin worker[w].gone}
          /\ WorkerMoves(w, "failed")
       \/ /\ ~Listed(worker[w].id)
          /\ WorkerMoves(w, "closing")
          /\ UNCHANGED history
    /\ UNCHANGED <<lock, nextId, made, file, dump, restorer, deleter, faults>>

\* Wrong: forgets the file.
FailureForgets(w) ==
    /\ worker[w].pc = "failed"
    /\ WorkerMoves(w, "closing")
    /\ UNCHANGED <<lock, history, nextId, made, file, dump, restorer, deleter,
                   faults>>

FailureCleans(w) ==
    /\ worker[w].pc = "failed"
    /\ file' = [file EXCEPT ![worker[w].file] = "none"]
    /\ WorkerMoves(w, "closing")
    /\ UNCHANGED <<lock, history, nextId, made, dump, restorer, deleter, faults>>

BackupReleases(w) ==
    /\ worker[w].pc = "closing"
    /\ lock' = FALSE
    /\ worker' = [worker EXCEPT ![w] = IdleWorker]
    /\ UNCHANGED <<history, nextId, made, file, dump, restorer, deleter, faults>>

-----------------------------------------------------------------------------
(* A restore.                                                               *)

\* The router and run_restore read the row once, and look for the file.
RestoreChecks(r) ==
    /\ restorer[r].pc = "idle"
    /\ \E b \in Completed :
          /\ file[b.file] # "none"
          /\ restorer' = [restorer EXCEPT ![r] = [pc |-> "checked", file |-> b.file]]
    /\ UNCHANGED <<lock, history, nextId, made, file, dump, worker, deleter,
                   faults>>

\* "A backup or restore operation is already in progress", 409.
RestoreIsBusy(r) ==
    /\ restorer[r].pc = "checked" /\ lock
    /\ restorer' = [restorer EXCEPT ![r] = IdleRestorer]
    /\ UNCHANGED <<lock, history, nextId, made, file, dump, worker, deleter,
                   faults>>

RestoreLocks(r) ==
    /\ restorer[r].pc = "checked" /\ ~lock
    /\ lock' = TRUE
    /\ RestorerMoves(r, "locked")
    /\ UNCHANGED <<history, nextId, made, file, dump, worker, deleter, faults>>

\* _write_defaults_file raises after the acquire and before the try: nobody
\* will release the lock.
RestoreLeaks(r) ==
    /\ restorer[r].pc = "locked" /\ Fault("tool")
    /\ restorer' = [restorer EXCEPT ![r] = IdleRestorer]
    /\ UNCHANGED <<lock, history, nextId, made, file, dump, worker, deleter>>

\* The finally block.
RestoreReleases(r) ==
    /\ lock' = FALSE
    /\ restorer' = [restorer EXCEPT ![r] = IdleRestorer]

\* _decrypt_stream opens the file; a file unlinked later can still be read.
RestoreOpens(r) ==
    /\ restorer[r].pc = "locked"
    /\ \/ /\ file[restorer[r].file] # "none"
          /\ RestorerMoves(r, "piping")
          /\ UNCHANGED lock
       \/ /\ file[restorer[r].file] = "none"
          /\ RestoreReleases(r)
    /\ UNCHANGED <<history, nextId, made, file, dump, worker, deleter, faults>>

\* mysql comes to the history: DROP TABLE, CREATE TABLE, INSERT.
RestoreLoadsHistory(r) ==
    /\ restorer[r].pc = "piping" /\ TableIsFree
    /\ history' = dump[restorer[r].file].rows
    /\ nextId' = dump[restorer[r].file].next
    /\ RestorerMoves(r, "restored")
    /\ UNCHANGED <<lock, made, file, dump, worker, deleter, faults>>

RestoreEnds(r) ==
    /\ restorer[r].pc = "restored"
    /\ RestoreReleases(r)
    /\ UNCHANGED <<history, nextId, made, file, dump, worker, deleter, faults>>

\* mysql fails before or after it has loaded the history.  (When a file cannot be
\* decrypted to its end, _decrypt_stream raises and the lock is released without
\* waiting for mysql, which may go on with what it was sent: not modelled.)
RestoreFails(r) ==
    /\ restorer[r].pc \in {"piping", "restored"} /\ Fault("tool")
    /\ RestoreReleases(r)
    /\ UNCHANGED <<history, nextId, made, file, dump, worker, deleter>>

-----------------------------------------------------------------------------
(* A deletion, which takes no lock.                                         *)

DeleteLoads(d) ==
    /\ deleter[d].pc = "idle"
    /\ \E r \in history :
          deleter' = [deleter EXCEPT ![d] =
              [pc |-> IF r.file \in Files /\ file[r.file] # "none"
                      THEN "unlinking" ELSE "deleting",
               id |-> r.id, file |-> r.file]]
    /\ UNCHANGED <<lock, history, nextId, made, file, dump, worker, restorer,
                   faults>>

DeleteUnlinks(d) ==
    /\ deleter[d].pc = "unlinking"
    /\ file' = [file EXCEPT ![deleter[d].file] = "none"]
    /\ deleter' = [deleter EXCEPT ![d] =
           IF file[@.file] # "none" THEN [@ EXCEPT !.pc = "deleting"]
                                    ELSE IdleDeleter]  \* FileNotFoundError
    /\ UNCHANGED <<lock, history, nextId, made, dump, worker, restorer, faults>>

DeleteCommits(d) ==
    /\ deleter[d].pc = "deleting"
    /\ history' = Without({deleter[d].id})
    /\ deleter' = [deleter EXCEPT ![d] = IdleDeleter]
    /\ UNCHANGED <<lock, nextId, made, file, dump, worker, restorer, faults>>

-----------------------------------------------------------------------------
\* The container restarts: files and committed rows are all that is left.
Crash ==
    /\ Fault("crash")
    /\ lock' = FALSE
    /\ worker' = [w \in Workers |-> IdleWorker]
    /\ restorer' = [r \in Restorers |-> IdleRestorer]
    /\ deleter' = [d \in Deleters |-> IdleDeleter]
    /\ UNCHANGED <<history, nextId, made, file, dump>>

BackupSteps(w) ==
    \/ TriggerDeletes(w) \/ BackupSkips(w) \/ BackupLocks(w) \/ BackupInserts(w)
    \/ BackupBreaks(w) \/ DumpBegins(w) \/ DumpEnds(w) \/ DumpFails(w)
    \/ BackupCompletes(w) \/ RetentionLoads(w) \/ RetentionLooks(w)
    \/ RetentionUnlinks(w) \/ RetentionCommits(w) \/ FailureCommits(w)
    \/ FailureCleans(w) \/ BackupReleases(w)

RestoreSteps(r) ==
    \/ RestoreIsBusy(r) \/ RestoreLocks(r) \/ RestoreLeaks(r) \/ RestoreOpens(r)
    \/ RestoreLoadsHistory(r) \/ RestoreEnds(r) \/ RestoreFails(r)

DeleteSteps(d) == DeleteUnlinks(d) \/ DeleteCommits(d)

Next ==
    \/ \E w \in Workers : TriggerInserts(w) \/ ScheduleFires(w) \/ BackupSteps(w)
    \/ \E r \in Restorers : RestoreChecks(r) \/ RestoreSteps(r)
    \/ \E d \in Deleters : DeleteLoads(d) \/ DeleteSteps(d)
    \/ Crash

Spec == Init /\ [][Next]_vars

\* Threads go on.  A DROP TABLE that waits keeps new readers out, so it gets
\* its turn although deletions may come again and again.
FairSpec ==
    /\ Spec
    /\ \A w \in Workers : WF_vars(BackupSteps(w))
    /\ \A r \in Restorers : WF_vars(RestoreSteps(r))
                            /\ SF_vars(RestoreLoadsHistory(r))
    /\ \A d \in Deleters : WF_vars(DeleteSteps(d))

-----------------------------------------------------------------------------
(* Properties.                                                              *)

\* README.md:360: only one backup or restore runs at a time.  The lock has no
\* owner and is tried from three places, so whoever releases it must be the
\* one who acquired it.
OneAtATime ==
    /\ \A v, w \in Workers :
          WorkerInSection(v) /\ WorkerInSection(w) => v = w
    /\ \A q, r \in Restorers :
          RestorerInSection(q) /\ RestorerInSection(r) => q = r
    /\ \A w \in Workers, r \in Restorers :
          ~(WorkerInSection(w) /\ RestorerInSection(r))

\* Whatever the order of backups, failures, deletions, restores of old
\* histories and crashes: a backup that is listed as completed, and so is
\* offered for restore and download, never has half a file.
CompletedIsWhole ==
    \A r \in Completed : r.file \in Files /\ file[r.file] # "partial"

\* When no backup is between its commit and the end of its retention, at most
\* `Retention` completed backups are listed, also after a restore of an old
\* history and when retention or a backup has failed; each crash may leave one
\* more, until the next backup.
HistoryIsBounded ==
    (\A w \in Workers : worker[w].pc \notin {"completed", "pruning", "unlinking",
                                             "failing"})
        => Cardinality(Completed) <= Retention + faults.crash

\* A backup that failed does not leave its file behind, unless a crash came
\* between.
FailedIsCleanedUp ==
    faults.crash = 0 => \A r \in history : r.status = "failed" =>
        \/ file[r.file] = "none"
        \/ \E w \in Workers : worker[w].pc = "failed" /\ worker[w].file = r.file

\* A backup or restore that holds the lock comes to its end and releases it,
\* although a restore waits for the transactions of deletions.
OperationsEnd == Busy ~> ~Busy

\* README.md:337, "restore from any completed backup": a backup that has just
\* been restored is still listed as completed.  Not true of the code, and checked
\* by no run: the dump holds its own row as running.
RestoredIsListed ==
    [][\A r \in Restorers : RestoreEnds(r) =>
         \E b \in Completed : b.file = restorer[r].file]_vars

\* backup.py:190, "Clean up partial file": the file that a failure removes is
\* not a whole one.  Not true of the code, and checked by no run: retention can
\* fail after the backup has completed.
OnlyPartialIsCleaned ==
    [][\A w \in Workers : FailureCleans(w) =>
         file[worker[w].file] # "whole"]_vars
===============================================================================
