----------------------------- MODULE BackupProofs -----------------------------
(***************************************************************************)
(* Proofs about Backup for any workers, restorers and deleters, any        *)
(* retention and any bounds.                                               *)
(*                                                                         *)
(* OneAtATime is inductive together with the fact that an actor in its     *)
(* section holds the lock.  CompletedIsWhole needs more: a restore brings  *)
(* back rows from a dump, so the dumps must keep the invariant as well, no *)
(* row or dump may name a file before its backup is complete, and the row  *)
(* that a backup completes must be its own although ids come back.         *)
(* FailedIsCleanedUp needs the same of failed rows.                        *)
(***************************************************************************)
EXTENDS Backup, TLAPS, FiniteSetTheorems, WellFoundedInduction

\* What a restore reads is the file of a backup, and a backup that has the
\* lock but no name yet can still be named.
SourceKnown ==
    \A r \in Restorers : restorer[r].pc # "idle" => restorer[r].file \in Files
RoomForOne == \A w \in Workers : worker[w].pc = "locked" => made < MaxFiles

(***************************************************************************)
(* The lock.                                                               *)
(***************************************************************************)

LockInv == (Busy => lock) /\ OneAtATime

(***************************************************************************)
(* Rows, dumps and files.                                                  *)
(***************************************************************************)

\* From the insertion of its row to the end of its work on it.
Named == {"named", "dumping", "dumped", "completed", "pruning", "unlinking",
          "failing", "failed"}

RowsAreOld == \A r \in history : r.id < nextId /\ r.file <= made

DumpsAreOld ==
    \A f \in Files : \A r \in dump[f].rows :
        r.id < dump[f].next /\ r.file <= made

OwnRow ==
    \A w \in Workers : worker[w].pc \in Named =>
        /\ worker[w].file \in Files /\ worker[w].file <= made
        /\ worker[w].id < nextId
        /\ \A r \in history : r.id = worker[w].id => r.file = worker[w].file

WholeIn(rows) ==
    \A r \in rows : r.status = "completed" =>
        r.file \in Files /\ file[r.file] # "partial"

NotDoneIn(rows, f) ==
    \A r \in rows : r.status = "completed" => r.file # f

Unfinished ==
    \A w \in Workers : worker[w].pc \in {"named", "dumping", "dumped"} =>
        /\ NotDoneIn(history, worker[w].file)
        /\ \A g \in Files : NotDoneIn(dump[g].rows, worker[w].file)

DumpedIsWhole ==
    \A w \in Workers : worker[w].pc = "dumped" => file[worker[w].file] # "partial"

RowsInv ==
    /\ RowsAreOld /\ DumpsAreOld
    /\ OwnRow /\ Unfinished /\ DumpedIsWhole
    /\ WholeIn(history)
    /\ \A g \in Files : WholeIn(dump[g].rows)

BackupInv == TypeOK /\ SourceKnown /\ RoomForOne /\ LockInv /\ RowsInv

-----------------------------------------------------------------------------
\* An UPDATE changes the status of the rows with one id, and nothing else.
LEMMA WithStatusRows ==
    ASSUME history \subseteq Row, NEW id, NEW st \in {"running", "completed", "failed"}
    PROVE  /\ WithStatus(id, st) \subseteq Row
           /\ \A x \in WithStatus(id, st) : \E r \in history :
                 /\ x.id = r.id /\ x.file = r.file
                 /\ x.status = r.status \/ (x.status = st /\ r.id = id)
<1>1. ASSUME NEW x \in WithStatus(id, st)
      PROVE  x \in Row /\ \E r \in history :
                 /\ x.id = r.id /\ x.file = r.file
                 /\ x.status = r.status \/ (x.status = st /\ r.id = id)
  <2>1. PICK r \in history : x = IF r.id = id THEN [r EXCEPT !.status = st] ELSE r
    BY <1>1 DEF WithStatus
  <2>2. r \in Row
    OBVIOUS
  <2>3. CASE r.id = id
    <3>1. x = [r EXCEPT !.status = st]
      BY <2>1, <2>3
    <3>2. x = [id |-> r.id, file |-> r.file, status |-> st]
      BY <3>1, <2>2 DEF Row
    <3>. QED  BY <3>2, <2>2, <2>3 DEF Row
  <2>4. CASE r.id # id
    BY <2>1, <2>2, <2>4
  <2>. QED  BY <2>3, <2>4
<1>. QED  BY <1>1

-----------------------------------------------------------------------------
\* Type correctness.
LEMMA IdleTyped ==
    IdleWorker \in Worker /\ IdleRestorer \in Restorer /\ IdleDeleter \in Deleter
BY DEF IdleWorker, IdleRestorer, IdleDeleter, Worker, Restorer, Deleter, Placeholder

LEMMA InitTyped == Init => TypeOK
<1>. SUFFICES ASSUME Init PROVE TypeOK
  OBVIOUS
<1>1. dump \in [Files -> Snapshot]
  BY DEF Init, Snapshot
<1>2. faults \in [{"tool", "crash"} -> 0 .. MaxFaults]
  BY BoundsAssumption DEF Init
<1>3. /\ worker \in [Workers -> Worker] /\ restorer \in [Restorers -> Restorer]
      /\ deleter \in [Deleters -> Deleter]
  BY IdleTyped DEF Init
<1>4. lock \in BOOLEAN /\ history \subseteq Row /\ nextId \in Nat
  BY DEF Init
<1>5. made \in 0 .. MaxFiles /\ file \in [Files -> {"none", "partial", "whole"}]
  BY BoundsAssumption DEF Init
<1>. QED
  BY <1>1, <1>2, <1>3, <1>4, <1>5 DEF TypeOK

LEMMA FaultTyped ==
    ASSUME TypeOK, NEW kind \in {"tool", "crash"}, Fault(kind)
    PROVE  faults' \in [{"tool", "crash"} -> 0 .. MaxFaults]
<1>1. faults.tool \in Nat /\ faults.crash \in Nat
  BY DEF TypeOK
<1>2. faults.tool + 1 \in 0 .. MaxFaults /\ faults.crash + 1 \in 0 .. MaxFaults
  BY <1>1, BoundsAssumption DEF Fault
<1>. QED  BY <1>2 DEF Fault, TypeOK

LEMMA InsertTyped ==
    ASSUME TypeOK, NEW f \in Files \cup {Placeholder}, Insert(f)
    PROVE  history' \subseteq Row /\ nextId' \in Nat
BY DEF Insert, TypeOK, Row

\* A step that only moves a worker on keeps its locals.
LEMMA MoveTyped ==
    ASSUME TypeOK, NEW w \in Workers,
           NEW pc \in {"starting", "locked", "dumping", "dumped", "completed",
                       "unlinking", "failing", "failed", "closing"},
           WorkerMoves(w, pc)
    PROVE  worker' \in [Workers -> Worker]
BY DEF WorkerMoves, TypeOK, Worker

LEMMA DropTyped ==
    ASSUME TypeOK, NEW w \in Workers, NEW r \in worker[w].doomed
    PROVE  [worker EXCEPT ![w] = Dropped(w, r)] \in [Workers -> Worker]
<1>1. worker[w] \in Worker
  BY DEF TypeOK
<1>2. r.id \in Nat
  BY <1>1 DEF Worker, Row
<1>3. Dropped(w, r) \in Worker
  BY <1>1, <1>2 DEF Worker, Dropped
<1>. QED  BY <1>3 DEF TypeOK

LEMMA StepTyped == TypeOK /\ SourceKnown /\ RoomForOne /\ [Next]_vars => TypeOK'
<1>. SUFFICES ASSUME TypeOK, SourceKnown, RoomForOne, [Next]_vars PROVE TypeOK'
  OBVIOUS
<1>. USE BoundsAssumption, IdleTyped, FaultTyped
<1>1. ASSUME NEW w \in Workers, TriggerInserts(w) PROVE TypeOK'
  BY <1>1, InsertTyped DEF TriggerInserts, TypeOK, Worker
<1>2. ASSUME NEW w \in Workers, TriggerDeletes(w) PROVE TypeOK'
  BY <1>2 DEF TriggerDeletes, Without, TypeOK, Worker
<1>3. ASSUME NEW w \in Workers, ScheduleFires(w) PROVE TypeOK'
  BY <1>3, MoveTyped DEF ScheduleFires, TypeOK
<1>4. ASSUME NEW w \in Workers, BackupSkips(w) PROVE TypeOK'
  BY <1>4 DEF BackupSkips, TypeOK, Worker
<1>5. ASSUME NEW w \in Workers, BackupLocks(w) PROVE TypeOK'
  BY <1>5, MoveTyped DEF BackupLocks, TypeOK
<1>6. ASSUME NEW w \in Workers, BackupInserts(w) PROVE TypeOK'
  <2>1. made' \in 0 .. MaxFiles /\ made' \in Files
    BY <1>6 DEF BackupInserts, RoomForOne, TypeOK, Files
  <2>2. worker' \in [Workers -> Worker]
    BY <1>6, <2>1 DEF BackupInserts, TypeOK, Worker
  <2>. QED  BY <1>6, <2>1, <2>2, InsertTyped DEF BackupInserts, TypeOK
<1>7. ASSUME NEW w \in Workers, BackupBreaks(w) PROVE TypeOK'
  BY <1>7, MoveTyped DEF BackupBreaks, TypeOK
<1>8. ASSUME NEW w \in Workers, DumpBegins(w) PROVE TypeOK'
  BY <1>8, MoveTyped DEF DumpBegins, TypeOK, Snapshot
<1>9. ASSUME NEW w \in Workers, DumpEnds(w) PROVE TypeOK'
  BY <1>9, MoveTyped DEF DumpEnds, TypeOK
<1>10. ASSUME NEW w \in Workers, DumpFails(w) PROVE TypeOK'
  BY <1>10, MoveTyped DEF DumpFails, TypeOK
<1>11. ASSUME NEW w \in Workers, BackupCompletes(w) PROVE TypeOK'
  BY <1>11, MoveTyped, WithStatusRows DEF BackupCompletes, TypeOK
<1>12. ASSUME NEW w \in Workers, RetentionLoads(w) PROVE TypeOK'
  BY <1>12 DEF RetentionLoads, WorkerMoves, Completed, TypeOK, Worker
<1>13. ASSUME NEW w \in Workers, RetentionLooks(w) PROVE TypeOK'
  BY <1>13, DropTyped, MoveTyped DEF RetentionLooks, TypeOK
<1>14. ASSUME NEW w \in Workers, RetentionUnlinks(w) PROVE TypeOK'
  <2>1. worker' \in [Workers -> Worker]
    BY <1>14, DropTyped, MoveTyped DEF RetentionUnlinks
  <2>2. file' \in [Files -> {"none", "partial", "whole"}]
    BY <1>14 DEF RetentionUnlinks, TypeOK
  <2>. QED  BY <1>14, <2>1, <2>2 DEF RetentionUnlinks, TypeOK
<1>15. ASSUME NEW w \in Workers, RetentionCommits(w) PROVE TypeOK'
  BY <1>15, MoveTyped DEF RetentionCommits, Without, TypeOK
<1>16. ASSUME NEW w \in Workers, FailureCommits(w) PROVE TypeOK'
  BY <1>16, MoveTyped, WithStatusRows DEF FailureCommits, TypeOK
<1>17. ASSUME NEW w \in Workers, FailureCleans(w) PROVE TypeOK'
  BY <1>17, MoveTyped DEF FailureCleans, TypeOK
<1>18. ASSUME NEW w \in Workers, BackupReleases(w) PROVE TypeOK'
  BY <1>18 DEF BackupReleases, TypeOK, Worker
<1>19. ASSUME NEW r \in Restorers, RestoreChecks(r) PROVE TypeOK'
  BY <1>19 DEF RestoreChecks, Completed, TypeOK, Restorer, Row
<1>20. ASSUME NEW r \in Restorers, RestoreIsBusy(r) PROVE TypeOK'
  BY <1>20 DEF RestoreIsBusy, TypeOK, Restorer
<1>21. ASSUME NEW r \in Restorers, RestoreLocks(r) PROVE TypeOK'
  BY <1>21 DEF RestoreLocks, RestorerMoves, TypeOK, Restorer
<1>22. ASSUME NEW r \in Restorers, RestoreLeaks(r) PROVE TypeOK'
  BY <1>22 DEF RestoreLeaks, TypeOK, Restorer
<1>23. ASSUME NEW r \in Restorers, RestoreOpens(r) PROVE TypeOK'
  <2>1. CASE RestorerMoves(r, "piping") /\ UNCHANGED lock
    BY <1>23, <2>1 DEF RestoreOpens, RestorerMoves, TypeOK, Restorer
  <2>2. CASE RestoreReleases(r)
    BY <1>23, <2>2 DEF RestoreOpens, RestoreReleases, TypeOK
  <2>. QED  BY <1>23, <2>1, <2>2 DEF RestoreOpens
<1>24. ASSUME NEW r \in Restorers, RestoreLoadsHistory(r) PROVE TypeOK'
  BY <1>24 DEF SourceKnown, RestoreLoadsHistory, RestorerMoves, TypeOK, Restorer, Snapshot
<1>25. ASSUME NEW r \in Restorers, RestoreEnds(r) PROVE TypeOK'
  BY <1>25 DEF RestoreEnds, RestoreReleases, TypeOK, Restorer
<1>26. ASSUME NEW r \in Restorers, RestoreFails(r) PROVE TypeOK'
  BY <1>26 DEF RestoreFails, RestoreReleases, TypeOK, Restorer
<1>27. ASSUME NEW d \in Deleters, DeleteLoads(d) PROVE TypeOK'
  BY <1>27 DEF DeleteLoads, TypeOK, Deleter, Row
<1>28. ASSUME NEW d \in Deleters, DeleteUnlinks(d) PROVE TypeOK'
  BY <1>28 DEF DeleteUnlinks, TypeOK, Deleter
<1>29. ASSUME NEW d \in Deleters, DeleteCommits(d) PROVE TypeOK'
  BY <1>29 DEF DeleteCommits, Without, TypeOK, Deleter
<1>30. CASE Crash
  <2>1. /\ worker' \in [Workers -> Worker] /\ restorer' \in [Restorers -> Restorer]
        /\ deleter' \in [Deleters -> Deleter]
    BY <1>30, IdleTyped DEF Crash
  <2>2. faults' \in [{"tool", "crash"} -> 0 .. MaxFaults]
    BY <1>30, FaultTyped DEF Crash
  <2>. QED  BY <1>30, <2>1, <2>2 DEF Crash, TypeOK
<1>31. CASE UNCHANGED vars
  BY <1>31 DEF vars, TypeOK
<1>. QED
  BY <1>1, <1>2, <1>3, <1>4, <1>5, <1>6, <1>7, <1>8, <1>9, <1>10, <1>11, <1>12,
     <1>13, <1>14, <1>15, <1>16, <1>17, <1>18, <1>19, <1>20, <1>21, <1>22, <1>23,
     <1>24, <1>25, <1>26, <1>27, <1>28, <1>29, <1>30, <1>31
  DEF Next, BackupSteps, RestoreSteps, DeleteSteps

-----------------------------------------------------------------------------
\* The lock.  A worker that is moved on without the lock changing hands stays
\* inside or outside.
LEMMA LockKept == TypeOK /\ LockInv /\ [Next]_vars => LockInv'
<1>. SUFFICES ASSUME TypeOK, LockInv, [Next]_vars PROVE LockInv'
  OBVIOUS
<1>. USE DEF LockInv, Busy, OneAtATime, WorkerInSection, RestorerInSection,
             WorkerMoves, RestorerMoves
<1>1. ASSUME NEW w \in Workers, TriggerInserts(w) PROVE LockInv'
  BY <1>1 DEF TriggerInserts, Worker, TypeOK
<1>2. ASSUME NEW w \in Workers, TriggerDeletes(w) PROVE LockInv'
  BY <1>2 DEF TriggerDeletes, Worker, IdleWorker, TypeOK
<1>3. ASSUME NEW w \in Workers, ScheduleFires(w) PROVE LockInv'
  BY <1>3 DEF ScheduleFires, Worker, TypeOK
<1>4. ASSUME NEW w \in Workers, BackupSkips(w) PROVE LockInv'
  BY <1>4 DEF BackupSkips, IdleWorker, TypeOK
<1>5. ASSUME NEW w \in Workers, BackupLocks(w) PROVE LockInv'
  BY <1>5 DEF BackupLocks, Worker, TypeOK
<1>6. ASSUME NEW w \in Workers, BackupInserts(w) PROVE LockInv'
  BY <1>6 DEF BackupInserts, Worker, TypeOK
<1>7. ASSUME NEW w \in Workers, BackupBreaks(w) PROVE LockInv'
  BY <1>7 DEF BackupBreaks, Worker, TypeOK
<1>8. ASSUME NEW w \in Workers, DumpBegins(w) PROVE LockInv'
  BY <1>8 DEF DumpBegins, Worker, TypeOK
<1>9. ASSUME NEW w \in Workers, DumpEnds(w) PROVE LockInv'
  BY <1>9 DEF DumpEnds, Worker, TypeOK
<1>10. ASSUME NEW w \in Workers, DumpFails(w) PROVE LockInv'
  BY <1>10 DEF DumpFails, Worker, TypeOK
<1>11. ASSUME NEW w \in Workers, BackupCompletes(w) PROVE LockInv'
  BY <1>11 DEF BackupCompletes, Worker, TypeOK
<1>12. ASSUME NEW w \in Workers, RetentionLoads(w) PROVE LockInv'
  BY <1>12 DEF RetentionLoads, Worker, TypeOK
<1>13. ASSUME NEW w \in Workers, RetentionLooks(w) PROVE LockInv'
  BY <1>13 DEF RetentionLooks, Worker, Dropped, TypeOK
<1>14. ASSUME NEW w \in Workers, RetentionUnlinks(w) PROVE LockInv'
  BY <1>14 DEF RetentionUnlinks, Worker, Dropped, TypeOK
<1>15. ASSUME NEW w \in Workers, RetentionCommits(w) PROVE LockInv'
  BY <1>15 DEF RetentionCommits, Worker, TypeOK
<1>16. ASSUME NEW w \in Workers, FailureCommits(w) PROVE LockInv'
  BY <1>16 DEF FailureCommits, Worker, TypeOK
<1>17. ASSUME NEW w \in Workers, FailureCleans(w) PROVE LockInv'
  BY <1>17 DEF FailureCleans, Worker, TypeOK
<1>18. ASSUME NEW w \in Workers, BackupReleases(w) PROVE LockInv'
  BY <1>18 DEF BackupReleases, IdleWorker, TypeOK
<1>19. ASSUME NEW r \in Restorers, RestoreChecks(r) PROVE LockInv'
  BY <1>19 DEF RestoreChecks, TypeOK
<1>20. ASSUME NEW r \in Restorers, RestoreIsBusy(r) PROVE LockInv'
  BY <1>20 DEF RestoreIsBusy, IdleRestorer, TypeOK
<1>21. ASSUME NEW r \in Restorers, RestoreLocks(r) PROVE LockInv'
  BY <1>21 DEF RestoreLocks, Restorer, TypeOK
<1>22. ASSUME NEW r \in Restorers, RestoreLeaks(r) PROVE LockInv'
  BY <1>22 DEF RestoreLeaks, IdleRestorer, TypeOK
<1>23. ASSUME NEW r \in Restorers, RestoreOpens(r) PROVE LockInv'
  BY <1>23 DEF RestoreOpens, Restorer, RestoreReleases, IdleRestorer, TypeOK
<1>24. ASSUME NEW r \in Restorers, RestoreLoadsHistory(r) PROVE LockInv'
  BY <1>24 DEF RestoreLoadsHistory, Restorer, TypeOK
<1>25. ASSUME NEW r \in Restorers, RestoreEnds(r) PROVE LockInv'
  BY <1>25 DEF RestoreEnds, RestoreReleases, IdleRestorer, TypeOK
<1>26. ASSUME NEW r \in Restorers, RestoreFails(r) PROVE LockInv'
  BY <1>26 DEF RestoreFails, RestoreReleases, IdleRestorer, TypeOK
<1>27. ASSUME NEW d \in Deleters, DeleteLoads(d) PROVE LockInv'
  BY <1>27 DEF DeleteLoads, TypeOK
<1>28. ASSUME NEW d \in Deleters, DeleteUnlinks(d) PROVE LockInv'
  BY <1>28 DEF DeleteUnlinks, TypeOK
<1>29. ASSUME NEW d \in Deleters, DeleteCommits(d) PROVE LockInv'
  BY <1>29 DEF DeleteCommits, TypeOK
<1>30. CASE Crash
  BY <1>30 DEF Crash, IdleWorker, IdleRestorer
<1>31. CASE UNCHANGED vars
  BY <1>31 DEF vars
<1>. QED
  BY <1>1, <1>2, <1>3, <1>4, <1>5, <1>6, <1>7, <1>8, <1>9, <1>10, <1>11,
     <1>12, <1>13, <1>14, <1>15, <1>16, <1>17, <1>18, <1>19, <1>20, <1>21,
     <1>22, <1>23, <1>24, <1>25, <1>26, <1>27, <1>28, <1>29, <1>30, <1>31
  DEF Next, BackupSteps, RestoreSteps, DeleteSteps

-----------------------------------------------------------------------------
\* A backup goes on past its dump: no row is new or newly completed, no file
\* is newly partial.
LEMMA LateStepKeeps ==
    ASSUME BackupInv, NEW w \in Workers,
           \A v \in Workers \ {w} : worker'[v] = worker[v],
           worker[w].pc \in Named,
           worker'[w].pc \notin {"locked", "named", "dumping", "dumped"},
           worker'[w].id = worker[w].id, worker'[w].file = worker[w].file,
           \A x \in history' : \E r \in history :
               /\ x.id = r.id /\ x.file = r.file
               /\ x.status = "completed" => r.status = "completed",
           \A f \in Files : file'[f] = "partial" => file[f] = "partial",
           UNCHANGED <<nextId, made, dump, restorer>>
    PROVE  RowsInv' /\ SourceKnown' /\ RoomForOne'
<1>. USE DEF BackupInv, RowsInv, Named
<1>1. RowsAreOld' /\ DumpsAreOld'
  BY DEF RowsAreOld, DumpsAreOld
<1>2. OwnRow'
  BY DEF OwnRow
<1>3. Unfinished'
  BY DEF Unfinished, NotDoneIn
<1>4. DumpedIsWhole'
  <2>. SUFFICES ASSUME NEW v \in Workers, worker'[v].pc = "dumped"
                PROVE  file'[worker[v].file] # "partial" /\ worker'[v].file = worker[v].file
    BY DEF DumpedIsWhole
  <2>. QED  BY DEF DumpedIsWhole, OwnRow
<1>5. WholeIn(history)' /\ \A g \in Files : WholeIn(dump[g].rows)'
  BY DEF WholeIn
<1>. QED  BY <1>1, <1>2, <1>3, <1>4, <1>5 DEF SourceKnown, RoomForOne

-----------------------------------------------------------------------------
\* Rows, dumps and files.
LEMMA RowsKept == BackupInv /\ [Next]_vars => RowsInv' /\ SourceKnown' /\ RoomForOne'
<1>. SUFFICES ASSUME BackupInv, [Next]_vars
              PROVE  RowsInv' /\ SourceKnown' /\ RoomForOne'
  OBVIOUS
<1>. DEFINE Kept == RowsInv' /\ SourceKnown' /\ RoomForOne'
<1>. USE BoundsAssumption
     DEF BackupInv, RowsInv, RowsAreOld, DumpsAreOld, OwnRow, Unfinished,
         DumpedIsWhole, WholeIn, NotDoneIn, Named, SourceKnown, RoomForOne,
         WorkerMoves, RestorerMoves, Without
<1>1. ASSUME NEW w \in Workers, TriggerInserts(w) PROVE Kept
  <2>. DEFINE new == [id |-> nextId, file |-> Placeholder, status |-> "running"]
  <2>1. /\ history' = history \cup {new} /\ nextId' = nextId + 1
        /\ nextId \in Nat /\ made \in Nat
    BY <1>1 DEF TriggerInserts, Insert, TypeOK
  <2>2. RowsAreOld'
    BY <1>1, <2>1 DEF TriggerInserts, TypeOK, Row, Placeholder
  <2>3. OwnRow'
    BY <1>1, <2>1 DEF TriggerInserts, TypeOK, Worker
  <2>4. Unfinished' /\ DumpedIsWhole'
    BY <1>1, <2>1 DEF TriggerInserts, TypeOK, Worker
  <2>5. WholeIn(history)' /\ \A g \in Files : WholeIn(dump[g].rows)'
    BY <1>1, <2>1 DEF TriggerInserts
  <2>6. DumpsAreOld' /\ SourceKnown' /\ RoomForOne'
    BY <1>1 DEF TriggerInserts, TypeOK, Worker
  <2>. QED  BY <2>2, <2>3, <2>4, <2>5, <2>6
<1>2. ASSUME NEW w \in Workers, TriggerDeletes(w) PROVE Kept
  BY <1>2 DEF TriggerDeletes, Worker, IdleWorker, TypeOK
<1>3. ASSUME NEW w \in Workers, ScheduleFires(w) PROVE Kept
  BY <1>3 DEF ScheduleFires, Worker, TypeOK
<1>4. ASSUME NEW w \in Workers, BackupSkips(w) PROVE Kept
  BY <1>4 DEF BackupSkips, IdleWorker, TypeOK
<1>5. ASSUME NEW w \in Workers, BackupLocks(w) PROVE Kept
  BY <1>5 DEF BackupLocks, Worker, TypeOK
<1>6. ASSUME NEW w \in Workers, BackupInserts(w) PROVE Kept
  <2>. DEFINE new == [id |-> nextId, file |-> made', status |-> "running"]
  <2>1. /\ history' = history \cup {new} /\ nextId' = nextId + 1
        /\ nextId \in Nat /\ made \in Nat /\ made' = made + 1 /\ made' \in Files
    BY <1>6 DEF BackupInserts, Insert, TypeOK, Files
  <2>2. worker' = [worker EXCEPT ![w] = [pc |-> "named", id |-> nextId,
                       file |-> made', doomed |-> {}, gone |-> {}]]
    BY <1>6 DEF BackupInserts
  <2>3. \A r \in history : r.id \in Nat /\ (r.file \in Nat => r.file < made')
    BY <2>1 DEF TypeOK, Row
  <2>4. RowsAreOld'
    BY <2>1 DEF TypeOK, Row, Files, Placeholder
  <2>5. DumpsAreOld'
    <3>1. ASSUME NEW f \in Files, NEW r \in dump[f].rows PROVE r.file \in Nat
      <4>1. dump[f] \in Snapshot
        BY DEF TypeOK
      <4>2. r \in Row
        BY <4>1 DEF Snapshot
      <4>. QED  BY <4>2 DEF Row, Files, Placeholder
    <3>2. \A f \in Files : \A r \in dump[f].rows :
              r.id < dump[f].next /\ r.file <= made + 1
      <4>1. \A f \in Files : \A r \in dump[f].rows :
                r.id < dump[f].next /\ r.file <= made
        BY DEF DumpsAreOld
      <4>. QED  BY <2>1, <3>1, <4>1
    <3>. QED  BY <1>6, <2>1, <3>2 DEF BackupInserts
  <2>6. OwnRow'
    BY <2>1, <2>2, <2>3 DEF TypeOK, Worker, Files, Placeholder
  <2>7. Unfinished'
    BY <1>6, <2>1, <2>2 DEF BackupInserts, TypeOK, Worker
  <2>8. DumpedIsWhole'
    BY <1>6, <2>1, <2>2 DEF BackupInserts, TypeOK
  <2>9. WholeIn(history)' /\ \A g \in Files : WholeIn(dump[g].rows)'
    BY <1>6, <2>1 DEF BackupInserts
  <2>10. SourceKnown' /\ RoomForOne'
    BY <1>6, <2>2 DEF BackupInserts, TypeOK, LockInv, OneAtATime, WorkerInSection
  <2>. QED  BY <2>4, <2>5, <2>6, <2>7, <2>8, <2>9, <2>10
<1>7. ASSUME NEW w \in Workers, BackupBreaks(w) PROVE Kept
  BY <1>7 DEF BackupBreaks, Worker, TypeOK
<1>8. ASSUME NEW w \in Workers, DumpBegins(w) PROVE Kept
  <2>. DEFINE f == worker[w].file
  <2>1. f \in Files /\ NotDoneIn(history, f)
        /\ \A g \in Files : NotDoneIn(dump[g].rows, f)
    BY <1>8 DEF DumpBegins
  <2>2. /\ file' = [file EXCEPT ![f] = "partial"]
        /\ dump' = [dump EXCEPT ![f] = [rows |-> history, next |-> nextId]]
    BY <1>8 DEF DumpBegins
  <2>3. \A g \in Files : dump'[g].rows \in {history, dump[g].rows}
    BY <2>2 DEF TypeOK
  <2>4. RowsAreOld' /\ DumpsAreOld'
    BY <1>8, <2>1, <2>2 DEF DumpBegins, TypeOK
  <2>5. OwnRow'
    BY <1>8 DEF DumpBegins, TypeOK, Worker
  <2>6. Unfinished'
    BY <1>8, <2>3 DEF DumpBegins, TypeOK, Worker
  <2>7. DumpedIsWhole'
    BY <1>8 DEF DumpBegins, TypeOK, Worker, LockInv, OneAtATime, WorkerInSection
  <2>8. WholeIn(history)' /\ \A g \in Files : WholeIn(dump[g].rows)'
    BY <1>8, <2>1, <2>2, <2>3 DEF DumpBegins, TypeOK
  <2>9. SourceKnown' /\ RoomForOne'
    BY <1>8 DEF DumpBegins, TypeOK
  <2>. QED  BY <2>4, <2>5, <2>6, <2>7, <2>8, <2>9
<1>9. ASSUME NEW w \in Workers, DumpEnds(w) PROVE Kept
  BY <1>9 DEF DumpEnds, Worker, TypeOK
<1>10. ASSUME NEW w \in Workers, DumpFails(w) PROVE Kept
  BY <1>10 DEF DumpFails, Worker, TypeOK
<1>11. ASSUME NEW w \in Workers, BackupCompletes(w) PROVE Kept
  <2>1. CASE WorkerMoves(w, "failing") /\ UNCHANGED history
    BY <1>11, <2>1, LateStepKeeps DEF BackupCompletes, TypeOK, Worker
  <2>2. CASE /\ history' = WithStatus(worker[w].id, "completed")
             /\ WorkerMoves(w, "completed")
    <3>1. \A x \in history' : \E r \in history :
              /\ x.id = r.id /\ x.file = r.file
              /\ x.status = "completed" => r.status = "completed"
                                           \/ r.file = worker[w].file
      BY <1>11, <2>2, WithStatusRows DEF BackupCompletes, TypeOK
    <3>2. worker[w].file \in Files /\ file[worker[w].file] # "partial"
      BY <1>11 DEF BackupCompletes
    <3>3. RowsAreOld' /\ DumpsAreOld'
      BY <1>11, <3>1 DEF BackupCompletes
    <3>4. OwnRow'
      BY <1>11, <2>2, <3>1 DEF BackupCompletes, TypeOK, Worker
    \* No other backup is in its section.
    <3>5. Unfinished' /\ DumpedIsWhole' /\ SourceKnown' /\ RoomForOne'
      BY <1>11, <2>2 DEF BackupCompletes, TypeOK, Worker, LockInv, OneAtATime,
         WorkerInSection
    <3>6. WholeIn(history)' /\ \A g \in Files : WholeIn(dump[g].rows)'
      BY <1>11, <3>1, <3>2 DEF BackupCompletes
    <3>. QED  BY <3>3, <3>4, <3>5, <3>6
  <2>. QED  BY <1>11, <2>1, <2>2 DEF BackupCompletes
<1>12. ASSUME NEW w \in Workers, RetentionLoads(w) PROVE Kept
  BY <1>12, LateStepKeeps DEF RetentionLoads, TypeOK, Worker
<1>13. ASSUME NEW w \in Workers, RetentionLooks(w) PROVE Kept
  BY <1>13, LateStepKeeps DEF RetentionLooks, Dropped, TypeOK, Worker
<1>14. ASSUME NEW w \in Workers, RetentionUnlinks(w) PROVE Kept
  <2>1. worker'[w].pc \in {"pruning", "failing"}
    BY <1>14 DEF RetentionUnlinks, Dropped, TypeOK, Worker
  <2>2. /\ \A v \in Workers \ {w} : worker'[v] = worker[v]
        /\ worker'[w].id = worker[w].id /\ worker'[w].file = worker[w].file
    BY <1>14 DEF RetentionUnlinks, Dropped, TypeOK, Worker
  <2>3. \A f \in Files : file'[f] = "partial" => file[f] = "partial"
    BY <1>14 DEF RetentionUnlinks, TypeOK
  <2>. QED  BY <1>14, <2>1, <2>2, <2>3, LateStepKeeps DEF RetentionUnlinks
<1>15. ASSUME NEW w \in Workers, RetentionCommits(w) PROVE Kept
  BY <1>15 DEF RetentionCommits, Worker, TypeOK
<1>16. ASSUME NEW w \in Workers, FailureCommits(w) PROVE Kept
  <2>1. \A x \in history' : \E r \in history :
            /\ x.id = r.id /\ x.file = r.file
            /\ x.status = "completed" => r.status = "completed"
    BY <1>16, WithStatusRows DEF FailureCommits, TypeOK
  <2>2. /\ \A v \in Workers \ {w} : worker'[v] = worker[v]
        /\ worker'[w].id = worker[w].id /\ worker'[w].file = worker[w].file
        /\ worker'[w].pc \in {"failed", "closing"}
    BY <1>16 DEF FailureCommits, TypeOK, Worker
  <2>. QED  BY <1>16, <2>1, <2>2, LateStepKeeps DEF FailureCommits
<1>17. ASSUME NEW w \in Workers, FailureCleans(w) PROVE Kept
  BY <1>17 DEF FailureCleans, Worker, TypeOK
<1>18. ASSUME NEW w \in Workers, BackupReleases(w) PROVE Kept
  BY <1>18 DEF BackupReleases, IdleWorker, TypeOK
<1>19. ASSUME NEW r \in Restorers, RestoreChecks(r) PROVE Kept
  BY <1>19 DEF RestoreChecks, Completed, TypeOK
<1>20. ASSUME NEW r \in Restorers, RestoreIsBusy(r) PROVE Kept
  BY <1>20 DEF RestoreIsBusy, IdleRestorer, TypeOK
<1>21. ASSUME NEW r \in Restorers, RestoreLocks(r) PROVE Kept
  BY <1>21 DEF RestoreLocks, Restorer, TypeOK
<1>22. ASSUME NEW r \in Restorers, RestoreLeaks(r) PROVE Kept
  BY <1>22 DEF RestoreLeaks, IdleRestorer, TypeOK
<1>23. ASSUME NEW r \in Restorers, RestoreOpens(r) PROVE Kept
  BY <1>23 DEF RestoreOpens, Restorer, RestoreReleases, IdleRestorer, TypeOK
<1>24. ASSUME NEW r \in Restorers, RestoreLoadsHistory(r) PROVE Kept
  <2>1. \A w \in Workers : worker[w].pc \in {"idle", "placed", "starting"}
    BY <1>24 DEF RestoreLoadsHistory, LockInv, OneAtATime, WorkerInSection,
       RestorerInSection
  <2>2. restorer[r].file \in Files
    BY <1>24 DEF RestoreLoadsHistory
  <2>3. /\ RowsAreOld' /\ DumpsAreOld' /\ OwnRow' /\ Unfinished' /\ DumpedIsWhole'
        /\ RoomForOne'
    BY <1>24, <2>1, <2>2 DEF RestoreLoadsHistory
  <2>4. WholeIn(history)' /\ \A g \in Files : WholeIn(dump[g].rows)'
    BY <1>24, <2>2 DEF RestoreLoadsHistory
  <2>5. SourceKnown'
    BY <1>24 DEF RestoreLoadsHistory, TypeOK, Restorer
  <2>. QED  BY <2>3, <2>4, <2>5
<1>25. ASSUME NEW r \in Restorers, RestoreEnds(r) PROVE Kept
  BY <1>25 DEF RestoreEnds, RestoreReleases, IdleRestorer, TypeOK
<1>26. ASSUME NEW r \in Restorers, RestoreFails(r) PROVE Kept
  BY <1>26 DEF RestoreFails, RestoreReleases, IdleRestorer, TypeOK
<1>27. ASSUME NEW d \in Deleters, DeleteLoads(d) PROVE Kept
  BY <1>27 DEF DeleteLoads, TypeOK
<1>28. ASSUME NEW d \in Deleters, DeleteUnlinks(d) PROVE Kept
  BY <1>28 DEF DeleteUnlinks, TypeOK
<1>29. ASSUME NEW d \in Deleters, DeleteCommits(d) PROVE Kept
  BY <1>29 DEF DeleteCommits, TypeOK
<1>30. CASE Crash
  BY <1>30 DEF Crash, IdleWorker, IdleRestorer
<1>31. CASE UNCHANGED vars
  BY <1>31 DEF vars
<1>. QED
  BY <1>1, <1>2, <1>3, <1>4, <1>5, <1>6, <1>7, <1>8, <1>9, <1>10, <1>11,
     <1>12, <1>13, <1>14, <1>15, <1>16, <1>17, <1>18, <1>19, <1>20, <1>21,
     <1>22, <1>23, <1>24, <1>25, <1>26, <1>27, <1>28, <1>29, <1>30, <1>31
  DEF Next, BackupSteps, RestoreSteps, DeleteSteps

-----------------------------------------------------------------------------
(* Files of failed backups.  A restore brings failed rows back, so the      *)
(* files they name must be gone for those of the dumps as well, and no      *)
(* failed row may name a file that is still to be created.                  *)

CleanIn(rows) ==
    \A r \in rows : r.status = "failed" => r.file \in Files /\ file[r.file] = "none"

CleanOrFailing ==
    \A r \in history : r.status = "failed" =>
        /\ r.file \in Files
        /\ \/ file[r.file] = "none"
           \/ \E w \in Workers : worker[w].pc = "failed" /\ worker[w].file = r.file

NotFailedIn(rows, f) == \A r \in rows : r.status = "failed" => r.file # f

Fresh ==
    \A w \in Workers : worker[w].pc = "named" =>
        /\ NotFailedIn(history, worker[w].file)
        /\ \A g \in Files : NotFailedIn(dump[g].rows, worker[w].file)

FailedInv ==
    faults.crash = 0 => /\ CleanOrFailing /\ Fresh
                        /\ \A g \in Files : CleanIn(dump[g].rows)

\* A step that neither fails a row nor creates a file, nor ends the cleaning.
LEMMA QuietStepKeeps ==
    ASSUME TypeOK, FailedInv,
           faults'.crash = 0 => faults.crash = 0,
           \A x \in history' : x.status = "failed" => x \in history,
           \A f \in Files : file[f] = "none" => file'[f] = "none",
           UNCHANGED dump,
           \A w \in Workers : worker'[w].pc = "named" =>
               worker[w].pc = "named" /\ worker'[w].file = worker[w].file,
           \A w \in Workers : worker[w].pc = "failed" =>
               worker'[w].pc = "failed" /\ worker'[w].file = worker[w].file
    PROVE  FailedInv'
<1>. SUFFICES ASSUME faults'.crash = 0
              PROVE  /\ CleanOrFailing' /\ Fresh'
                     /\ \A g \in Files : CleanIn(dump[g].rows)'
  BY DEF FailedInv
<1>1. CleanOrFailing /\ Fresh /\ \A g \in Files : CleanIn(dump[g].rows)
  BY DEF FailedInv
<1>2. CleanOrFailing'
  BY <1>1 DEF CleanOrFailing
<1>3. Fresh'
  BY <1>1 DEF Fresh, NotFailedIn
<1>4. \A g \in Files : CleanIn(dump[g].rows)'
  BY <1>1 DEF CleanIn
<1>. QED  BY <1>2, <1>3, <1>4

LEMMA FaultKeepsCount ==
    ASSUME TypeOK, Fault("tool")
    PROVE  faults'.crash = faults.crash
BY DEF Fault, TypeOK

LEMMA FailedKept == BackupInv /\ FailedInv /\ [Next]_vars => FailedInv'
<1>. SUFFICES ASSUME BackupInv, FailedInv, [Next]_vars PROVE FailedInv'
  OBVIOUS
<1>0. TypeOK
  BY DEF BackupInv
<1>. USE <1>0, QuietStepKeeps, FaultKeepsCount
     DEF WorkerMoves, RestorerMoves, Without
<1>1. ASSUME NEW w \in Workers, TriggerInserts(w) PROVE FailedInv'
  BY <1>1 DEF TriggerInserts, Insert, TypeOK, Worker
<1>2. ASSUME NEW w \in Workers, TriggerDeletes(w) PROVE FailedInv'
  BY <1>2 DEF TriggerDeletes, IdleWorker, TypeOK, Worker
<1>3. ASSUME NEW w \in Workers, ScheduleFires(w) PROVE FailedInv'
  BY <1>3 DEF ScheduleFires, TypeOK, Worker
<1>4. ASSUME NEW w \in Workers, BackupSkips(w) PROVE FailedInv'
  BY <1>4 DEF BackupSkips, IdleWorker, TypeOK, Worker
<1>5. ASSUME NEW w \in Workers, BackupLocks(w) PROVE FailedInv'
  BY <1>5 DEF BackupLocks, TypeOK, Worker
<1>6. ASSUME NEW w \in Workers, BackupInserts(w) PROVE FailedInv'
  <2>. SUFFICES ASSUME faults.crash = 0
                PROVE  CleanOrFailing' /\ Fresh' /\ \A g \in Files : CleanIn(dump[g].rows)'
    BY <1>6 DEF BackupInserts, FailedInv
  <2>1. CleanOrFailing /\ Fresh /\ \A g \in Files : CleanIn(dump[g].rows)
    BY DEF FailedInv
  <2>2. /\ history' = history \cup
               {[id |-> nextId, file |-> made', status |-> "running"]}
        /\ made' = made + 1 /\ made \in Nat /\ UNCHANGED <<file, dump>>
        /\ worker' = [worker EXCEPT ![w] = [pc |-> "named", id |-> nextId,
                         file |-> made', doomed |-> {}, gone |-> {}]]
    BY <1>6 DEF BackupInserts, Insert, TypeOK
  <2>3. CleanOrFailing'
    BY <1>6, <2>1, <2>2 DEF CleanOrFailing, BackupInserts, TypeOK
  <2>4. NotFailedIn(history, made + 1)
    BY <2>1, <2>2 DEF NotFailedIn, CleanOrFailing, Files, BackupInv, RowsInv, RowsAreOld
  <2>5. \A g \in Files : NotFailedIn(dump[g].rows, made + 1)
    BY <2>1, <2>2 DEF NotFailedIn, CleanIn, Files, BackupInv, RowsInv, DumpsAreOld
  <2>6. Fresh'
    BY <2>1, <2>2, <2>4, <2>5 DEF Fresh, NotFailedIn, TypeOK
  <2>. QED  BY <2>1, <2>2, <2>3, <2>6 DEF CleanIn
<1>7. ASSUME NEW w \in Workers, BackupBreaks(w) PROVE FailedInv'
  BY <1>7 DEF BackupBreaks, TypeOK, Worker
<1>8. ASSUME NEW w \in Workers, DumpBegins(w) PROVE FailedInv'
  <2>. SUFFICES ASSUME faults.crash = 0
                PROVE  CleanOrFailing' /\ Fresh' /\ \A g \in Files : CleanIn(dump[g].rows)'
    BY <1>8 DEF DumpBegins, FailedInv
  <2>. DEFINE f == worker[w].file
  <2>1. CleanOrFailing /\ Fresh /\ \A g \in Files : CleanIn(dump[g].rows)
    BY DEF FailedInv
  <2>2. /\ worker[w].pc = "named" /\ UNCHANGED history
        /\ file' = [file EXCEPT ![f] = "partial"]
        /\ dump' = [dump EXCEPT ![f] = [rows |-> history, next |-> nextId]]
        /\ worker' = [worker EXCEPT ![w].pc = "dumping"]
    BY <1>8 DEF DumpBegins
  \* No other backup is failing while this one has the lock.
  <2>3. \A v \in Workers : v # w => worker[v].pc \notin {"failed", "named"}
    BY <2>2 DEF BackupInv, LockInv, OneAtATime, WorkerInSection
  <2>4. NotFailedIn(history, f) /\ \A g \in Files : NotFailedIn(dump[g].rows, f)
    BY <2>1, <2>2 DEF Fresh
  <2>5. CleanIn(history)
    BY <2>1, <2>2, <2>3 DEF CleanIn, CleanOrFailing
  <2>6. CleanIn(history)'
    BY <2>2, <2>4, <2>5 DEF CleanIn, NotFailedIn, TypeOK
  <2>7. \A g \in Files : dump'[g].rows \in {history, dump[g].rows}
    BY <2>2 DEF TypeOK
  <2>8. \A g \in Files : CleanIn(dump[g].rows)'
    BY <2>1, <2>2, <2>4, <2>5, <2>7 DEF CleanIn, NotFailedIn, TypeOK
  <2>9. Fresh'
    BY <2>2, <2>3 DEF Fresh, TypeOK, Worker
  <2>. QED  BY <2>6, <2>8, <2>9 DEF CleanIn, CleanOrFailing
<1>9. ASSUME NEW w \in Workers, DumpEnds(w) PROVE FailedInv'
  BY <1>9 DEF DumpEnds, TypeOK, Worker
<1>10. ASSUME NEW w \in Workers, DumpFails(w) PROVE FailedInv'
  BY <1>10 DEF DumpFails, TypeOK, Worker
<1>11. ASSUME NEW w \in Workers, BackupCompletes(w) PROVE FailedInv'
  <2>1. CASE WorkerMoves(w, "failing") /\ UNCHANGED history
    BY <1>11, <2>1 DEF BackupCompletes, TypeOK, Worker
  <2>2. CASE /\ history' = WithStatus(worker[w].id, "completed")
             /\ WorkerMoves(w, "completed")
    <3>1. \A x \in history' : x.status = "failed" => x \in history
      <4>. SUFFICES ASSUME NEW x \in history', x.status = "failed"
                    PROVE  x \in history
        OBVIOUS
      <4>1. PICK r \in history :
                x = IF r.id = worker[w].id THEN [r EXCEPT !.status = "completed"]
                                           ELSE r
        BY <2>2 DEF WithStatus
      <4>. QED  BY <4>1 DEF TypeOK, Row
    <3>. QED  BY <1>11, <2>2, <3>1 DEF BackupCompletes, TypeOK, Worker
  <2>. QED  BY <1>11, <2>1, <2>2 DEF BackupCompletes
<1>12. ASSUME NEW w \in Workers, RetentionLoads(w) PROVE FailedInv'
  BY <1>12 DEF RetentionLoads, TypeOK, Worker
<1>13. ASSUME NEW w \in Workers, RetentionLooks(w) PROVE FailedInv'
  BY <1>13 DEF RetentionLooks, Dropped, TypeOK, Worker
<1>14. ASSUME NEW w \in Workers, RetentionUnlinks(w) PROVE FailedInv'
  BY <1>14 DEF RetentionUnlinks, Dropped, TypeOK, Worker
<1>15. ASSUME NEW w \in Workers, RetentionCommits(w) PROVE FailedInv'
  BY <1>15 DEF RetentionCommits, TypeOK, Worker
<1>16. ASSUME NEW w \in Workers, FailureCommits(w) PROVE FailedInv'
  <2>1. CASE ~Listed(worker[w].id)
    BY <1>16, <2>1 DEF FailureCommits, TypeOK, Worker
  <2>2. CASE Listed(worker[w].id)
    <3>. SUFFICES ASSUME faults.crash = 0
                  PROVE  CleanOrFailing' /\ Fresh' /\ \A g \in Files : CleanIn(dump[g].rows)'
      BY <1>16 DEF FailureCommits, FailedInv
    <3>1. CleanOrFailing /\ Fresh /\ \A g \in Files : CleanIn(dump[g].rows)
      BY DEF FailedInv
    <3>2. /\ worker[w].pc = "failing" /\ UNCHANGED <<file, dump>>
          /\ history' \subseteq WithStatus(worker[w].id, "failed")
          /\ worker' = [worker EXCEPT ![w].pc = "failed"]
      BY <1>16, <2>2 DEF FailureCommits
    <3>3. \A x \in history' : \E r \in history :
              /\ x.id = r.id /\ x.file = r.file
              /\ x.status = r.status \/ (x.status = "failed" /\ r.id = worker[w].id)
      BY <3>2, WithStatusRows DEF TypeOK
    <3>4. /\ worker[w].file \in Files
          /\ \A r \in history : r.id = worker[w].id => r.file = worker[w].file
      BY <3>2 DEF BackupInv, RowsInv, OwnRow, Named
    <3>5. /\ worker'[w].pc = "failed" /\ worker'[w].file = worker[w].file
          /\ \A v \in Workers : worker[v].pc = "failed" =>
                 worker'[v].pc = "failed" /\ worker'[v].file = worker[v].file
      BY <3>2 DEF TypeOK, Worker
    <3>6. CleanOrFailing'
      BY <3>1, <3>2, <3>3, <3>4, <3>5 DEF CleanOrFailing
    <3>7. \A v \in Workers : worker'[v].pc # "named"
      BY <3>2 DEF TypeOK, Worker, BackupInv, LockInv, OneAtATime, WorkerInSection
    <3>. QED  BY <3>1, <3>2, <3>6, <3>7 DEF CleanIn, Fresh
  <2>. QED  BY <2>1, <2>2
<1>17. ASSUME NEW w \in Workers, FailureCleans(w) PROVE FailedInv'
  <2>. SUFFICES ASSUME faults.crash = 0
                PROVE  CleanOrFailing' /\ Fresh' /\ \A g \in Files : CleanIn(dump[g].rows)'
    BY <1>17 DEF FailureCleans, FailedInv
  <2>1. CleanOrFailing /\ Fresh /\ \A g \in Files : CleanIn(dump[g].rows)
    BY DEF FailedInv
  <2>2. /\ worker[w].pc = "failed" /\ UNCHANGED <<history, dump>>
        /\ file' = [file EXCEPT ![worker[w].file] = "none"]
        /\ worker' = [worker EXCEPT ![w].pc = "closing"]
    BY <1>17 DEF FailureCleans
  <2>3. \A f \in Files : file'[f] = "none" <=> file[f] = "none" \/ f = worker[w].file
    BY <2>2 DEF TypeOK
  <2>4. CleanOrFailing'
    BY <2>1, <2>2, <2>3 DEF CleanOrFailing, TypeOK, Worker
  <2>5. Fresh'
    BY <2>1, <2>2 DEF Fresh, TypeOK, Worker
  <2>. QED  BY <2>1, <2>2, <2>3, <2>4, <2>5 DEF CleanIn
<1>18. ASSUME NEW w \in Workers, BackupReleases(w) PROVE FailedInv'
  BY <1>18 DEF BackupReleases, IdleWorker, TypeOK, Worker
<1>19. ASSUME NEW r \in Restorers, RestoreChecks(r) PROVE FailedInv'
  BY <1>19 DEF RestoreChecks, TypeOK
<1>20. ASSUME NEW r \in Restorers, RestoreIsBusy(r) PROVE FailedInv'
  BY <1>20 DEF RestoreIsBusy, TypeOK
<1>21. ASSUME NEW r \in Restorers, RestoreLocks(r) PROVE FailedInv'
  BY <1>21 DEF RestoreLocks, TypeOK
<1>22. ASSUME NEW r \in Restorers, RestoreLeaks(r) PROVE FailedInv'
  BY <1>22 DEF RestoreLeaks, TypeOK
<1>23. ASSUME NEW r \in Restorers, RestoreOpens(r) PROVE FailedInv'
  BY <1>23 DEF RestoreOpens, RestoreReleases, TypeOK
<1>24. ASSUME NEW r \in Restorers, RestoreLoadsHistory(r) PROVE FailedInv'
  <2>. SUFFICES ASSUME faults.crash = 0
                PROVE  CleanOrFailing' /\ Fresh' /\ \A g \in Files : CleanIn(dump[g].rows)'
    BY <1>24 DEF RestoreLoadsHistory, FailedInv
  <2>1. \A g \in Files : CleanIn(dump[g].rows)
    BY DEF FailedInv
  <2>2. /\ restorer[r].pc = "piping" /\ UNCHANGED <<file, dump, worker>>
        /\ history' = dump[restorer[r].file].rows /\ restorer[r].file \in Files
    BY <1>24 DEF RestoreLoadsHistory, BackupInv, SourceKnown
  <2>3. \A w \in Workers : worker[w].pc # "named"
    BY <2>2 DEF BackupInv, LockInv, OneAtATime, WorkerInSection, RestorerInSection
  <2>. QED  BY <2>1, <2>2, <2>3 DEF CleanIn, CleanOrFailing, Fresh
<1>25. ASSUME NEW r \in Restorers, RestoreEnds(r) PROVE FailedInv'
  BY <1>25 DEF RestoreEnds, RestoreReleases, TypeOK
<1>26. ASSUME NEW r \in Restorers, RestoreFails(r) PROVE FailedInv'
  BY <1>26 DEF RestoreFails, RestoreReleases, TypeOK
<1>27. ASSUME NEW d \in Deleters, DeleteLoads(d) PROVE FailedInv'
  BY <1>27 DEF DeleteLoads, TypeOK
<1>28. ASSUME NEW d \in Deleters, DeleteUnlinks(d) PROVE FailedInv'
  BY <1>28 DEF DeleteUnlinks, TypeOK
<1>29. ASSUME NEW d \in Deleters, DeleteCommits(d) PROVE FailedInv'
  BY <1>29 DEF DeleteCommits, TypeOK
<1>30. CASE Crash
  <2>1. faults'.crash # 0
    BY <1>30, BoundsAssumption DEF Crash, Fault, TypeOK
  <2>. QED  BY <2>1 DEF FailedInv
<1>31. CASE UNCHANGED vars
  BY <1>31 DEF vars
<1>. QED
  BY <1>1, <1>2, <1>3, <1>4, <1>5, <1>6, <1>7, <1>8, <1>9, <1>10, <1>11,
     <1>12, <1>13, <1>14, <1>15, <1>16, <1>17, <1>18, <1>19, <1>20, <1>21,
     <1>22, <1>23, <1>24, <1>25, <1>26, <1>27, <1>28, <1>29, <1>30, <1>31
  DEF Next, BackupSteps, RestoreSteps, DeleteSteps

-----------------------------------------------------------------------------
(* The length of the history.  Between the commit of a backup and the end   *)
(* of its retention there is one completed row too many, its own; what      *)
(* retention leaves has at most `Retention` rows because no two completed   *)
(* rows have one file, so that the rows are ordered.  The dumps must keep   *)
(* the bound, and a crash keeps the row that retention had no time for.     *)

Late == {"completed", "pruning", "unlinking", "failing"}

\* No two rows have one id, or one file that was named.
Keyed(rows) ==
    \A r, s \in rows :
        r.id = s.id \/ (r.file = s.file /\ r.file # Placeholder) => r = s

TableInv ==
    /\ Keyed(history) /\ IsFiniteSet(history)
    /\ \A f \in Files : Keyed(dump[f].rows) /\ IsFiniteSet(dump[f].rows)

CompletedIn(rows) == {r \in rows : r.status = "completed"}

\* The completed rows but those of backups whose retention is to come.
Others == {r \in Completed :
              \A w \in Workers : worker[w].pc \in Late => r.id # worker[w].id}

\* The rows that the retention under way does not delete.
Spared(w) == {r \in Completed : r \notin worker[w].doomed
                                /\ r.id \notin worker[w].gone}

BoundInv ==
    /\ Cardinality(Others) <= Retention + faults.crash
    /\ \A w \in Workers : worker[w].pc \in {"pruning", "unlinking"} =>
          Cardinality(Spared(w)) <= Retention
    /\ \A f \in Files : Cardinality(CompletedIn(dump[f].rows))
                            <= Retention + faults.crash

LEMMA CompletedFinite ==
    ASSUME TableInv
    PROVE  /\ IsFiniteSet(Completed)
           /\ \A T \in SUBSET Completed :
                 IsFiniteSet(T) /\ Cardinality(T) \in Nat
                                /\ Cardinality(T) <= Cardinality(Completed)
<1>1. IsFiniteSet(Completed)
  BY FS_Subset DEF TableInv, Completed
<1>. QED  BY <1>1, FS_Subset, FS_CardinalityType

LEMMA SmallerSet ==
    ASSUME NEW T, NEW S, T \subseteq S, IsFiniteSet(S)
    PROVE  Cardinality(T) \in Nat /\ Cardinality(S) \in Nat
           /\ Cardinality(T) <= Cardinality(S)
BY FS_Subset, FS_CardinalityType

LEMMA LeastNumber ==
    ASSUME NEW F \in SUBSET Nat, F # {}
    PROVE  \E x \in F : \A y \in F : ~ (y < x)
<1>. DEFINE R == {p \in Nat \X Nat : p[1] < p[2]}
<1>1. IsWellFoundedOn(R, Nat)
  BY NatLessThanWellFounded DEF OpToRel
<1>2. \A x, y \in Nat : <<y, x>> \in R <=> y < x
  OBVIOUS
<1>. HIDE DEF R
<1>3. PICK x \in F : \A y \in F : ~ (<<y, x>> \in R)
  BY <1>1, WFMin
<1>. QED  BY <1>2, <1>3

\* Rows with fewer than n newer ones beside them are at most n: all but the
\* oldest are newer than the oldest.
LEMMA NewestAreFew ==
    ASSUME NEW n \in Nat, NEW S, IsFiniteSet(S),
           \A r \in S : r.file \in Nat,
           \A r, s \in S : r.file = s.file => r = s,
           \A r \in S : Cardinality({s \in S : s.file > r.file}) < n
    PROVE  Cardinality(S) <= n
<1>1. CASE S = {}
  BY <1>1, FS_EmptySet
<1>2. CASE S # {}
  <2>. DEFINE F == {r.file : r \in S}
  <2>1. F \subseteq Nat /\ F # {}
    BY <1>2
  <2>3. PICK x \in F : \A y \in F : ~ (y < x)
    BY <2>1, LeastNumber
  <2>4. PICK r \in S : r.file = x
    OBVIOUS
  <2>. DEFINE N == {s \in S : s.file > r.file}
  <2>5. S \ {r} \subseteq N
    BY <2>3, <2>4
  <2>6. IsFiniteSet(N) /\ Cardinality(N) \in Nat
    BY FS_Subset, FS_CardinalityType
  <2>7. Cardinality(S \ {r}) <= Cardinality(N)
    BY <2>5, <2>6, FS_Subset
  <2>8. Cardinality(S \ {r}) = Cardinality(S) - 1
    BY <2>4, FS_RemoveElement
  <2>9. Cardinality(N) < n
    BY <2>4
  <2>. QED  BY <2>6, <2>7, <2>8, <2>9, FS_CardinalityType
<1>. QED  BY <1>1, <1>2

\* An UPDATE leaves the keys as they are.
LEMMA WithStatusKeyed ==
    ASSUME history \subseteq Row, Keyed(history), IsFiniteSet(history),
           NEW id, NEW st \in {"running", "completed", "failed"},
           NEW rows \in SUBSET WithStatus(id, st)
    PROVE  Keyed(rows) /\ IsFiniteSet(rows)
<1>. DEFINE upd(r) == IF r.id = id THEN [r EXCEPT !.status = st] ELSE r
<1>1. WithStatus(id, st) = {upd(r) : r \in history}
  BY DEF WithStatus
<1>2. IsFiniteSet(WithStatus(id, st))
  <2>. DEFINE f == [r \in history |-> upd(r)]
  <2>1. f \in Surjection(history, WithStatus(id, st))
    BY <1>1 DEF Surjection
  <2>. QED  BY <2>1, FS_Surjection
<1>3. \A r \in history : upd(r).id = r.id /\ upd(r).file = r.file
  BY DEF Row
<1>4. Keyed(WithStatus(id, st))
  <2>. HIDE DEF upd
  <2>. QED  BY <1>1, <1>3 DEF Keyed
<1>5. IsFiniteSet(rows)
  BY <1>2, FS_Subset
<1>. QED  BY <1>4, <1>5 DEF Keyed

\* What a step can do to the table.
LEMMA TableChange ==
    ASSUME BackupInv, [Next]_vars
    PROVE  \/ history' \subseteq history
           \/ \E f \in Files \cup {Placeholder} :
                 /\ history' = history \cup {[id |-> nextId, file |-> f,
                                             status |-> "running"]}
                 /\ f # Placeholder => f = made + 1
           \/ \E w \in Workers, st \in {"completed", "failed"} :
                 history' \subseteq WithStatus(worker[w].id, st)
           \/ \E f \in Files : history' = dump[f].rows
<1>. USE DEF Without
<1>1. ASSUME NEW w \in Workers, TriggerInserts(w) \/ BackupInserts(w)
      PROVE  \E f \in Files \cup {Placeholder} :
                 /\ history' = history \cup {[id |-> nextId, file |-> f,
                                             status |-> "running"]}
                 /\ f # Placeholder => f = made + 1
  <2>1. CASE TriggerInserts(w)
    BY <2>1 DEF TriggerInserts, Insert
  <2>2. CASE BackupInserts(w)
    <3>1. made' = made + 1 /\ made' \in Files
      BY <2>2, BoundsAssumption DEF BackupInserts, BackupInv, RoomForOne, TypeOK, Files
    <3>. QED  BY <2>2, <3>1 DEF BackupInserts, Insert
  <2>. QED  BY <1>1, <2>1, <2>2
<1>2. ASSUME NEW w \in Workers, BackupCompletes(w) \/ FailureCommits(w)
      PROVE  \/ history' \subseteq history
             \/ \E st \in {"completed", "failed"} :
                   history' \subseteq WithStatus(worker[w].id, st)
  BY <1>2 DEF BackupCompletes, FailureCommits
<1>3. ASSUME NEW r \in Restorers, RestoreLoadsHistory(r)
      PROVE  \E f \in Files : history' = dump[f].rows
  BY <1>3 DEF RestoreLoadsHistory, BackupInv, SourceKnown
<1>4. ASSUME NEW w \in Workers, TriggerDeletes(w) \/ RetentionCommits(w)
      PROVE  history' \subseteq history
  BY <1>4 DEF TriggerDeletes, RetentionCommits
<1>5. ASSUME NEW d \in Deleters, DeleteSteps(d)
      PROVE  history' \subseteq history
  BY <1>5 DEF DeleteSteps, DeleteUnlinks, DeleteCommits
<1>6. ASSUME NEW w \in Workers,
             \/ ScheduleFires(w) \/ BackupSkips(w) \/ BackupLocks(w)
             \/ BackupBreaks(w) \/ DumpBegins(w) \/ DumpEnds(w) \/ DumpFails(w)
             \/ RetentionLoads(w) \/ RetentionLooks(w) \/ RetentionUnlinks(w)
             \/ FailureCleans(w) \/ BackupReleases(w)
      PROVE  history' = history
  BY <1>6 DEF ScheduleFires, BackupSkips, BackupLocks, BackupBreaks, DumpBegins,
     DumpEnds, DumpFails, RetentionLoads, RetentionLooks, RetentionUnlinks,
     FailureCleans, BackupReleases
<1>7. ASSUME NEW r \in Restorers,
             \/ RestoreChecks(r) \/ RestoreIsBusy(r) \/ RestoreLocks(r)
             \/ RestoreLeaks(r) \/ RestoreOpens(r) \/ RestoreEnds(r)
             \/ RestoreFails(r)
      PROVE  history' = history
  BY <1>7 DEF RestoreChecks, RestoreIsBusy, RestoreLocks, RestoreLeaks,
     RestoreOpens, RestoreEnds, RestoreFails
<1>8. ASSUME (\E d \in Deleters : DeleteLoads(d)) \/ Crash \/ UNCHANGED vars
      PROVE  history' = history
  BY <1>8 DEF DeleteLoads, Crash, vars
<1>. QED
  BY <1>1, <1>2, <1>3, <1>4, <1>5, <1>6, <1>7, <1>8 DEF Next, BackupSteps,
     RestoreSteps

\* Only the beginning of a dump changes what the dumps hold.
LEMMA DumpChange ==
    ASSUME BackupInv, [Next]_vars
    PROVE  \/ dump' = dump
           \/ \E w \in Workers : DumpBegins(w)
<1>1. ASSUME NEW w \in Workers,
             \/ TriggerInserts(w) \/ ScheduleFires(w)
             \/ BackupSteps(w) /\ ~DumpBegins(w)
      PROVE  dump' = dump
  BY <1>1 DEF BackupSteps, TriggerInserts, TriggerDeletes, ScheduleFires,
     BackupSkips, BackupLocks, BackupInserts, BackupBreaks, DumpEnds, DumpFails,
     BackupCompletes, RetentionLoads, RetentionLooks, RetentionUnlinks,
     RetentionCommits, FailureCommits, FailureCleans, BackupReleases
<1>2. ASSUME NEW r \in Restorers, RestoreChecks(r) \/ RestoreSteps(r)
      PROVE  dump' = dump
  BY <1>2 DEF RestoreSteps, RestoreChecks, RestoreIsBusy, RestoreLocks,
     RestoreLeaks, RestoreOpens, RestoreLoadsHistory, RestoreEnds, RestoreFails
<1>3. ASSUME NEW d \in Deleters, DeleteLoads(d) \/ DeleteSteps(d)
      PROVE  dump' = dump
  BY <1>3 DEF DeleteLoads, DeleteSteps, DeleteUnlinks, DeleteCommits
<1>4. ASSUME Crash \/ UNCHANGED vars PROVE dump' = dump
  BY <1>4 DEF Crash, vars
<1>. QED  BY <1>1, <1>2, <1>3, <1>4 DEF Next, BackupSteps

LEMMA TableKept == BackupInv /\ TableInv /\ [Next]_vars => TableInv'
<1>. SUFFICES ASSUME BackupInv, TableInv, [Next]_vars PROVE TableInv'
  OBVIOUS
<1>0. /\ TypeOK /\ history \subseteq Row /\ nextId \in Nat /\ made \in Nat
      /\ \A r \in history : r.id < nextId /\ r.file <= made
      /\ \A r \in history : r.id \in Nat /\ r.file \in Nat
  BY DEF BackupInv, TypeOK, RowsInv, RowsAreOld, Row, Files, Placeholder
<1>1. Keyed(history') /\ IsFiniteSet(history')
  <2>1. CASE history' \subseteq history
    BY <2>1, FS_Subset DEF TableInv, Keyed
  <2>2. ASSUME NEW f \in Files \cup {Placeholder},
               history' = history \cup {[id |-> nextId, file |-> f,
                                         status |-> "running"]},
               f # Placeholder => f = made + 1
        PROVE  Keyed(history') /\ IsFiniteSet(history')
    <3>1. IsFiniteSet(history')
      BY <2>2, FS_AddElement DEF TableInv
    <3>2. \A r \in history : r.id # nextId /\ (f # Placeholder => r.file # f)
      BY <1>0, <2>2
    <3>3. Keyed(history')
      BY <2>2, <3>2 DEF TableInv, Keyed
    <3>. QED  BY <3>1, <3>3
  <2>3. ASSUME NEW w \in Workers, NEW st \in {"completed", "failed"},
               history' \subseteq WithStatus(worker[w].id, st)
        PROVE  Keyed(history') /\ IsFiniteSet(history')
    BY <1>0, <2>3, WithStatusKeyed DEF TableInv
  <2>4. ASSUME NEW f \in Files, history' = dump[f].rows
        PROVE  Keyed(history') /\ IsFiniteSet(history')
    BY <2>4 DEF TableInv
  <2>. QED  BY <2>1, <2>2, <2>3, <2>4, TableChange
<1>2. ASSUME NEW f \in Files
      PROVE  Keyed(dump'[f].rows) /\ IsFiniteSet(dump'[f].rows)
  <2>1. CASE dump' = dump
    BY <2>1 DEF TableInv
  <2>2. ASSUME NEW w \in Workers, DumpBegins(w)
        PROVE  dump'[f].rows \in {history, dump[f].rows}
    BY <2>2, <1>0 DEF DumpBegins, TypeOK
  <2>. QED  BY <2>1, <2>2, DumpChange DEF TableInv
<1>. QED  BY <1>1, <1>2 DEF TableInv, Keyed

\* A step that completes no row, and forgets no row of a backup that is still
\* to be retained, keeps the bound.
LEMMA ShrinkKeeps ==
    ASSUME TypeOK, TableInv, BoundInv,
           Completed' \subseteq Completed,
           faults'.crash = faults.crash, UNCHANGED dump,
           \A w \in Workers : worker[w].pc \in Late =>
               \/ worker'[w].pc \in Late /\ worker'[w].id = worker[w].id
               \/ \A r \in Completed' : r.id # worker[w].id,
           \A w \in Workers : worker'[w].pc \in {"pruning", "unlinking"} =>
               /\ worker[w].pc \in {"pruning", "unlinking"}
               /\ \A r \in Completed' : r \notin worker'[w].doomed
                      /\ r.id \notin worker'[w].gone =>
                          r \notin worker[w].doomed /\ r.id \notin worker[w].gone
    PROVE  BoundInv'
<1>1. Others' \subseteq Others
  BY DEF Others, Late
<1>2. \A w \in Workers : worker'[w].pc \in {"pruning", "unlinking"} =>
          Spared(w)' \subseteq Spared(w) /\ worker[w].pc \in {"pruning", "unlinking"}
  BY DEF Spared
<1>3. Others \subseteq Completed /\ \A w \in Workers : Spared(w) \subseteq Completed
  BY DEF Others, Spared
<1>4. IsFiniteSet(Others) /\ \A w \in Workers : IsFiniteSet(Spared(w))
  BY <1>3, CompletedFinite
<1>5. Cardinality(Others') <= Retention + faults'.crash
  <2>1. Cardinality(Others') <= Cardinality(Others)
    BY <1>1, <1>4, SmallerSet
  <2>2. Cardinality(Others') \in Nat /\ Cardinality(Others) \in Nat
    BY <1>1, <1>4, SmallerSet
  <2>. QED  BY <2>1, <2>2, RetentionAssumption DEF BoundInv, TypeOK
<1>6. ASSUME NEW w \in Workers, worker'[w].pc \in {"pruning", "unlinking"}
      PROVE  Cardinality(Spared(w)') <= Retention
  <2>1. /\ Cardinality(Spared(w)') <= Cardinality(Spared(w))
        /\ Cardinality(Spared(w)') \in Nat /\ Cardinality(Spared(w)) \in Nat
    BY <1>2, <1>4, <1>6, SmallerSet
  <2>2. Cardinality(Spared(w)) <= Retention
    BY <1>2, <1>6 DEF BoundInv
  <2>. QED  BY <2>1, <2>2, RetentionAssumption
<1>. QED  BY <1>5, <1>6 DEF BoundInv, CompletedIn


LEMMA BoundKept ==
    BackupInv /\ TableInv /\ BoundInv /\ [Next]_vars => BoundInv'
<1>. SUFFICES ASSUME BackupInv, TableInv, BoundInv, [Next]_vars PROVE BoundInv'
  OBVIOUS
<1>. DEFINE InSection == \A v, w \in Workers :
                WorkerInSection(v) /\ WorkerInSection(w) => v = w
<1>0. TypeOK /\ InSection
  BY DEF BackupInv, LockInv, OneAtATime
<1>. USE <1>0, ShrinkKeeps, FaultKeepsCount
     DEF Late, WorkerMoves, RestorerMoves, WorkerInSection
<1>1. ASSUME NEW w \in Workers, TriggerInserts(w) PROVE BoundInv'
  BY <1>1 DEF TriggerInserts, Insert, Completed, TypeOK, Worker
<1>2. ASSUME NEW w \in Workers, TriggerDeletes(w) PROVE BoundInv'
  BY <1>2 DEF TriggerDeletes, IdleWorker, Without, Completed, TypeOK, Worker
<1>3. ASSUME NEW w \in Workers, ScheduleFires(w) PROVE BoundInv'
  BY <1>3 DEF ScheduleFires, Completed, TypeOK, Worker
<1>4. ASSUME NEW w \in Workers, BackupSkips(w) PROVE BoundInv'
  BY <1>4 DEF BackupSkips, IdleWorker, Completed, TypeOK, Worker
<1>5. ASSUME NEW w \in Workers, BackupLocks(w) PROVE BoundInv'
  BY <1>5 DEF BackupLocks, Completed, TypeOK, Worker
<1>6. ASSUME NEW w \in Workers, BackupInserts(w) PROVE BoundInv'
  BY <1>6 DEF BackupInserts, Insert, Completed, TypeOK, Worker
<1>7. ASSUME NEW w \in Workers, BackupBreaks(w) PROVE BoundInv'
  BY <1>7 DEF BackupBreaks, Completed, TypeOK, Worker
<1>8. ASSUME NEW w \in Workers, DumpBegins(w) PROVE BoundInv'
  <2>1. Others = Completed
    BY <1>8 DEF DumpBegins, Others, InSection
  <2>2. /\ Completed' = Completed /\ faults' = faults
        /\ \A v \in Workers : worker'[v].pc \notin Late
    BY <1>8 DEF DumpBegins, Completed, InSection, TypeOK, Worker
  <2>3. Others' = Completed
    BY <2>2 DEF Others
  <2>4. \A f \in Files : dump'[f].rows \in {history, dump[f].rows}
    BY <1>8 DEF DumpBegins, TypeOK
  <2>5. CompletedIn(history) = Completed
    BY DEF CompletedIn, Completed
  <2>6. \A f \in Files : Cardinality(CompletedIn(dump'[f].rows))
                           <= Retention + faults.crash
    BY <2>1, <2>4, <2>5 DEF BoundInv
  <2>. QED  BY <2>1, <2>2, <2>3, <2>6 DEF BoundInv, CompletedIn
<1>9. ASSUME NEW w \in Workers, DumpEnds(w) PROVE BoundInv'
  BY <1>9 DEF DumpEnds, Completed, TypeOK, Worker
<1>10. ASSUME NEW w \in Workers, DumpFails(w) PROVE BoundInv'
  BY <1>10 DEF DumpFails, Completed, TypeOK, Worker
<1>11. ASSUME NEW w \in Workers, BackupCompletes(w) PROVE BoundInv'
  <2>1. CASE WorkerMoves(w, "failing") /\ UNCHANGED history
    BY <1>11, <2>1 DEF BackupCompletes, Completed, InSection, TypeOK, Worker
  <2>2. CASE /\ history' = WithStatus(worker[w].id, "completed")
             /\ WorkerMoves(w, "completed")
    <3>1. /\ worker[w].pc = "dumped" /\ UNCHANGED <<dump, faults>>
          /\ worker' = [worker EXCEPT ![w].pc = "completed"]
      BY <1>11, <2>2 DEF BackupCompletes
    \* Of the rows that count, none is new.
    <3>2. \A x \in Completed' : x.id # worker[w].id => x \in Completed
      <4>. SUFFICES ASSUME NEW x \in Completed', x.id # worker[w].id
                    PROVE  x \in Completed
        OBVIOUS
      <4>1. PICK r \in history :
                x = IF r.id = worker[w].id THEN [r EXCEPT !.status = "completed"]
                                           ELSE r
        BY <2>2 DEF WithStatus, Completed
      <4>. QED  BY <4>1 DEF TypeOK, Row, Completed
    <3>3. worker'[w].pc \in Late /\ worker'[w].id = worker[w].id
      BY <3>1 DEF TypeOK, Worker
    <3>4. Others' \subseteq Others
      BY <3>1, <3>2, <3>3 DEF Others, InSection
    <3>5. \A v \in Workers : worker'[v].pc \notin {"pruning", "unlinking"}
      BY <3>1 DEF InSection, TypeOK, Worker
    <3>6. /\ Cardinality(Others') <= Cardinality(Others)
          /\ Cardinality(Others') \in Nat /\ Cardinality(Others) \in Nat
      BY <3>4, CompletedFinite, SmallerSet DEF Others
    <3>. QED  BY <3>1, <3>5, <3>6, RetentionAssumption DEF BoundInv, CompletedIn, TypeOK
  <2>. QED  BY <1>11, <2>1, <2>2 DEF BackupCompletes
<1>12. ASSUME NEW w \in Workers, RetentionLoads(w) PROVE BoundInv'
  <2>. DEFINE old == {r \in Completed : Cardinality(Newer(r)) >= Retention}
  \* What is not old is newer than the oldest of it, but for that one.
  <2>1. Cardinality(Completed \ old) <= Retention /\ IsFiniteSet(Completed \ old)
    <3>1. IsFiniteSet(Completed \ old)
      BY CompletedFinite
    <3>2. \A r \in Completed : r.file \in Nat /\ r.file # Placeholder
      BY DEF BackupInv, RowsInv, WholeIn, Completed, Files, Placeholder
    <3>3. \A r, s \in Completed \ old : r.file = s.file => r = s
      BY <3>2 DEF TableInv, Keyed, Completed
    <3>4. ASSUME NEW r \in Completed \ old
          PROVE  Cardinality({s \in Completed \ old : s.file > r.file}) < Retention
      <4>1. /\ {s \in Completed \ old : s.file > r.file} \subseteq Newer(r)
            /\ IsFiniteSet(Newer(r))
        BY CompletedFinite DEF Newer
      <4>2. ~ (Cardinality(Newer(r)) >= Retention)
        OBVIOUS
      <4>3. Cardinality(Newer(r)) \in Nat
        BY <4>1, FS_CardinalityType
      <4>. QED  BY <4>1, <4>2, <4>3, SmallerSet, RetentionAssumption
    <3>. HIDE DEF old
    <3>5. Retention \in Nat
      BY RetentionAssumption
    <3>. QED  BY <3>1, <3>2, <3>3, <3>4, <3>5, NewestAreFew
  <2>2. /\ worker[w].pc = "completed" /\ UNCHANGED <<history, dump, faults>>
        /\ Completed' = Completed
    BY <1>12 DEF RetentionLoads, Completed
  <2>3. CASE /\ ~Listed(worker[w].id) /\ WorkerMoves(w, "failing")
    BY <2>2, <2>3 DEF InSection, TypeOK, Worker
  <2>4. CASE old = {} /\ WorkerMoves(w, "closing")
    <3>1. Cardinality(Completed) <= Retention
      BY <2>1, <2>4
    <3>2. Others' \subseteq Completed
      BY <2>2 DEF Others
    <3>3. \A v \in Workers : worker'[v].pc \notin {"pruning", "unlinking"}
      BY <2>2, <2>4 DEF InSection, TypeOK, Worker
    <3>4. Cardinality(Others') <= Retention /\ Cardinality(Others') \in Nat
      BY <3>1, <3>2, CompletedFinite, SmallerSet, RetentionAssumption
    <3>. QED  BY <2>2, <3>3, <3>4, RetentionAssumption DEF BoundInv, CompletedIn, TypeOK
  <2>5. CASE worker' = [worker EXCEPT ![w].pc = "pruning", ![w].doomed = old]
    <3>1. /\ worker'[w].pc = "pruning" /\ worker'[w].doomed = old
          /\ worker'[w].id = worker[w].id
          /\ \A v \in Workers : v # w => worker'[v].pc \notin Late
      BY <2>2, <2>5 DEF InSection, TypeOK, Worker
    <3>2. Spared(w)' \subseteq Completed \ old
      BY <2>2, <3>1 DEF Spared
    <3>3. Cardinality(Spared(w)') <= Retention
      <4>. HIDE DEF old
      <4>. QED  BY <2>1, <3>2, SmallerSet, RetentionAssumption
    <3>4. Others' = Others
      BY <2>2, <3>1 DEF Others, InSection
    <3>. HIDE DEF old
    <3>. QED  BY <2>2, <3>1, <3>3, <3>4 DEF BoundInv, CompletedIn
  <2>. QED  BY <1>12, <2>3, <2>4, <2>5 DEF RetentionLoads
<1>13. ASSUME NEW w \in Workers, RetentionLooks(w) PROVE BoundInv'
  BY <1>13 DEF RetentionLooks, Dropped, Completed, TypeOK, Worker
<1>14. ASSUME NEW w \in Workers, RetentionUnlinks(w) PROVE BoundInv'
  BY <1>14 DEF RetentionUnlinks, Dropped, Completed, TypeOK, Worker
<1>15. ASSUME NEW w \in Workers, RetentionCommits(w) PROVE BoundInv'
  <2>1. /\ worker[w].pc = "pruning" /\ worker[w].doomed = {}
        /\ history' = Without(worker[w].gone) /\ UNCHANGED <<dump, faults>>
        /\ worker' = [worker EXCEPT ![w].pc = "closing"]
    BY <1>15 DEF RetentionCommits
  <2>2. Completed' = Spared(w)
    BY <2>1 DEF Completed, Spared, Without
  <2>3. Cardinality(Spared(w)) <= Retention
    BY <2>1 DEF BoundInv
  <2>4. \A v \in Workers : worker'[v].pc \notin Late
    BY <2>1 DEF InSection, TypeOK, Worker
  <2>7. Others' = Completed'
    BY <2>4 DEF Others
  <2>5. Cardinality(Spared(w)) \in Nat
    BY CompletedFinite DEF Spared
  <2>6. Cardinality(Others') <= Retention + faults.crash
    BY <2>2, <2>3, <2>7, <2>5, RetentionAssumption DEF TypeOK
  <2>. QED  BY <2>1, <2>4, <2>6 DEF BoundInv, CompletedIn, Late
<1>16. ASSUME NEW w \in Workers, FailureCommits(w) PROVE BoundInv'
  <2>1. CASE ~Listed(worker[w].id)
    BY <1>16, <2>1 DEF FailureCommits, Listed, Completed, InSection, TypeOK, Worker
  <2>2. CASE Listed(worker[w].id)
    <3>1. /\ worker[w].pc = "failing" /\ UNCHANGED <<dump, faults>>
          /\ history' \subseteq WithStatus(worker[w].id, "failed")
          /\ worker' = [worker EXCEPT ![w].pc = "failed"]
      BY <1>16, <2>2 DEF FailureCommits
    <3>2. \A x \in Completed' : x \in Completed /\ x.id # worker[w].id
      <4>. SUFFICES ASSUME NEW x \in Completed'
                    PROVE  x \in Completed /\ x.id # worker[w].id
        OBVIOUS
      <4>1. PICK r \in history :
                x = IF r.id = worker[w].id THEN [r EXCEPT !.status = "failed"]
                                           ELSE r
        BY <3>1 DEF WithStatus, Completed
      <4>2. x.status = "completed"
        BY DEF Completed
      <4>. QED  BY <4>1, <4>2 DEF TypeOK, Row, Completed
    <3>. QED  BY <3>1, <3>2 DEF InSection, TypeOK, Worker
  <2>. QED  BY <2>1, <2>2
<1>17. ASSUME NEW w \in Workers, FailureCleans(w) PROVE BoundInv'
  BY <1>17 DEF FailureCleans, Completed, TypeOK, Worker
<1>18. ASSUME NEW w \in Workers, BackupReleases(w) PROVE BoundInv'
  BY <1>18 DEF BackupReleases, IdleWorker, Completed, TypeOK, Worker
<1>19. ASSUME NEW r \in Restorers, RestoreChecks(r) PROVE BoundInv'
  BY <1>19 DEF RestoreChecks, Completed, TypeOK
<1>20. ASSUME NEW r \in Restorers, RestoreIsBusy(r) PROVE BoundInv'
  BY <1>20 DEF RestoreIsBusy, Completed, TypeOK
<1>21. ASSUME NEW r \in Restorers, RestoreLocks(r) PROVE BoundInv'
  BY <1>21 DEF RestoreLocks, Completed, TypeOK
<1>22. ASSUME NEW r \in Restorers, RestoreLeaks(r) PROVE BoundInv'
  BY <1>22 DEF RestoreLeaks, Completed, TypeOK
<1>23. ASSUME NEW r \in Restorers, RestoreOpens(r) PROVE BoundInv'
  BY <1>23 DEF RestoreOpens, RestoreReleases, Completed, TypeOK
<1>24. ASSUME NEW r \in Restorers, RestoreLoadsHistory(r) PROVE BoundInv'
  <2>1. /\ restorer[r].pc = "piping" /\ UNCHANGED <<dump, worker, faults>>
        /\ history' = dump[restorer[r].file].rows /\ restorer[r].file \in Files
    BY <1>24 DEF RestoreLoadsHistory, BackupInv, SourceKnown
  <2>2. \A w \in Workers : worker[w].pc \notin Late
    BY <2>1 DEF BackupInv, LockInv, OneAtATime, WorkerInSection, RestorerInSection
  <2>3. Others' = CompletedIn(dump[restorer[r].file].rows)
    BY <2>1, <2>2 DEF Others, Completed, CompletedIn
  <2>. QED  BY <2>1, <2>2, <2>3 DEF BoundInv, CompletedIn
<1>25. ASSUME NEW r \in Restorers, RestoreEnds(r) PROVE BoundInv'
  BY <1>25 DEF RestoreEnds, RestoreReleases, Completed, TypeOK
<1>26. ASSUME NEW r \in Restorers, RestoreFails(r) PROVE BoundInv'
  BY <1>26 DEF RestoreFails, RestoreReleases, Completed, TypeOK
<1>27. ASSUME NEW d \in Deleters, DeleteLoads(d) PROVE BoundInv'
  BY <1>27 DEF DeleteLoads, Completed, TypeOK
<1>28. ASSUME NEW d \in Deleters, DeleteUnlinks(d) PROVE BoundInv'
  BY <1>28 DEF DeleteUnlinks, Completed, TypeOK
<1>29. ASSUME NEW d \in Deleters, DeleteCommits(d) PROVE BoundInv'
  BY <1>29 DEF DeleteCommits, Without, Completed, TypeOK
<1>30. CASE Crash
  <2>1. /\ faults'.crash = faults.crash + 1 /\ UNCHANGED <<history, dump>>
        /\ faults.crash \in Nat /\ Retention \in Nat
        /\ \A w \in Workers : worker'[w].pc = "idle"
    BY <1>30, RetentionAssumption DEF Crash, Fault, IdleWorker, TypeOK
  <2>2. Others' = Completed
    BY <2>1 DEF Others, Completed
  \* One backup was at work, and it has one row.
  <2>3. \E x : Completed \subseteq Others \cup {x}
    <3>1. CASE \A w \in Workers : worker[w].pc \notin Late
      BY <3>1 DEF Others
    <3>2. ASSUME NEW w \in Workers, worker[w].pc \in Late
          PROVE  \E x : Completed \subseteq Others \cup {x}
      <4>1. \A v \in Workers : v # w => worker[v].pc \notin Late
        BY <3>2
      <4>2. \A r \in Completed : r.id # worker[w].id => r \in Others
        BY <4>1 DEF Others
      <4>3. \A r, s \in Completed : r.id = worker[w].id /\ s.id = worker[w].id => r = s
        BY DEF TableInv, Keyed, Completed
      <4>4. \A r \in Completed : r.id = worker[w].id => Completed \subseteq Others \cup {r}
        BY <4>2, <4>3
      <4>. QED  BY <4>2, <4>4
    <3>. QED  BY <3>1, <3>2
  <2>4. PICK x : Completed \subseteq Others \cup {x}
    BY <2>3
  <2>5. IsFiniteSet(Others) /\ Cardinality(Others) \in Nat
    BY CompletedFinite, FS_CardinalityType DEF Others
  <2>6. /\ IsFiniteSet(Others \cup {x})
        /\ Cardinality(Others \cup {x}) <= Cardinality(Others) + 1
    BY <2>5, FS_AddElement
  <2>7. Cardinality(Completed) <= Cardinality(Others) + 1
    BY <2>4, <2>5, <2>6, SmallerSet
  <2>8. Cardinality(Others') <= Retention + faults'.crash
    BY <2>1, <2>2, <2>5, <2>7, CompletedFinite DEF BoundInv
  <2>9. ASSUME NEW f \in Files
        PROVE  Cardinality(CompletedIn(dump'[f].rows)) <= Retention + faults'.crash
    <3>1. Cardinality(CompletedIn(dump[f].rows)) \in Nat
      BY FS_Subset, FS_CardinalityType DEF TableInv, CompletedIn
    <3>2. Cardinality(CompletedIn(dump[f].rows)) <= Retention + faults.crash
      BY DEF BoundInv
    <3>. QED  BY <2>1, <3>1, <3>2
  <2>. QED  BY <2>1, <2>8, <2>9 DEF BoundInv, CompletedIn
<1>31. CASE UNCHANGED vars
  BY <1>31 DEF vars, Completed
<1>. QED
  BY <1>1, <1>2, <1>3, <1>4, <1>5, <1>6, <1>7, <1>8, <1>9, <1>10, <1>11,
     <1>12, <1>13, <1>14, <1>15, <1>16, <1>17, <1>18, <1>19, <1>20, <1>21,
     <1>22, <1>23, <1>24, <1>25, <1>26, <1>27, <1>28, <1>29, <1>30, <1>31
  DEF Next, BackupSteps, RestoreSteps, DeleteSteps

-----------------------------------------------------------------------------
(* Theorems.                                                                *)

\* The inductive invariant of backups, restores and deletions.
THEOREM BackupInvariant == Spec => []BackupInv
<1>1. Init => BackupInv
  <2>. SUFFICES ASSUME Init PROVE BackupInv
    OBVIOUS
  <2>1. LockInv
    BY DEF Init, LockInv, Busy, OneAtATime, WorkerInSection, RestorerInSection,
       IdleWorker, IdleRestorer
  <2>2. RowsInv /\ SourceKnown /\ RoomForOne
    BY DEF Init, RowsInv, RowsAreOld, DumpsAreOld, OwnRow, Unfinished,
       DumpedIsWhole, WholeIn, NotDoneIn, Named, SourceKnown, RoomForOne,
       IdleWorker, IdleRestorer
  <2>. QED  BY <2>1, <2>2, InitTyped DEF BackupInv
<1>2. BackupInv /\ [Next]_vars => BackupInv'
  BY StepTyped, LockKept, RowsKept DEF BackupInv
<1>. QED  BY <1>1, <1>2, PTL DEF Spec

\* Type correctness of the backup service (services/backup.py).
THEOREM BackupTyped == Spec => []TypeOK
<1>1. BackupInv => TypeOK
  BY DEF BackupInv
<1>. QED  BY <1>1, BackupInvariant, PTL

\* README.md:360: one backup or restore at a time, for any number of threads
\* and requests, also when operations fail or leak the lock.
THEOREM OneOperationAtATime == Spec => []OneAtATime
<1>1. BackupInv => OneAtATime
  BY DEF BackupInv, LockInv
<1>. QED  BY <1>1, BackupInvariant, PTL

\* What run_backup records as completed, and _enforce_retention, delete_backup
\* and run_restore leave listed, never has half a file.
THEOREM CompletedAreWhole == Spec => []CompletedIsWhole
<1>1. BackupInv => CompletedIsWhole
  BY DEF BackupInv, RowsInv, WholeIn, CompletedIsWhole, Completed
<1>. QED  BY <1>1, BackupInvariant, PTL
\* The except branch of run_backup removes what it has written: without a crash,
\* no failed backup of the history leaves a file, also after deletions, failed
\* retentions and restores of old histories that hold failed backups.
THEOREM FailedAreCleanedUp == Spec => []FailedIsCleanedUp
<1>1. Init => FailedInv
  BY DEF Init, FailedInv, CleanOrFailing, Fresh, CleanIn, IdleWorker
<1>2. BackupInv /\ FailedInv /\ [Next]_vars => FailedInv'
  BY FailedKept
<1>3. FailedInv => FailedIsCleanedUp
  BY DEF FailedInv, CleanOrFailing, FailedIsCleanedUp
<1>. QED  BY <1>1, <1>2, <1>3, BackupInvariant, PTL DEF Spec

\* _enforce_retention: outside of a backup the history lists at most `Retention`
\* completed backups and one for each crash, whatever deletions, failures and
\* restores of old histories came between.
THEOREM HistoryStaysBounded == Spec => []HistoryIsBounded
<1>1. Init => TableInv /\ BoundInv
  <2>. SUFFICES ASSUME Init PROVE TableInv /\ BoundInv
    OBVIOUS
  <2>1. /\ history = {} /\ \A f \in Files : dump[f].rows = {}
        /\ faults.crash = 0 /\ \A w \in Workers : worker[w].pc = "idle"
    BY DEF Init, IdleWorker
  <2>2. Others = {} /\ \A f \in Files : CompletedIn(dump[f].rows) = {}
    BY <2>1 DEF Others, Completed, CompletedIn
  <2>3. TableInv
    BY <2>1, FS_EmptySet DEF TableInv, Keyed
  <2>4. 0 <= Retention + faults.crash
    BY <2>1, RetentionAssumption
  <2>5. BoundInv
    BY <2>1, <2>2, <2>4, FS_EmptySet DEF BoundInv
  <2>. QED  BY <2>3, <2>5
<1>2. BackupInv /\ TableInv /\ BoundInv /\ [Next]_vars => TableInv' /\ BoundInv'
  BY TableKept, BoundKept
<1>3. BoundInv => HistoryIsBounded
  <2>1. ASSUME BoundInv, \A w \in Workers : worker[w].pc \notin Late
        PROVE  Cardinality(Completed) <= Retention + faults.crash
    BY <2>1, Others = Completed DEF BoundInv, Others
  <2>. QED  BY <2>1 DEF HistoryIsBounded, Late
<1>. QED  BY <1>1, <1>2, <1>3, BackupInvariant, PTL DEF Spec
===============================================================================
