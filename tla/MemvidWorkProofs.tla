-------------------------- MODULE MemvidWorkProofs --------------------------
(***************************************************************************)
(* The lock file lets one process in at a time, whatever dies and whenever *)
(* a write fails, until a forced removal hits the lock of a process that   *)
(* still runs; and until anything is forced, the registry names the        *)
(* creator of the lock file. Both follow from what the lock file and the   *)
(* records say of a process at each place of acquire, heartbeat and drop.  *)
(*                                                                         *)
(* A crash makes the enrichment worker redo at most the tasks since its    *)
(* last commit, because the queue in memory and the one on disk differ by  *)
(* one task more for each it has counted.                                  *)
(***************************************************************************)
EXTENDS LockFile, EnrichmentQueue, FiniteSetTheorems, TLAPS

\* Whoever is between the creation and the removal of the lock file created
\* the one that is there.
OwnerHasFile ==
  removed # "live" => \A p \in Processes : pc[p] \in Owning => lockFile = p

Recorded(i) == registry[i].is = "record"

\* Before anything was forced: nobody is in the middle of a removal, every
\* record belongs to the lock file, a process that has not written its record
\* or has removed it leaves none, and a holder has none but its own.
RecordsFollow ==
  removed = "none" =>
    /\ \A p \in Processes : pc[p] # "unlink"
    /\ \A i \in FileIds : Recorded(i) => registry[i].owner = lockFile
    /\ \A p \in Processes, i \in FileIds :
         Recorded(i) =>
           /\ pc[p] \notin {"open", "fill", "release"}
           /\ pc[p] \in {"held", "reopen", "refill"} => i = fileId[p]

\* The inductive invariant of the lock file.
LockInv == LockTypeOK /\ OwnerHasFile /\ RecordsFollow

-----------------------------------------------------------------------------
\* A record is written, torn or
\* absent.
LEMMA RecordKinds ==
  ASSUME NEW r \in Records
  PROVE  /\ r.is \in {"absent", "torn", "record"}
         /\ r.is = "record" => r.owner \in Processes
BY DEF Records, NoRecord, Torn, Complete

LEMMA InitHolds == LockInit => LockInv
<1> SUFFICES ASSUME LockInit PROVE LockInv
  OBVIOUS
<1> USE LockAssumption DEF LockInit
<1>1. LockTypeOK
  BY DEF LockTypeOK, FileIds, Records, Places
<1>2. OwnerHasFile
  BY DEF OwnerHasFile, Owning
<1>3. RecordsFollow
  BY DEF RecordsFollow, Recorded, NoRecord
<1> QED
  BY <1>1, <1>2, <1>3 DEF LockInv

\* Every step keeps the types.
LEMMA TypeStep == LockTypeOK /\ [LockNext]_lockVars => LockTypeOK'
<1> SUFFICES ASSUME LockTypeOK, [LockNext]_lockVars PROVE LockTypeOK'
  OBVIOUS
<1> USE LockAssumption DEF LockTypeOK, Moves
<1>1. CASE UNCHANGED lockVars
  BY <1>1 DEF lockVars
<1>2. CASE Tick
  BY <1>2 DEF Tick
<1>3. ASSUME NEW p \in Processes, LockStep(p) PROVE LockTypeOK'
  <2> USE DEF Places
  <2>1. CASE Begin(p)
    BY <2>1 DEF Begin
  <2>2. CASE Create(p) \/ Blocked(p)
    BY <2>2 DEF Create, Blocked
  <2>3. CASE OpenRecord(p)
    BY <2>3 DEF OpenRecord, Records
  <2>4. CASE FillRecord(p)
    <3>1. Complete(p, beat[p]) \in Records
      BY DEF Records
    <3> QED
      BY <2>4, <3>1 DEF FillRecord
  <2>5. CASE WriteFails(p)
    BY <2>5 DEF WriteFails
  <2>6. CASE Look(p)
    BY <2>6 DEF Look
  <2>7. CASE ClearRecord(p) \/ ReleaseRecord(p)
    BY <2>7 DEF ClearRecord, ReleaseRecord, Records
  <2>8. CASE ClearLock(p) \/ ReleaseLock(p)
    BY <2>8 DEF ClearLock, ReleaseLock
  <2>9. CASE Heartbeat(p)
    BY <2>9 DEF Heartbeat
  <2>10. CASE ChangeHeader(p)
    BY <2>10, SMTT(60) DEF ChangeHeader, FileIds
  <2>11. CASE Die(p)
    BY <2>11 DEF Die
  <2> QED
    BY <1>3, <2>1, <2>2, <2>3, <2>4, <2>5, <2>6, <2>7, <2>8, <2>9, <2>10, <2>11
       DEF LockStep
<1> QED
  BY <1>1, <1>2, <1>3 DEF LockNext

\* No step lets a process own a lock file that is not there: the creator
\* finds none, and a removal that hits an owner is remembered.
LEMMA FileStep == LockInv /\ [LockNext]_lockVars => OwnerHasFile'
<1> SUFFICES ASSUME LockInv, [LockNext]_lockVars,
                    removed' # "live",
                    NEW q \in Processes, pc'[q] \in Owning
             PROVE  lockFile' = q
  BY DEF OwnerHasFile
<1> USE DEF LockInv, LockTypeOK, Moves, Owning
<1>1. CASE UNCHANGED lockVars
  BY <1>1 DEF lockVars, OwnerHasFile
<1>2. CASE Tick
  BY <1>2 DEF Tick, OwnerHasFile
<1>3. ASSUME NEW p \in Processes, LockStep(p) PROVE lockFile' = q
  <2> USE LockAssumption DEF OwnerHasFile
  <2>1. CASE Begin(p) \/ Blocked(p) \/ Look(p) \/ Die(p)
    BY <2>1 DEF Begin, Blocked, Look, Die
  <2>2. CASE Create(p)
    BY <2>2 DEF Create
  <2>3. CASE OpenRecord(p) \/ FillRecord(p) \/ Heartbeat(p) \/ ReleaseRecord(p)
    BY <2>3 DEF OpenRecord, FillRecord, Heartbeat, ReleaseRecord
  <2>4. CASE WriteFails(p) \/ ReleaseLock(p)
    BY <2>4 DEF WriteFails, ReleaseLock
  <2>5. CASE ClearRecord(p) \/ ChangeHeader(p)
    BY <2>5 DEF ClearRecord, ChangeHeader
  <2>6. CASE ClearLock(p)
    <3>1. ~LiveOwner /\ removed # "live"
      BY <2>6 DEF ClearLock
    <3>2. q # p /\ pc[q] \in Owning
      BY <2>6 DEF ClearLock
    <3> QED
      BY <3>1, <3>2 DEF LiveOwner
  <2> QED
    BY <1>3, <2>1, <2>2, <2>3, <2>4, <2>5, <2>6 DEF LockStep
<1> QED
  BY <1>1, <1>2, <1>3 DEF LockNext

\* Until something is forced, the records stay with the lock file.
LEMMA RecordsStep == LockInv /\ [LockNext]_lockVars => RecordsFollow'
<1> SUFFICES ASSUME LockInv, [LockNext]_lockVars, removed' = "none"
             PROVE  RecordsFollow'
  BY DEF RecordsFollow
<1>0. LockTypeOK /\ removed = "none"
  <2>1. LockTypeOK
    BY DEF LockInv
  <2>2. CASE UNCHANGED removed
    BY <2>1, <2>2
  <2>3. ASSUME NEW p \in Processes, ClearRecord(p) \/ ClearLock(p)
        PROVE  removed = "none"
    BY <2>1, <2>3 DEF ClearRecord, ClearLock, LockTypeOK
  <2> QED
    BY <2>1, <2>2, <2>3 DEF LockNext, LockStep, Tick, Begin, Create, Blocked,
       OpenRecord, FillRecord, WriteFails, Look, Heartbeat, ReleaseRecord,
       ReleaseLock, ChangeHeader, Die, lockVars
<1>1. /\ \A p \in Processes : pc[p] # "unlink"
      /\ \A p \in Processes : pc[p] \in Owning => lockFile = p
      /\ \A i \in FileIds : Recorded(i) => registry[i].owner = lockFile
      /\ \A p \in Processes, i \in FileIds :
           Recorded(i) =>
             /\ pc[p] \notin {"open", "fill", "release"}
             /\ pc[p] \in {"held", "reopen", "refill"} => i = fileId[p]
  BY <1>0 DEF LockInv, RecordsFollow, OwnerHasFile
<1>2. \A i \in FileIds : Recorded(i) => lockFile # Nobody
  BY <1>0, <1>1, RecordKinds, LockAssumption DEF LockTypeOK, Recorded
<1>3. CASE UNCHANGED lockVars \/ Tick
  BY <1>1, <1>3 DEF lockVars, Tick, RecordsFollow, Recorded
<1>4. ASSUME NEW p \in Processes, LockStep(p) PROVE RecordsFollow'
  <2> USE <1>0, <1>1 DEF LockTypeOK, Moves, RecordsFollow, Recorded, Owning
  <2>1. CASE Begin(p) \/ Blocked(p) \/ Look(p) \/ Die(p)
    BY <2>1 DEF Begin, Blocked, Look, Die
  <2>2. CASE Create(p)
    BY <1>2, <2>2 DEF Create
  <2>3. CASE OpenRecord(p)
    BY <2>3 DEF OpenRecord, Torn
  <2>4. CASE FillRecord(p)
    BY <2>4 DEF FillRecord, Complete
  <2>5. CASE WriteFails(p)
    BY <2>5 DEF WriteFails
  <2>6. CASE ClearRecord(p)
    BY <2>6 DEF ClearRecord
  <2>7. CASE ClearLock(p)
    BY <2>7 DEF ClearLock
  <2>8. CASE Heartbeat(p) \/ ChangeHeader(p)
    BY <2>8 DEF Heartbeat, ChangeHeader
  <2>9. CASE ReleaseRecord(p)
    BY <2>9 DEF ReleaseRecord, NoRecord
  <2>10. CASE ReleaseLock(p)
    BY <2>10 DEF ReleaseLock
  <2> QED
    BY <1>4, <2>1, <2>2, <2>3, <2>4, <2>5, <2>6, <2>7, <2>8, <2>9, <2>10
       DEF LockStep
<1> QED
  BY <1>3, <1>4 DEF LockNext

\* The inductive invariant holds at every step of the processes.
THEOREM LockInvariant == LockSpec => []LockInv
<1>1. LockInv /\ [LockNext]_lockVars => LockInv'
  BY TypeStep, FileStep, RecordsStep DEF LockInv
<1> QED
  BY <1>1, InitHolds, PTL DEF LockSpec

\* Type correctness of the lock file, the registry and the processes.
THEOREM LockTypeCorrect == LockSpec => []LockTypeOK
<1>1. LockInv => LockTypeOK
  BY DEF LockInv
<1> QED
  BY <1>1, LockInvariant, PTL

\* Two processes are between the creation and the removal of their lock file
\* (acquire and drop of lockfile.rs) only after a forced removal of the lock
\* of a process that still ran.
THEOREM OneHolderHolds == LockSpec => []OneHolder
<1>1. LockInv => OneHolder
  BY DEF LockInv, OwnerHasFile, OneHolder
<1> QED
  BY <1>1, LockInvariant, PTL

\* Until a removal is forced, current_owner of registry.rs names the creator
\* of the lock file that is there.
THEOREM OwnerNamedHolds == LockSpec => []OwnerNamed
<1>1. LockInv => OwnerNamed
  <2> SUFFICES ASSUME LockInv, removed = "none", registry[header].is = "record"
               PROVE  registry[header].owner = lockFile
    BY DEF OwnerNamed, CurrentOwner
  <2> QED
    BY DEF LockInv, LockTypeOK, RecordsFollow, Recorded
<1> QED
  BY <1>1, LockInvariant, PTL

-----------------------------------------------------------------------------
\* The tasks a crash would bring back.
Redone == onDisk.queue \ queue

\* The inductive invariant of the worker: it has counted the tasks that the
\* disk still has and memory has not, and counts less than an interval but
\* at the commit that is due.
RedoInv ==
  /\ queue \subseteq 1..MaxPuts
  /\ onDisk.queue \subseteq 1..MaxPuts
  /\ phase \in {"off", "take", "process", "complete", "checkpoint"}
  /\ since \in 0..CheckpointInterval
  /\ phase = "off" => since = 0
  /\ phase \in {"take", "process", "complete"} => since < CheckpointInterval
  /\ ~broken => Cardinality(Redone) <= since

\* Whatever is on the disk, finitely many tasks would be redone.
LEMMA RedoneFinite ==
  ASSUME RedoInv
  PROVE  IsFiniteSet(Redone) /\ Cardinality(Redone) \in Nat
<1>1. IsFiniteSet(1..MaxPuts)
  BY FS_Interval, EnrichAssumption
<1>2. Redone \subseteq 1..MaxPuts
  BY DEF RedoInv, Redone
<1> QED
  BY <1>1, <1>2, FS_Subset, FS_CardinalityType

\* After a commit nothing would be redone.
LEMMA SavedNothingRedone ==
  ASSUME NEW fs, NEW tasks, NEW records, SaveAll(fs, tasks, records)
  PROVE  /\ queue' = tasks
         /\ onDisk'.queue = tasks
         /\ Cardinality(Redone') = 0
<1>1. queue' = tasks /\ onDisk'.queue = tasks
  BY DEF SaveAll
<1>2. Redone' = {}
  BY <1>1 DEF Redone
<1> QED
  BY <1>1, <1>2, FS_EmptySet

\* A task more in memory, or none that goes, adds nothing to redo.
LEMMA RedoneShrinks ==
  ASSUME RedoInv, ~broken, UNCHANGED onDisk, queue \subseteq queue'
  PROVE  Cardinality(Redone') <= Cardinality(Redone)
<1>1. Redone' \subseteq Redone
  BY DEF Redone
<1> QED
  BY <1>1, RedoneFinite, FS_Subset

\* The writers leave the worker alone; a put only adds a task to memory.
LEMMA WriterStep ==
  ASSUME RedoInv,
         \/ \E seq \in 1..MaxPuts, waits, fills \in BOOLEAN : Put(seq, waits, fills)
         \/ \E id \in 0..MaxPuts : DeleteFrame(id)
         \/ Commit
  PROVE  RedoInv'
<1> USE EnrichAssumption
<1>1. Commit => RedoInv'
  <2> SUFFICES ASSUME Commit PROVE RedoInv'
    OBVIOUS
  <2>1. /\ queue' = queue /\ onDisk'.queue = queue
        /\ Cardinality(Redone') = 0
    BY SavedNothingRedone DEF Commit, Save
  <2> QED
    BY <2>1 DEF RedoInv, Commit, workerVars
<1>2. ASSUME NEW id \in 0..MaxPuts, DeleteFrame(id) PROVE RedoInv'
  <2>1. UNCHANGED <<queue, onDisk, phase, since, broken>>
    BY <1>2 DEF DeleteFrame, workerVars
  <2>2. Redone' = Redone
    BY <2>1 DEF Redone
  <2> QED
    BY <2>1, <2>2 DEF RedoInv
<1>3. ASSUME NEW seq \in 1..MaxPuts, NEW waits \in BOOLEAN, NEW fills \in BOOLEAN,
             Put(seq, waits, fills)
      PROVE  RedoInv'
  <2> DEFINE tasks == IF waits THEN queue \cup {seq} ELSE queue
  <2>1. UNCHANGED <<phase, since, broken>> /\ queue \subseteq tasks /\ tasks \subseteq 1..MaxPuts
    BY <1>3 DEF Put, workerVars, RedoInv
  <2>2. CASE fills
    <3>1. \E fs, records : SaveAll(fs, tasks, records)
      BY <1>3, <2>2 DEF Put
    <3>2. queue' = tasks /\ onDisk'.queue = tasks /\ Cardinality(Redone') = 0
      BY <3>1, SavedNothingRedone
    <3> QED
      BY <2>1, <3>2 DEF RedoInv
  <2>3. CASE ~fills
    <3>1. queue' = tasks /\ UNCHANGED onDisk
      BY <1>3, <2>3 DEF Put
    <3>2. ~broken => Cardinality(Redone') <= Cardinality(Redone)
      BY <2>1, <3>1, RedoneShrinks
    <3>3. IsFiniteSet(Redone') /\ Cardinality(Redone') \in Nat
      <4>1. onDisk'.queue = onDisk.queue /\ onDisk.queue \subseteq 1..MaxPuts
        BY <3>1 DEF RedoInv
      <4>2. Redone' \subseteq 1..MaxPuts
        BY <4>1 DEF Redone
      <4>3. IsFiniteSet(1..MaxPuts)
        BY FS_Interval, EnrichAssumption
      <4> QED
        BY <4>2, <4>3, FS_Subset, FS_CardinalityType
    <3> QED
      BY <2>1, <3>1, <3>2, <3>3, RedoneFinite DEF RedoInv
  <2> QED
    BY <2>2, <2>3
<1> QED
  BY <1>1, <1>2, <1>3

\* A commit of the worker, or its failure, starts the count anew.
LEMMA CountRestarts ==
  ASSUME RedoInv, TryCommit, since' = 0, phase' \in {"off", "take"}
  PROVE  RedoInv'
<1> USE EnrichAssumption
<1>1. CASE Save /\ UNCHANGED broken
  <2>1. queue' = queue /\ onDisk'.queue = queue /\ Cardinality(Redone') = 0
    BY <1>1, SavedNothingRedone DEF Save
  <2> QED
    BY <1>1, <2>1 DEF RedoInv
<1>2. CASE UNCHANGED fileVars /\ broken' = TRUE
  BY <1>2 DEF RedoInv, fileVars
<1> QED
  BY <1>1, <1>2 DEF TryCommit

\* A task that is done leaves the queue in memory and is counted.
LEMMA CompleteStep ==
  ASSUME RedoInv, CompleteTask
  PROVE  RedoInv'
<1> USE EnrichAssumption
<1>1. /\ phase = "complete" /\ since' = since + 1 /\ queue' = queue \ {task}
      /\ UNCHANGED <<onDisk, broken>>
      /\ phase' = IF since + 1 >= CheckpointInterval THEN "checkpoint" ELSE "take"
  BY DEF CompleteTask, Due, Dequeued
<1>2. /\ since' \in 0..CheckpointInterval
      /\ phase' \in {"take", "checkpoint"}
      /\ phase' = "take" => since' < CheckpointInterval
  BY <1>1 DEF RedoInv
<1>3. ~broken => Cardinality(Redone') <= since'
  <2>1. Redone' \subseteq Redone \cup {task}
    BY <1>1 DEF Redone
  <2>2. IsFiniteSet(Redone \cup {task})
        /\ Cardinality(Redone \cup {task}) <= Cardinality(Redone) + 1
    BY RedoneFinite, FS_AddElement
  <2>3. Cardinality(Redone') <= Cardinality(Redone \cup {task})
        /\ Cardinality(Redone') \in Nat /\ Cardinality(Redone \cup {task}) \in Nat
    BY <2>1, <2>2, FS_Subset, FS_CardinalityType
  <2> QED
    BY <1>1, <2>2, <2>3, RedoneFinite DEF RedoInv
<1> QED
  BY <1>1, <1>2, <1>3 DEF RedoInv

\* The worker, with and without embeddings.
LEMMA WorkerRedo ==
  ASSUME RedoInv, Worker \/ Start \/ Stop \/ EnrichWithEmbeddings
  PROVE  RedoInv'
<1> USE EnrichAssumption
<1>1. Take \/ Process \/ Start \/ Stop => RedoInv'
  <2> SUFFICES ASSUME Take \/ Process \/ Start \/ Stop PROVE RedoInv'
    OBVIOUS
  <2>1. UNCHANGED <<queue, onDisk, broken>>
    BY DEF Take, Process, Start, Stop, fileVars
  <2>2. Redone' = Redone
    BY <2>1 DEF Redone
  <2> QED
    BY <2>1, <2>2 DEF RedoInv, Take, Process, Start, Stop
<1>2. CompleteTask => RedoInv'
  BY CompleteStep
<1>3. Checkpoint => RedoInv'
  BY CountRestarts DEF Checkpoint
<1>4. Finish => RedoInv'
  <2> SUFFICES ASSUME Finish PROVE RedoInv'
    OBVIOUS
  <2>1. CASE since > 0
    BY <2>1, CountRestarts DEF Finish
  <2>2. CASE ~(since > 0)
    <3>1. UNCHANGED <<queue, onDisk, broken>> /\ since' = 0 /\ phase' = "off" /\ since = 0
      BY <2>2 DEF Finish, fileVars, RedoInv
    <3>2. Redone' = Redone
      BY <3>1 DEF Redone
    <3> QED
      BY <3>1, <3>2 DEF RedoInv
  <2> QED
    BY <2>1, <2>2
<1>5. EnrichWithEmbeddings => RedoInv'
  <2> SUFFICES ASSUME EnrichWithEmbeddings PROVE RedoInv'
    OBVIOUS
  <2> DEFINE done == {id \in queue : HasFrame(id)}
  <2>1. UNCHANGED <<phase, since>> /\ queue \ done \subseteq 1..MaxPuts
    BY DEF EnrichWithEmbeddings, workerVars, RedoInv
  <2>2. CASE SaveAll(Enriched(done), queue \ done, log) /\ UNCHANGED broken
    <3>1. queue' = queue \ done /\ onDisk'.queue = queue \ done /\ Cardinality(Redone') = 0
      BY <2>2, SavedNothingRedone
    <3> QED
      BY <2>1, <2>2, <3>1 DEF RedoInv
  <2>3. CASE queue' = queue \ done /\ broken' = TRUE /\ UNCHANGED onDisk
    BY <2>1, <2>3 DEF RedoInv
  <2> QED
    BY <2>2, <2>3 DEF EnrichWithEmbeddings
<1> QED
  BY <1>1, <1>2, <1>3, <1>4, <1>5 DEF Worker

\* The tasks of the last commit come back, and the count starts anew.
LEMMA CrashRedo ==
  ASSUME RedoInv, Crash
  PROVE  RedoInv'
<1>1. queue' = onDisk.queue /\ onDisk'.queue = onDisk.queue /\ Cardinality(Redone') = 0
  BY SavedNothingRedone DEF Crash
<1> QED
  BY <1>1, EnrichAssumption DEF RedoInv, Crash

\* The worker has counted what a crash would bring back, whatever is put,
\* deleted and committed beside it.
THEOREM RedoInvariant == EnrichSpec => []RedoInv
<1>1. EnrichInit => RedoInv
  <2> SUFFICES ASSUME EnrichInit PROVE RedoInv
    OBVIOUS
  <2>1. Redone = {} /\ Cardinality(Redone) = 0
    BY FS_EmptySet DEF EnrichInit, Redone
  <2> QED
    BY <2>1, EnrichAssumption DEF EnrichInit, RedoInv
<1>2. RedoInv /\ [EnrichNext]_enrichVars => RedoInv'
  <2> SUFFICES ASSUME RedoInv, [EnrichNext]_enrichVars PROVE RedoInv'
    OBVIOUS
  <2>1. CASE UNCHANGED enrichVars
    <3>1. UNCHANGED <<queue, onDisk, phase, since, broken>>
      BY <2>1 DEF enrichVars, fileVars, workerVars
    <3>2. Redone' = Redone
      BY <3>1 DEF Redone
    <3> QED
      BY <3>1, <3>2 DEF RedoInv
  <2>2. CASE EnrichNext
    BY <2>2, WriterStep, WorkerRedo, CrashRedo DEF EnrichNext
  <2> QED
    BY <2>1, <2>2
<1> QED
  BY <1>1, <1>2, PTL DEF EnrichSpec

\* A crash makes a worker redo at most CheckpointInterval tasks
\* (enrichment_worker.rs, run_worker_loop), and none once it has ended.
THEOREM RedoBoundHolds == EnrichSpec => []RedoBound
<1>1. RedoInv => RedoBound
  <2> SUFFICES ASSUME RedoInv, ~broken
               PROVE  Cardinality(onDisk.queue \ queue)
                        <= IF phase = "off" THEN 0 ELSE CheckpointInterval
    BY DEF RedoBound
  <2>1. Cardinality(onDisk.queue \ queue) <= since
        /\ Cardinality(onDisk.queue \ queue) \in Nat
    BY RedoneFinite DEF RedoInv, Redone
  <2> QED
    BY <2>1, EnrichAssumption DEF RedoInv
<1> QED
  BY <1>1, RedoInvariant, PTL

=============================================================================
