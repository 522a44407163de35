------------------------------ MODULE LockFile ------------------------------
(***************************************************************************)
(* The advisory lock of src/memvid/src/lockfile.rs and the registry of     *)
(* lock owners of src/memvid/src/registry.rs.                               *)
(*                                                                         *)
(* A process that wants a memory file creates `<file>.lock' with           *)
(* create_new and then writes a record of itself into a registry of its    *)
(* own, keyed by an identifier computed from the inode and the first four  *)
(* kilobytes of the memory file.  A process that finds the lock file reads *)
(* the record of the identifier it computed when it began: without a       *)
(* record, or with one whose heartbeat is older than the grace, the lock   *)
(* looks stale, and a process that asked for it (force_stale) removes the  *)
(* record and the lock file and tries again.  Nothing makes the two files  *)
(* change together, and any process may die between two of its steps.      *)
(***************************************************************************)
EXTENDS Naturals, FiniteSets

CONSTANTS
  Processes,   \* the processes that open the memory file
  Nobody,      \* the owner of a lock file that is not there
  Forcing,     \* those whose LockOptions say force_stale
  Timeout,     \* LockOptions.timeout, in ticks
  Grace,       \* LockOptions.stale_grace, in ticks
  MaxTime,     \* bound on the clock
  MaxHeader    \* bound on how often the header of the memory file changes

ASSUME LockAssumption ==
  /\ Forcing \subseteq Processes
  /\ Nobody \notin Processes
  /\ {Timeout, Grace, MaxTime, MaxHeader} \subseteq Nat

VARIABLES
  lockFile,    \* who created the lock file, Nobody when there is none
  registry,    \* the record kept under each file identifier
  header,      \* the version of the header of the memory file
  now,         \* the clock
  pc,          \* where each process is in acquire, heartbeat or drop
  fileId,      \* the identifier each process computed when it began
  started,     \* when it began
  beat,        \* last_heartbeat of the record each process holds
  removed      \* history: "none", "dead" or "live": the worst forced removal

lockVars == <<lockFile, registry, header, now, pc, fileId, started, beat, removed>>

FileIds == 0 .. MaxHeader

NoRecord == [is |-> "absent"]
Torn == [is |-> "torn"]     \* opened with truncate, not yet written
Complete(p, b) == [is |-> "record", owner |-> p, beat |-> b]

Records == {NoRecord, Torn} \cup {Complete(p, b) : p \in Processes, b \in 0 .. MaxTime}

Places == {"out", "try", "open", "fill", "held", "reopen", "refill", "look",
           "clear", "unlink", "release"}
Owning == {"open", "fill", "held", "reopen", "refill", "release"}

Moves(p, place) == pc' = [pc EXCEPT ![p] = place]

LockInit ==
  /\ lockFile = Nobody
  /\ registry = [i \in FileIds |-> NoRecord]
  /\ header = 0
  /\ now = 0
  /\ pc = [p \in Processes |-> "out"]
  /\ fileId = [p \in Processes |-> 0]
  /\ started = [p \in Processes |-> 0]
  /\ beat = [p \in Processes |-> 0]
  /\ removed = "none"

\* acquire: the identifier, the record and the start of the waiting time are
\* computed once, before the loop.
Begin(p) ==
  /\ pc[p] = "out"
  /\ Moves(p, "try")
  /\ fileId' = [fileId EXCEPT ![p] = header]
  /\ started' = [started EXCEPT ![p] = now]
  /\ beat' = [beat EXCEPT ![p] = now]
  /\ UNCHANGED <<lockFile, registry, header, now, removed>>

\* Mutant: the lock file is opened with create instead of create_new.
CreateOrOpen(p) ==
  /\ pc[p] = "try"
  /\ lockFile' = p
  /\ Moves(p, "open")
  /\ UNCHANGED <<registry, header, now, fileId, started, beat, removed>>

\* create_new succeeds.
Create(p) ==
  /\ pc[p] = "try"
  /\ lockFile = Nobody
  /\ lockFile' = p
  /\ Moves(p, "open")
  /\ UNCHANGED <<registry, header, now, fileId, started, beat, removed>>

\* create_new finds the lock file.
Blocked(p) ==
  /\ pc[p] = "try"
  /\ lockFile # Nobody
  /\ Moves(p, "look")
  /\ UNCHANGED <<lockFile, registry, header, now, fileId, started, beat, removed>>

\* write_record opens the record with truncate ...
OpenRecord(p) ==
  /\ pc[p] \in {"open", "reopen"}
  /\ registry' = [registry EXCEPT ![fileId[p]] = Torn]
  /\ Moves(p, IF pc[p] = "open" THEN "fill" ELSE "refill")
  /\ UNCHANGED <<lockFile, header, now, fileId, started, beat, removed>>

\* ... and then writes it.
FillRecord(p) ==
  /\ pc[p] \in {"fill", "refill"}
  /\ registry' = [registry EXCEPT ![fileId[p]] = Complete(p, beat[p])]
  /\ Moves(p, "held")
  /\ UNCHANGED <<lockFile, header, now, fileId, started, beat, removed>>

\* write_record fails: acquire takes the lock file away again, a heartbeat
\* only reports the error.
WriteFails(p) ==
  /\ \/ /\ pc[p] \in {"open", "fill"}
        /\ lockFile' = Nobody
        /\ Moves(p, "out")
     \/ /\ pc[p] \in {"reopen", "refill"}
        /\ Moves(p, "held")
        /\ UNCHANGED lockFile
  /\ UNCHANGED <<registry, header, now, fileId, started, beat, removed>>

\* is_stale, for a lock file whose record may be missing.
Stale(record) ==
  \/ record.is = "absent"
  \/ record.is = "record" /\ now - record.beat > Grace

\* The lock file exists: a record that cannot be parsed ends the attempt, a
\* stale one is removed when the caller asked for it, and otherwise the
\* caller sleeps or, its time over, gives up.
Look(p) ==
  /\ pc[p] = "look"
  /\ LET record == registry[fileId[p]] IN
     \/ record.is = "torn" /\ Moves(p, "out")
     \/ record.is # "torn" /\ p \in Forcing /\ Stale(record) /\ Moves(p, "clear")
     \/ /\ record.is # "torn"
        /\ ~(p \in Forcing /\ Stale(record))
        /\ Moves(p, IF now - started[p] >= Timeout THEN "out" ELSE "try")
  /\ UNCHANGED <<lockFile, registry, header, now, fileId, started, beat, removed>>

\* force_stale: remove_record ...
ClearRecord(p) ==
  /\ pc[p] = "clear"
  /\ registry' = [registry EXCEPT ![fileId[p]] = NoRecord]
  /\ removed' = IF removed = "live" THEN "live" ELSE "dead"
  /\ Moves(p, "unlink")
  /\ UNCHANGED <<lockFile, header, now, fileId, started, beat>>

\* Whether the creator of the lock file still runs.
LiveOwner == \E q \in Processes : lockFile = q /\ pc[q] \in Owning

\* ... and remove_file of whatever lock file is there by now.
ClearLock(p) ==
  /\ pc[p] = "unlink"
  /\ lockFile' = Nobody
  /\ removed' = IF LiveOwner THEN "live" ELSE removed
  /\ Moves(p, "try")
  /\ UNCHANGED <<registry, header, now, fileId, started, beat>>

\* LockfileGuard::heartbeat: a new time, written over the record.
Heartbeat(p) ==
  /\ pc[p] = "held"
  /\ beat' = [beat EXCEPT ![p] = now]
  /\ Moves(p, "reopen")
  /\ UNCHANGED <<lockFile, registry, header, now, fileId, started, removed>>

\* Mutant: the drop leaves the record behind.
ReleaseForgetful(p) ==
  /\ pc[p] = "held"
  /\ lockFile' = Nobody
  /\ Moves(p, "release")
  /\ UNCHANGED <<registry, header, now, fileId, started, beat, removed>>

\* Drop removes the record first ...
ReleaseRecord(p) ==
  /\ pc[p] = "held"
  /\ registry' = [registry EXCEPT ![fileId[p]] = NoRecord]
  /\ Moves(p, "release")
  /\ UNCHANGED <<lockFile, header, now, fileId, started, beat, removed>>

\* ... and the lock file second, without asking whose it is.
ReleaseLock(p) ==
  /\ pc[p] = "release"
  /\ lockFile' = Nobody
  /\ Moves(p, "out")
  /\ UNCHANGED <<registry, header, now, fileId, started, beat, removed>>

\* A holder commits: the header, and with it the identifier, changes.
ChangeHeader(p) ==
  /\ pc[p] = "held"
  /\ header < MaxHeader
  /\ header' = header + 1
  /\ UNCHANGED <<lockFile, registry, now, pc, fileId, started, beat, removed>>

\* A process dies and may start again; what it wrote stays.
Die(p) ==
  /\ pc[p] # "out"
  /\ Moves(p, "out")
  /\ UNCHANGED <<lockFile, registry, header, now, fileId, started, beat, removed>>

Tick ==
  /\ now < MaxTime
  /\ now' = now + 1
  /\ UNCHANGED <<lockFile, registry, header, pc, fileId, started, beat, removed>>

LockStep(p) ==
  \/ Begin(p) \/ Create(p) \/ Blocked(p) \/ OpenRecord(p) \/ FillRecord(p)
  \/ WriteFails(p) \/ Look(p) \/ ClearRecord(p) \/ ClearLock(p) \/ Heartbeat(p)
  \/ ReleaseRecord(p) \/ ReleaseLock(p) \/ ChangeHeader(p) \/ Die(p)

LockNext == Tick \/ \E p \in Processes : LockStep(p)

LockSpec == LockInit /\ [][LockNext]_lockVars

-----------------------------------------------------------------------------

\* current_owner: the record under the identifier the file has now.
CurrentOwner ==
  IF registry[header].is = "record" THEN registry[header].owner ELSE Nobody

LockTypeOK ==
  /\ lockFile \in Processes \cup {Nobody}
  /\ registry \in [FileIds -> Records]
  /\ header \in FileIds
  /\ now \in 0 .. MaxTime
  /\ pc \in [Processes -> Places]
  /\ fileId \in [Processes -> FileIds]
  /\ started \in [Processes -> 0 .. MaxTime]
  /\ beat \in [Processes -> 0 .. MaxTime]
  /\ removed \in {"none", "dead", "live"}

\* As long as no forced removal hit the lock of a process that still ran, at
\* most one process is between the creation of its lock file and the end of
\* its drop: neither deaths, failed writes nor late heartbeats let two in.
OneHolder ==
  removed # "live" =>
    \A p, q \in Processes : pc[p] \in Owning /\ pc[q] \in Owning => p = q

\* As long as nothing was forced, the owner current_owner names is the
\* creator of the lock file that is there: no record outlives its lock, or a
\* refused caller would be told to wait for the wrong process.
OwnerNamed ==
  removed = "none" => CurrentOwner \in {Nobody, lockFile}

=============================================================================
