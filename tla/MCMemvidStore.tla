--------------------------- MODULE MCMemvidStore ---------------------------
(****************************************************************************)
(* The file of the memory engine, its doctor and its replay sessions for     *)
(* TLC: the engine alone, and two smaller memories at which the doctor and   *)
(* the recorder work.  A behaviour is one of a part, so that the state graph *)
(* is the sum of theirs.                                                     *)
(****************************************************************************)
EXTENDS Integers, Sequences, FiniteSets

CONSTANTS Parts,   \* the components that are looked at
  MaxSeq, MaxLen, MaxWal, Cards, GrowOn, Chunkings, Careful,
  SmallSeq, SmallLen, SmallWal, NoCards, NoGrowth, DamageWithPending,
  AutoCheckpoint, MaxActions, MaxSessions, Apart, CarefulSaver

VARIABLES part,    \* the component of this behaviour
  file, handle, parentOf,
  doctorFile, doctorHandle, doctorParentOf, walBad, report,
  replayFile, replayHandle, replayParentOf, recording, completed, besides,
  started

\* The engine: puts, commits, recovery, growth of the log, vacuum.
Engine == INSTANCE MemvidStore
\* The doctor, on a smaller memory of its own.
Doctor == INSTANCE MemvidDoctor
          WITH file <- doctorFile, handle <- doctorHandle, parentOf <-
               doctorParentOf, MaxSeq <- SmallSeq, MaxLen <- MaxLen,
               MaxWal <- SmallWal, GrowOn <- NoGrowth, Cards <- NoCards
\* Recorded sessions, on a smaller memory of their own.
Replay == INSTANCE MemvidReplay
          WITH file <- replayFile, handle <- replayHandle, parentOf <-
               replayParentOf, MaxSeq <- SmallSeq, MaxLen <- SmallLen,
               MaxWal <- SmallWal, GrowOn <- NoGrowth, Cards <- NoCards

storePart == <<file, handle, parentOf>>
doctorPart == <<doctorFile, doctorHandle, doctorParentOf, walBad, report>>
replayPart == <<replayFile, replayHandle, replayParentOf, recording,
                completed, besides, started>>
vars == <<part, storePart, doctorPart, replayPart>>

\* One component runs, the others stay as they start.
Init ==
  /\ part \in Parts
  /\ Engine!Init
  /\ Doctor!DoctorInit
  /\ Replay!ReplayInit

Next ==
  /\ UNCHANGED part
  /\ IF part = "store" THEN Engine!Next ELSE UNCHANGED storePart
  /\ IF part = "doctor" THEN Doctor!DoctorNext ELSE UNCHANGED doctorPart
  /\ IF part = "replay" THEN Replay!ReplayNext ELSE UNCHANGED replayPart

Spec == Init /\ [][Next]_vars

-----------------------------------------------------------------------------
\* Commits, failed commits, recoveries, growth of the log, vacuum and crashes
\* change nothing a memory holds; a put, an update or a delete changes only
\* its own frames (memvid/mutation.rs, memvid/lifecycle.rs).
KeepsStore == Engine!KeepsStore

\* Every active frame still has its own bytes, a closed memory opens, and
\* chunks hang on their document (memvid/mutation.rs apply_records,
\* rebuild_indexes).
PayloadsIntact ==
  part = "store" =>
    /\ Engine!PayloadsIntact /\ Engine!Reopens
    /\ Engine!ChunksLinked /\ Engine!TypeOK

\* A run of the doctor heals, and a second one finds nothing to do
\* (memvid/doctor.rs).
DoctorHeals == part = "doctor" => Doctor!DoctorHeals

\* A run of the doctor costs the memory no frame that an opening would have
\* found (memvid/doctor.rs).
DoctorKeeps == Doctor!DoctorKeeps

\* Saved sessions are where the table of contents says, whatever was written
\* since (memvid/replay_ops.rs).
SessionsKept == part = "replay" => Replay!SessionsKept

\* A recorded session replays while nothing is deleted, from a checkpoint
\* without a gap, and the session beside the memory is a prefix of the
\* recording that goes on (replay/engine.rs, memvid/replay_ops.rs).
SessionsReplay ==
  part = "replay" =>
    Replay!FindsHold /\ Replay!NothingSkipped /\ Replay!FileIsPrefix

=============================================================================
