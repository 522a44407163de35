---------------------------- MODULE MemvidReplay ----------------------------
(****************************************************************************)
(* Recorded sessions of a memory (memvid/src/memvid/replay_ops.rs,           *)
(* replay/mod.rs, replay/engine.rs): while a session is active, every put    *)
(* and every search is recorded in it; the ended sessions are saved in a     *)
(* segment behind the footer, and one is replayed against the memory as it   *)
(* is.  The recording may also be kept in a file beside the memory.          *)
(****************************************************************************)
EXTENDS MemvidStore

CONSTANTS
  AutoCheckpoint,  \* actions after which a checkpoint is made, 0 for never
  MaxActions,      \* bound: actions of a session
  MaxSessions,     \* bound: sessions ever started, and held in memory
  Apart,           \* bound: while a session is in the file beside the memory,
                   \* none is ended, and none goes there after one was ended
  CarefulSaver     \* sessions are saved with an empty log and committed at
                   \* once, and the memory then only grows

VARIABLES
  recording,       \* the active session, or NoSession
  completed,       \* the ended sessions in memory
  besides,         \* the session in the file beside the memory, NoSession,
                   \* or Torn when its writing was cut short
  started          \* sessions started so far; their identity

replayVars == <<file, handle, parentOf, recording, completed, besides, started>>

NoSession == [id |-> 0]
Torn == [id |-> 0, torn |-> TRUE]
Active(s) == s.id # 0

\* Sequence numbers of actions count from 0; a checkpoint remembers that of
\* the action before it.
ActiveSession(id) ==
  [id |-> id, actions |-> << >>, checkpoints |-> << >>, since |-> 0]
NextSequence(s) == Len(s.actions)

RecordAction(s, a) == [s EXCEPT !.actions = Append(@, a), !.since = @ + 1]
ShouldCheckpoint(s) == AutoCheckpoint > 0 /\ s.since >= AutoCheckpoint

\* The checkpoint is itself recorded as an action.
Checkpointed(s) ==
  LET at == IF NextSequence(s) = 0 THEN 0 ELSE NextSequence(s) - 1 IN
  RecordAction([s EXCEPT !.checkpoints = Append(@, at), !.since = 0],
               [kind |-> "checkpoint", n |-> Len(s.checkpoints)])

\* What a search of the memory as it is finds: its active frames.
Found == Cardinality({i \in DOMAIN handle.toc.frames :
                        handle.toc.frames[i].status = "active"})

\* A search returns one hit at least when there is one.
Hits(top) == LET asked == MaxOf({1, top}) IN IF Found < asked THEN Found ELSE asked

\* Mutant: a find asks for as many hits as there are now.
MatchesWidely(a) ==
  CASE a.kind = "put"        -> handle.toc.frames # << >>
    [] a.kind = "find"       -> Found = a.n
    [] a.kind = "checkpoint" -> TRUE

\* Replaying: a put finds some frame, a find asks for as many hits as it had.
Matches(a) ==
  CASE a.kind = "put"        -> handle.toc.frames # << >>
    [] a.kind = "find"       -> Hits(a.n) = a.n
    [] a.kind = "checkpoint" -> TRUE

\* The actions of a replay that starts at a checkpoint.
ReplayedFrom(s, c) == {i \in DOMAIN s.actions : i - 1 >= s.checkpoints[c]}

-----------------------------------------------------------------------------
\* Recording.  One session at a time.

KeepMemory == UNCHANGED <<file, handle, parentOf>>

StartSession ==
  /\ Ready /\ ~ Active(recording) /\ started < MaxSessions
  /\ started' = started + 1
  /\ recording' = ActiveSession(started + 1)
  /\ KeepMemory /\ UNCHANGED <<completed, besides>>

EndSession ==
  /\ Ready /\ Active(recording)
  /\ Len(completed) < MaxSessions /\ (Apart => besides = NoSession)
  /\ completed' = Append(completed, recording)
  /\ recording' = NoSession
  /\ KeepMemory /\ UNCHANGED <<besides, started>>

\* The number of a put is that of its document's record.
RecordPut(s, n) ==
  LET t == RecordAction(s, [kind |-> "put", n |-> n]) IN
  IF ShouldCheckpoint(t) THEN Checkpointed(t) ELSE t
RecordFind(s, n) == RecordAction(s, [kind |-> "find", n |-> n])

Within(s) == Len(s.actions) < MaxActions

\* A search for at most so many hits.
Search ==
  /\ Ready /\ Active(recording) /\ Within(recording)
  /\ \E top \in 0..MaxSeq : recording' = RecordFind(recording, Hits(top))
  /\ KeepMemory /\ UNCHANGED <<completed, besides, started>>

CreateCheckpoint ==
  /\ Ready /\ Active(recording) /\ Within(recording)
  /\ recording' = Checkpointed(recording)
  /\ KeepMemory /\ UNCHANGED <<completed, besides, started>>

\* A replay searches again, which is recorded as well.
ReplaySession ==
  /\ Ready /\ (Active(recording) => Within(recording))
  /\ \E s \in ToSet(completed) :
       LET finds == SelectSeq(s.actions, LAMBDA a : a.kind = "find") IN
       recording' = IF Active(recording)
                    THEN FoldLeft(LAMBDA r, a : RecordFind(r, Hits(a.n)),
                                  recording, finds)
                    ELSE recording
  /\ KeepMemory /\ UNCHANGED <<completed, besides, started>>

DeleteSession ==
  /\ Ready
  /\ \E i \in DOMAIN completed : completed' = RemoveAt(completed, i)
  /\ KeepMemory /\ UNCHANGED <<recording, besides, started>>

-----------------------------------------------------------------------------
\* The file beside the memory.

SaveActiveSession ==
  /\ Ready /\ (Apart => completed = << >>)
  /\ besides' = recording
  /\ KeepMemory /\ UNCHANGED <<recording, completed, started>>

\* The process ends while it writes the file.
SaveCutShort ==
  /\ Ready /\ Active(recording) /\ (Apart => completed = << >>)
  /\ besides' = Torn
  /\ recording' = NoSession /\ completed' = << >>
  /\ handle' = Closed
  /\ UNCHANGED <<file, parentOf, started>>

\* A file that cannot be read is removed.
LoadActiveSession ==
  /\ Ready /\ besides # NoSession
  /\ IF Active(besides) THEN recording' = besides /\ UNCHANGED besides
     ELSE besides' = NoSession /\ UNCHANGED recording
  /\ KeepMemory /\ UNCHANGED <<completed, started>>

ClearActiveSession ==
  /\ Ready
  /\ besides' = NoSession
  /\ KeepMemory /\ UNCHANGED <<recording, completed, started>>

-----------------------------------------------------------------------------
\* Mutant: the segment goes to the end of the data.
SegmentAtDataEnd == handle.dataEnd

\* The segment of the ended sessions: behind the footer, never at the end of
\* the data, which may lag behind the indexes.
SegmentAt == MaxOf({handle.footer, handle.dataEnd})

\* The segment is written at once, the TOC that points at it with the next
\* commit.
SaveReplaySessions ==
  /\ Ready
  /\ CarefulSaver => file.log = << >>
  /\ IF completed = << >>
     THEN /\ handle.toc.sessions # NoSegment
          /\ handle' = [handle EXCEPT !.toc.sessions = NoSegment, !.dirty = TRUE]
          /\ UNCHANGED file
     ELSE /\ SegmentAt <= MaxLen
          /\ file' = [file EXCEPT !.cells =
                        WriteAt(@, SegmentAt, Session(completed))]
          /\ handle' = [handle EXCEPT
               !.toc.sessions = SegmentAt,
               !.footer = MaxOf({@, SegmentAt + 1}),
               !.dataEnd = MaxOf({@, SegmentAt + 1}),
               !.dirty = TRUE]
  /\ UNCHANGED <<parentOf, recording, completed, besides, started>>

\* The sessions are read back, in the place of those in memory.
LoadReplaySessions ==
  LET at == handle.toc.sessions IN
  /\ Ready /\ at # NoSegment
  /\ at \in DOMAIN file.cells /\ file.cells[at].kind = "session"
  /\ completed' = file.cells[at].held
  /\ KeepMemory /\ UNCHANGED <<recording, besides, started>>

\* A put has appended its last record, and has bytes of its own.
PutEnded ==
  /\ handle.open /\ handle'.open /\ handle'.todo = << >>
  /\ Len(file'.log) = Len(file.log) + 1
  /\ Last(file'.log).op = "insert" /\ Last(file'.log).reuse = 0
PutNumber(r) == IF r.role = "chunk" THEN r.parent ELSE r.seq

\* The memory is used.  Sessions in memory end with the process.
Moves ==
  \/ Vacuum \/ CommitSkipIndexes \/ FinalizeIndexes
  \/ \E i \in FrameIds : DeleteFrame(i) \/ UpdateFrame(i)
Saved == handle.open /\ handle.toc.sessions # NoSegment
Unsettled == handle.open /\ TocsIn(file) = {}
Using ==
  /\ Next
  /\ CarefulSaver => ((Unsettled => Commit) /\ (Saved => ~ Moves))
  /\ recording' = IF ~ handle'.open THEN NoSession
                  ELSE IF PutEnded /\ Active(recording)
                  THEN RecordPut(recording, PutNumber(Last(file'.log)))
                  ELSE recording
  /\ PutEnded /\ Active(recording) => Within(recording)
  /\ completed' = IF handle'.open THEN completed ELSE << >>
  /\ UNCHANGED <<besides, started>>

ReplayInit ==
  /\ Init
  /\ recording = NoSession /\ completed = << >>
  /\ besides = NoSession /\ started = 0

ReplayNext ==
  \/ StartSession \/ EndSession \/ DeleteSession
  \/ Search \/ CreateCheckpoint \/ ReplaySession
  \/ SaveActiveSession \/ SaveCutShort \/ LoadActiveSession \/ ClearActiveSession
  \/ SaveReplaySessions \/ LoadReplaySessions
  \/ Using

ReplaySpec == ReplayInit /\ [][ReplayNext]_replayVars

-----------------------------------------------------------------------------
\* Saved sessions are where the table of contents says, whatever was written
\* since (replay_ops.rs, mutation.rs rebuild_indexes).
HeldAt(f, t) ==
  t.sessions # NoSegment =>
    t.sessions \in DOMAIN f.cells /\ f.cells[t.sessions].kind = "session"
SessionsKept ==
  /\ TocsIn(file) # {} => HeldAt(file, ReadToc(file))
  /\ handle.open => HeldAt(file, handle.toc)

\* While nothing is deleted, a find that had hits has as many when it is
\* replayed, and a put is found again once it is committed (replay/engine.rs).
Sessions == ToSet(completed) \cup {recording}
Due(a) == CASE a.kind = "put"        -> a.n <= file.ckpt
            [] a.kind = "find"       -> a.n > 0
            [] a.kind = "checkpoint" -> TRUE
FindsHold ==
  (handle.open /\ \A i \in DOMAIN handle.toc.frames :
                     handle.toc.frames[i].status # "deleted") =>
    \A s \in Sessions : Active(s) =>
      \A i \in DOMAIN s.actions : Due(s.actions[i]) => Matches(s.actions[i])

\* A replay from a checkpoint leaves out nothing that was done after it
\* (replay/mod.rs create_checkpoint, replay/engine.rs).
NothingSkipped ==
  \A s \in Sessions : Active(s) =>
    \A c \in DOMAIN s.checkpoints, i \in DOMAIN s.actions :
      (\E k \in 1..i : s.actions[k] = [kind |-> "checkpoint", n |-> c - 1])
        => i \in ReplayedFrom(s, c)

\* The session beside the memory is a prefix of the recording that goes on
\* (replay_ops.rs save_active_session).
FileIsPrefix ==
  (Active(recording) /\ recording.id = besides.id) =>
    IsPrefix(besides.actions, recording.actions)
=============================================================================
