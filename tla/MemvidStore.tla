---------------------------- MODULE MemvidStore ----------------------------
(****************************************************************************)
(* The file of a memory (memvid/src/memvid/mutation.rs, lifecycle.rs): one   *)
(* process puts, updates and deletes frames through a log of records, and a  *)
(* commit, a recovery or a vacuum moves them into the file, writes the       *)
(* indexes and the table of contents (TOC) behind them.                      *)
(*                                                                           *)
(* The file is a row of cells: the region of the log, then payloads, index,  *)
(* memory cards and TOC, one cell each.  A position is the number of a cell, *)
(* an end the number of the first cell after.  A commit works on a copy that *)
(* is renamed over the file, so a crash leaves all of it or nothing; what is *)
(* done in place (recovery, growth, vacuum, finalizing, skipping indexes) is *)
(* one step here.  Of the text index, its segments and the record that       *)
(* announces them in the log are modelled; vectors are not.                  *)
(****************************************************************************)
EXTENDS Integers, Sequences, FiniteSets, SequencesExt

CONSTANTS
  MaxSeq,    \* bound: records ever appended
  MaxLen,    \* bound: cells of the file
  MaxWal,    \* bound: cells of the log's region
  Cards,     \* memory cards that may be added
  Chunkings, \* numbers of chunks a document may be cut into
  GrowOn,    \* the sequence numbers whose append finds the region full
  Careful    \* callers let a change commit before they change the frame again,
             \* and finalize the indexes when no frame waits in the log

VARIABLES
  file,      \* [wal, ckpt, footer, log, cells]: what is on disk
  handle,    \* the open memory, or Closed; todo: the chunks to append yet
  parentOf   \* ghost: sequence number of a chunk -> that of its document

vars == <<file, handle, parentOf>>

Free == [kind |-> "free"]
Payload(s) == [kind |-> "payload", seq |-> s]
IndexCell == [kind |-> "index"]
CardCell(c) == [kind |-> "cards", set |-> c]
Session(held) == [kind |-> "session", held |-> held]
TocCell(t) == [kind |-> "toc", toc |-> t]

Closed == [open |-> FALSE]
NoSegment == 0

\* A table of contents: frames, and where the other segments are.
EmptyToc == [frames |-> << >>, index |-> NoSegment,
             cards |-> NoSegment, sessions |-> NoSegment]

Frame(s, pay, off, role, parent) ==
  [seq |-> s, pay |-> pay, off |-> off, role |-> role, parent |-> parent,
   status |-> "active"]

MaxOf(S) == CHOOSE x \in S : \A y \in S : y <= x
EndOf(at) == IF at = NoSegment THEN 0 ELSE at + 1

-----------------------------------------------------------------------------
\* The file.

WriteAt(cells, at, c) ==
  IF at <= Len(cells) THEN [cells EXCEPT ![at] = c]
  ELSE SubSeq(cells \o [i \in 1..at |-> Free], 1, at - 1) \o <<c>>

Truncated(cells, end) == SubSeq(cells, 1, end - 1)

WalEnd(f) == f.wal + 1

\* Records of frames are numbered; the text index's record waits among them.
OfFrames(log) == SelectSeq(log, LAMBDA r : r.op # "lex")
NextSeq(f) == f.ckpt + Len(OfFrames(f.log)) + 1

\* The TOC is written at the footer and ends the file.
RewriteToc(f, at, t) ==
  [f EXCEPT !.footer = at,
            !.cells = Truncated(WriteAt(f.cells, at, TocCell(t)), at + 1)]

\* The TOC an opening reads: the one the header points at when it ends the
\* file, else the last one that is found in the file.
TocsIn(f) == {i \in DOMAIN f.cells : f.cells[i].kind = "toc"}
PointedAt(f) == f.footer = Len(f.cells) /\ f.footer \in TocsIn(f)
TocPosition(f) == IF PointedAt(f) THEN f.footer ELSE MaxOf(TocsIn(f))
ReadToc(f) == f.cells[TocPosition(f)].toc

\* Where the indexes end, where everything ends that a TOC knows of, and where
\* the payloads end.
ActiveEnds(t) ==
  {EndOf(t.frames[i].off) :
     i \in {j \in DOMAIN t.frames : t.frames[j].status = "active"}}
CatalogEnd(f, t) == MaxOf({WalEnd(f), EndOf(t.index)})
DataEnd(f, t) ==
  MaxOf({CatalogEnd(f, t), EndOf(t.cards), EndOf(t.sessions), f.footer}
          \cup ActiveEnds(t))
PayloadEnd(f, t) ==
  MaxOf({WalEnd(f)} \cup {EndOf(t.frames[i].off) : i \in DOMAIN t.frames})

\* Active frames lie in the file and apart from one another.
NonOverlapping(f, t) ==
  \A i \in DOMAIN t.frames : t.frames[i].status = "active" =>
    /\ t.frames[i].off <= Len(f.cells)
    /\ \A j \in 1..(i - 1) :
         t.frames[j].status = "active" => t.frames[j].off # t.frames[i].off

-----------------------------------------------------------------------------
\* Applying the records of the log.

\* Mutant: the frame appended last is marked instead.
MarkedLast(frames, i, how) == [frames EXCEPT ![Len(frames)].status = how]

Marked(frames, i, how) == [frames EXCEPT ![i].status = how]

\* Mutant: the cached end of the payloads does not follow the cursor.
CachedEndKept(old, cursor) == old

\* Bytes of a new frame go to the cursor; a frame without bytes of its own
\* takes the place of those it reuses.
CachedEnd(old, cursor) == IF cursor > old THEN cursor ELSE old

FrameOf(frames, s) ==
  IF \E i \in DOMAIN frames : frames[i].seq = s
  THEN CHOOSE i \in DOMAIN frames : frames[i].seq = s ELSE 0

\* The document a chunk without a known parent is given: the last one with a
\* manifest that this batch inserted.
LastChunked(a) ==
  LET chunked == {i \in DOMAIN a.frames :
                    i > a.first /\ a.frames[i].role = "chunked"} IN
  IF chunked = {} THEN 0 ELSE MaxOf(chunked)

ParentFrame(a, r) ==
  LET known == FrameOf(a.frames, r.parent) IN
  IF r.role # "chunk" THEN 0
  ELSE IF known > a.first THEN known ELSE LastChunked(a)

InsertRecord(a, r) ==
  LET reused == r.reuse # 0
      off == IF reused THEN a.frames[r.reuse].off ELSE a.cursor
      pay == IF reused THEN a.frames[r.reuse].pay ELSE r.seq
      cursor == IF reused THEN a.cursor ELSE a.cursor + 1
      frame == Frame(r.seq, pay, off, r.role, ParentFrame(a, r))
      before == IF r.target = 0 THEN a.frames
                ELSE Marked(a.frames, r.target, "superseded")
  IN [a EXCEPT !.frames = Append(before, frame),
               !.cells = IF reused THEN a.cells
                         ELSE WriteAt(a.cells, off, Payload(pay)),
               !.cursor = cursor,
               !.payEnd = CachedEnd(a.payEnd, cursor)]

TombstoneRecord(a, r) ==
  [a EXCEPT !.frames = Marked(a.frames, r.target, "deleted")]

\* The text index's segments are where they were: the TOC is written as it is
\* by now, at the footer.
LexRecord(a) ==
  LET toc == [a.toc EXCEPT !.frames = a.frames] IN
  [a EXCEPT !.cells = Truncated(WriteAt(@, a.footer, TocCell(toc)), a.footer + 1)]

ApplyRecord(a, r) ==
  CASE r.op = "insert"    -> InsertRecord(a, r)
    [] r.op = "tombstone" -> TombstoneRecord(a, r)
    [] r.op = "lex"       -> LexRecord(a)

\* Chunks that are still orphans get the last earlier active document that
\* has a manifest.
ResolveOrphans(frames, first) ==
  [i \in DOMAIN frames |->
     LET earlier == {j \in 1..(i - 1) : /\ frames[j].role = "chunked"
                                        /\ frames[j].status = "active"} IN
     IF i > first /\ frames[i].role = "chunk" /\ frames[i].parent = 0
          /\ earlier # {}
     THEN [frames[i] EXCEPT !.parent = MaxOf(earlier)] ELSE frames[i]]

ApplyRecords(f, h) ==
  LET a == FoldLeft(ApplyRecord,
             [frames |-> h.toc.frames, first |-> Len(h.toc.frames),
              cells |-> f.cells, cursor |-> h.dataEnd, payEnd |-> h.payEnd,
              toc |-> h.toc, footer |-> h.footer],
             f.log)
  IN [file |-> [f EXCEPT !.cells = a.cells],
      handle |-> [h EXCEPT
        !.toc.frames = ResolveOrphans(a.frames, a.first),
        !.payEnd = a.payEnd,
        !.dataEnd = IF a.cursor > h.dataEnd THEN a.cursor ELSE h.dataEnd]]

-----------------------------------------------------------------------------
\* The segments behind the payloads.

\* The cards of the memory, each in a cell.
PersistCards(s, at) ==
  LET empty == s.handle.cards = {} IN
  [file |-> IF empty THEN s.file
            ELSE [s.file EXCEPT !.cells = WriteAt(@, at, CardCell(s.handle.cards))],
   handle |-> [s.handle EXCEPT !.toc.cards = IF empty THEN NoSegment ELSE at],
   end |-> IF empty THEN at ELSE at + 1]

\* The old tail is cut off, but never before the footer: replay segments may
\* lie there.
CutTail(f, h) ==
  LET keep == MaxOf({h.footer, h.payEnd}) IN
  [f EXCEPT !.cells = IF Len(f.cells) + 1 > keep THEN Truncated(f.cells, keep)
                      ELSE f.cells]

\* Time index and text index at the end of the payloads, the latter announced
\* in the log; the footer only moves on.
Announced(log) ==
  IF log # << >> /\ Last(log).op = "lex" THEN log ELSE Append(log, [op |-> "lex"])
WriteIndexes(s) ==
  [file |-> [s.file EXCEPT !.cells = WriteAt(@, s.handle.payEnd, IndexCell),
                           !.log = Announced(@)],
   handle |-> [s.handle EXCEPT !.toc.index = s.handle.payEnd,
                               !.footer = MaxOf({@, s.handle.payEnd + 1}),
                               !.dataEnd = s.handle.payEnd]]

RewriteTocFooter(s) ==
  [file |-> RewriteToc(s.file, s.handle.footer, s.handle.toc),
   handle |-> s.handle]

\* Indexes, cards and the TOC anew; the next payload overwrites the indexes.
RebuildIndexes(s) ==
  LET indexed == WriteIndexes([file |-> CutTail(s.file, s.handle),
                               handle |-> s.handle])
      carded == PersistCards(indexed, indexed.handle.footer)
  IN RewriteTocFooter([file |-> carded.file,
                       handle |-> [carded.handle EXCEPT !.footer = carded.end]])

\* Cards alone, at the footer, when no frame changed.
PersistMemoriesTrack(s) ==
  IF s.handle.cards = {} THEN s
  ELSE LET carded == PersistCards(s, s.handle.footer) IN
       [file |-> carded.file,
        handle |-> [carded.handle EXCEPT !.footer = carded.end]]

RecordCheckpoint(s) ==
  [file |-> [s.file EXCEPT !.ckpt = @ + Len(OfFrames(s.file.log)), !.log = << >>],
   handle |-> [s.handle EXCEPT !.dirty = FALSE]]

CommitFromRecords(f, h) ==
  LET applied == ApplyRecords(f, h) IN
  RecordCheckpoint(RewriteTocFooter(
    IF OfFrames(f.log) = << >> THEN PersistMemoriesTrack(applied)
    ELSE RebuildIndexes(applied)))

\* What has to be committed.
Uncommitted(f, h) == h.dirty \/ f.log # << >>

Committed(f, h) ==
  IF Uncommitted(f, h) THEN CommitFromRecords(f, h)
  ELSE [file |-> f, handle |-> h]

\* Frames and TOC only: every other manifest is dropped.
SkippedIndexes(f, h) ==
  LET a == ApplyRecords(f, h) IN
  RecordCheckpoint(RewriteTocFooter(
    [file |-> a.file,
     handle |-> [a.handle EXCEPT !.footer = a.handle.dataEnd,
                                 !.toc.index = NoSegment,
                                 !.toc.cards = NoSegment]]))

-----------------------------------------------------------------------------
\* Opening a memory.

OpenedHandle(f) ==
  LET t == ReadToc(f)
      g == [f EXCEPT !.footer = TocPosition(f)] IN
  [open |-> TRUE, toc |-> t, footer |-> g.footer, dataEnd |-> DataEnd(g, t),
   payEnd |-> PayloadEnd(g, t), cards |-> {}, dirty |-> FALSE, todo |-> << >>]

\* Records of the log are applied before the cards are read.
RecoverWal(f, h) ==
  LET applied == ApplyRecords(f, h) IN
  IF f.log = << >> THEN [file |-> f, handle |-> h]
  ELSE RecordCheckpoint(IF OfFrames(f.log) = << >> THEN applied
                        ELSE RebuildIndexes(applied))

LoadMemories(s) ==
  [file |-> s.file,
   handle |-> [s.handle EXCEPT !.cards =
     IF s.handle.toc.cards = NoSegment THEN {}
     ELSE s.file.cells[s.handle.toc.cards].set]]

\* The cards' segment has its checksum.
CardsReadable(s) ==
  LET at == s.handle.toc.cards IN
  at # NoSegment =>
    at \in DOMAIN s.file.cells /\ s.file.cells[at].kind = "cards"

Recovered(f) ==
  RecoverWal([f EXCEPT !.footer = TocPosition(f)], OpenedHandle(f))

\* An opening succeeds.
CanOpen(f) ==
  /\ TocsIn(f) # {}
  /\ NonOverlapping(f, ReadToc(f))
  /\ CardsReadable(Recovered(f))

-----------------------------------------------------------------------------
\* Growing the log.

ShiftCells(f, by) ==
  SubSeq(f.cells, 1, f.wal) \o [i \in 1..by |-> Free]
    \o SubSeq(f.cells, f.wal + 1, Len(f.cells))

Shifted(at, by) == IF at = NoSegment THEN at ELSE at + by

\* Offsets that move with the data; those of cards and replay segments and
\* the cached end of the payloads do not.
AdjustOffsets(h, by) ==
  [h EXCEPT !.toc.frames =
              [i \in DOMAIN @ |-> [@[i] EXCEPT !.off = Shifted(@, by)]],
            !.toc.index = Shifted(@, by),
            !.footer = @ + by,
            !.dataEnd = @ + by]

GrowWalRegion(f, h) ==
  LET g == [f EXCEPT !.cells = ShiftCells(f, 1), !.wal = @ + 1]
      k == AdjustOffsets(h, 1)
      at == MaxOf({CatalogEnd(g, k.toc), k.footer, k.dataEnd})
  IN RewriteTocFooter([file |-> g, handle |-> [k EXCEPT !.footer = at]])

Full(f) == NextSeq(f) \in GrowOn /\ f.wal < MaxWal

\* A record is appended, after the region has grown when it is full.  The
\* memory is dirty once the last record of a put is there.
AppendEntry(r, todo) ==
  LET s == IF Full(file) THEN GrowWalRegion(file, handle)
           ELSE [file |-> file, handle |-> handle]
  IN /\ file' = [s.file EXCEPT !.log = Append(@, r)]
     /\ handle' = [s.handle EXCEPT !.dirty = @ \/ todo = << >>, !.todo = todo]

Record(op, role, target, reuse, parent) ==
  [op |-> op, seq |-> NextSeq(file), role |-> role, target |-> target,
   reuse |-> reuse, parent |-> parent]

-----------------------------------------------------------------------------
\* The operations.  A put or a delete may be followed by a commit of its own,
\* which is the action Commit.

Ready == handle.open /\ handle.todo = << >>

\* The record of a document, whole or cut into chunks, in the place of another
\* frame or of none.
PutRecord(target, chunks) ==
  /\ NextSeq(file) + chunks <= MaxSeq
  /\ AppendEntry(Record("insert", IF chunks = 0 THEN "doc" ELSE "chunked", target, 0, 0),
                 [k \in 1..chunks |-> NextSeq(file)])

PutDocument(chunks) == Ready /\ PutRecord(0, chunks) /\ UNCHANGED parentOf

\* Its chunks follow, one append each.
PutChunk ==
  /\ handle.open /\ handle.todo # << >>
  /\ AppendEntry(Record("insert", "chunk", 0, 0, Head(handle.todo)), Tail(handle.todo))
  /\ parentOf' = [parentOf EXCEPT ![NextSeq(file)] = Head(handle.todo)]

\* An append fails: the put ends with what it has appended.
PutFails ==
  /\ handle.open /\ handle.todo # << >>
  /\ handle' = [handle EXCEPT !.todo = << >>]
  /\ UNCHANGED <<file, parentOf>>

\* Only the committed status of the frame is looked at.
ActiveFrame(i) ==
  /\ Ready
  /\ i \in DOMAIN handle.toc.frames
  /\ handle.toc.frames[i].status = "active"
  /\ Careful => \A r \in ToSet(OfFrames(file.log)) : r.target # i

UpdateFrame(i) ==
  /\ ActiveFrame(i)
  /\ \/ \E chunks \in {0} \cup Chunkings : PutRecord(i, chunks)
     \/ NextSeq(file) <= MaxSeq /\ AppendEntry(Record("insert", "doc", i, i, 0), << >>)
  /\ UNCHANGED parentOf

DeleteFrame(i) ==
  /\ ActiveFrame(i) /\ NextSeq(file) <= MaxSeq
  /\ AppendEntry(Record("tombstone", "doc", i, 0, 0), << >>)
  /\ UNCHANGED parentOf

\* A memory card lives in memory until a commit.
PutMemoryCard(c) ==
  /\ Ready
  /\ c \notin handle.cards
  /\ handle' = [handle EXCEPT !.cards = @ \cup {c}, !.dirty = TRUE]
  /\ UNCHANGED <<file, parentOf>>

Become(s) ==
  /\ Len(s.file.cells) <= MaxLen
  /\ file' = s.file
  /\ handle' = s.handle
  /\ UNCHANGED parentOf

Commit ==
  /\ Ready /\ Uncommitted(file, handle)
  /\ Become(CommitFromRecords(file, handle))

\* A commit that fails after its records were applied to the copy: all is
\* restored but the cached end of the payloads.
CommitFails ==
  /\ Ready /\ file.log # << >>
  /\ handle' = [handle EXCEPT !.payEnd =
                  ApplyRecords(file, handle).handle.payEnd]
  /\ UNCHANGED <<file, parentOf>>

CommitSkipIndexes ==
  /\ Ready /\ Uncommitted(file, handle)
  /\ Become(SkippedIndexes(file, handle))

\* To be called after the batches of a bulk ingestion.
FinalizeIndexes ==
  /\ Ready /\ (Careful => OfFrames(file.log) = << >>)
  /\ Become(RebuildIndexes([file |-> file, handle |-> handle]))

\* Active payloads close up behind the log; the others lose theirs.
Compacted(s) ==
  LET frames == s.handle.toc.frames
      live == {i \in DOMAIN frames : frames[i].status = "active"}
      offset == [i \in live |->
                   WalEnd(s.file) + Cardinality({j \in live : j < i})]
  IN [file |-> [s.file EXCEPT !.cells =
        SubSeq(@, 1, s.file.wal)
          \o [k \in 1..Cardinality(live) |->
                LET i == CHOOSE i \in live : offset[i] = s.file.wal + k
                IN s.file.cells[frames[i].off]]
          \o SubSeq(@, s.file.wal + Cardinality(live) + 1, Len(@))],
      handle |-> [s.handle EXCEPT
        !.toc.frames = [i \in DOMAIN frames |->
            [frames[i] EXCEPT !.off = IF i \in live THEN offset[i] ELSE 0]],
        !.dataEnd = WalEnd(s.file) + Cardinality(live)]]

Vacuum ==
  /\ Ready
  /\ Become(RebuildIndexes(Compacted(Committed(file, handle))))

\* Letting go of a dirty memory commits it.
Drop ==
  /\ Ready
  /\ LET s == Committed(file, handle) IN
     /\ Len(s.file.cells) <= MaxLen
     /\ file' = IF handle.dirty THEN s.file ELSE file
  /\ handle' = Closed
  /\ UNCHANGED parentOf

\* The process ends between two steps, or its last commit fails.
Crash ==
  /\ handle.open
  /\ handle' = Closed
  /\ UNCHANGED <<file, parentOf>>

Open ==
  /\ ~ handle.open
  /\ CanOpen(file)
  /\ Become(LoadMemories(Recovered(file)))

\* A new memory: its TOC stands right behind the log.
CreatedFile == [wal |-> 1, ckpt |-> 0, footer |-> 2, log |-> << >>,
                cells |-> <<Free, TocCell(EmptyToc)>>]
Create ==
  /\ file = CreatedFile
  /\ handle = OpenedHandle(CreatedFile)
  /\ parentOf = [s \in 1..MaxSeq |-> 0]

Init == Create

FrameIds == 1..MaxSeq

Next ==
  \/ \E chunks \in {0} \cup Chunkings : PutDocument(chunks)
  \/ PutChunk \/ PutFails
  \/ \E i \in FrameIds : UpdateFrame(i) \/ DeleteFrame(i)
  \/ \E c \in Cards : PutMemoryCard(c)
  \/ Commit \/ CommitFails \/ CommitSkipIndexes \/ FinalizeIndexes
  \/ Vacuum \/ Drop \/ Crash \/ Open

Spec == Init /\ [][Next]_vars

-----------------------------------------------------------------------------
\* What a memory holds: the frames of its TOC, changed as the records of its
\* log ask for.
Held(f) == [pay |-> f.pay, role |-> f.role, status |-> f.status]
Promised(held, r) ==
  IF r.op = "tombstone" THEN [held EXCEPT ![r.target].status = "deleted"]
  ELSE IF r.op = "lex" THEN held
  ELSE LET new == [pay |-> IF r.reuse = 0 THEN r.seq ELSE held[r.reuse].pay,
                   role |-> r.role, status |-> "active"]
       IN Append(IF r.target = 0 THEN held
                 ELSE [held EXCEPT ![r.target].status = "superseded"], new)
View ==
  FoldLeft(Promised,
           [i \in DOMAIN ReadToc(file).frames |-> Held(ReadToc(file).frames[i])],
           file.log)

Contract == INSTANCE StoreContract WITH memory <- View, Payloads <- 1..MaxSeq

\* Commits, failed commits, recoveries, growth of the log, vacuum and crashes
\* change nothing a memory holds; a put, an update or a delete changes only
\* its own frames (mutation.rs, lifecycle.rs).
KeepsStore == Contract!Spec

\* An active frame has its own bytes, before and after a recovery
\* (mutation.rs apply_records, rebuild_indexes, grow_wal_region, vacuum).
Intact(f, t) ==
  \A i \in DOMAIN t.frames : t.frames[i].status = "active" =>
    /\ t.frames[i].off \in DOMAIN f.cells
    /\ f.cells[t.frames[i].off] = Payload(t.frames[i].pay)

PayloadsIntact ==
  /\ Intact(file, ReadToc(file))
  /\ CanOpen(file) => LET s == Recovered(file) IN Intact(s.file, s.handle.toc)

\* However the process ended, the memory opens again (lifecycle.rs open_locked).
Reopens == CanOpen(file)

\* A chunk hangs on the document it is a part of, however the put was cut
\* short (mutation.rs apply_records).
ChunksLinked ==
  LET frames == Recovered(file).handle.toc.frames IN
  \A i \in DOMAIN frames : frames[i].role = "chunk" =>
    /\ frames[i].parent \in 1..(i - 1)
    /\ frames[frames[i].parent].seq = parentOf[frames[i].seq]

TypeOK ==
  /\ file.wal \in 1..MaxWal /\ NextSeq(file) \in 1..(MaxSeq + 1)
  /\ file.footer \in DOMAIN file.cells
  /\ handle.open =>
       /\ handle.footer >= file.footer
       /\ handle.dataEnd >= WalEnd(file) /\ handle.cards \subseteq Cards
       /\ handle.toc.frames = ReadToc(file).frames
=============================================================================
