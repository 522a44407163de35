---------------------------- MODULE PutPipeline ----------------------------
(****************************************************************************)
(* What put, update, delete and commit do to the indexes of a memory         *)
(* (memvid/mutation.rs, search/api.rs, search/builders.rs, lib.rs): frames   *)
(* wait as records of the log, instant indexing shows some of them before    *)
(* they are committed, and a commit brings the lexical, the vector and the   *)
(* time index up to date or leaves all three behind for a later pass.        *)
(*                                                                           *)
(* The whole memory is one record, so that a handler is a composition of     *)
(* functions from memory to memory.  A frame has the number of its place in  *)
(* the table of contents (TOC), counted from zero; a record of the log has a *)
(* sequence number, counted from one.  Where the segments lie in the file,   *)
(* and failures half-way, are the subject of MemvidStore.                    *)
(****************************************************************************)
EXTENDS Integers, Sequences, FiniteSets, SequencesExt

CONSTANTS
  Contents,        \* what is put
  LongText,        \* those that are cut into two chunks
  Binary,          \* those without text
  Telling,         \* those in which the triplet rules find a fact
  PutOptions,      \* the sets of options of a put
  Dims,            \* the dimensions of the vectors that are offered
  AutoCheckpoint,  \* records in the log that make a put commit
  PutLimit         \* bound: sequence numbers

VARIABLE memory

putVars == <<memory>>

NoManifest == -1
Unbound == 0

\* One frame, of a document or of a chunk, with the dimension and the record of
\* its vector (Unbound when it has none).
Frame(r) == [of |-> r.of, role |-> r.role, dim |-> r.dim, from |-> r.from, active |-> TRUE]
\* What the readers get a text from, and the types whose text may be indexed.
HasText(c) == c \notin Binary
Docs(frames) == {i \in DOMAIN frames : frames[i].active /\ HasText(frames[i].of)}
\* What a rebuild of the engine indexes: active frames that have a text.
Indexable(frames) == {<<i - 1, frames[i].of>> : i \in Docs(frames)}
Vectors(frames) ==
  {[id |-> i - 1, dim |-> frames[i].dim, from |-> frames[i].from] :
     i \in {j \in DOMAIN frames : frames[j].active /\ frames[j].dim # Unbound}}
TimeEntries(frames) ==
  {i - 1 : i \in {j \in DOMAIN frames : frames[j].active /\ frames[j].role = "document"}}

-----------------------------------------------------------------------------
\* Records of the log.

Insert(seq, c, role, dim, opts, kills) ==
  [op |-> "put", seq |-> seq, of |-> c, role |-> role, dim |-> dim, from |-> seq,
   shown |-> "instant" \in opts /\ role = "document" /\ HasText(c), kills |-> kills]
Tombstone(seq, i) == [op |-> "delete", seq |-> seq, target |-> i]
LexBatch(seq) == [op |-> "lex", seq |-> seq]

Nobody == 0

\* A document and, when its text is long, its chunks; the vectors of the chunks
\* come with the call.
RecordsOf(m, c, opts, dim, kills) ==
  LET chunkDim == IF "perChunk" \in opts THEN dim ELSE Unbound IN
  <<Insert(m.seq + 1, c, "document", dim, opts, kills)>>
  \o (IF c \in LongText
      THEN <<Insert(m.seq + 2, c, "chunk", chunkDim, opts, Nobody),
             Insert(m.seq + 3, c, "chunk", chunkDim, opts, Nobody)>>
      ELSE << >>)

Logged(m, records) ==
  [m EXCEPT !.log = @ \o records, !.seq = @ + Len(records), !.dirty = TRUE]

Inserts(log) == SelectSeq(log, LAMBDA r : r.op = "put")
Changes(log) == SelectSeq(log, LAMBDA r : r.op # "lex")

-----------------------------------------------------------------------------
\* Applying the log.

\* The engine holds documents, each under the number it was added with.
EngineAdded(lex, id, c) == lex \cup {<<id, c>>}
EngineDeleted(lex, id) == {d \in lex : d[1] # id}

DroppedFrom(m, i) ==
  [m EXCEPT !.frames[i].active = FALSE,
            !.lex = IF m.engine THEN EngineDeleted(@, i - 1) ELSE @,
            !.stale = @ \/ m.engine,
            !.vecs = {v \in @ : v.id # i - 1}]

\* The frame is indexed in the engine, its predecessor leaves the indexes.
InsertApplied(m, r) ==
  LET shown == [m EXCEPT !.lex = IF m.engine THEN EngineAdded(@, Len(m.frames), r.of) ELSE @,
                         !.stale = @ \/ m.engine]
      freed == IF r.kills = Nobody THEN shown ELSE DroppedFrom(shown, r.kills)
  IN [freed EXCEPT !.frames = Append(@, Frame(r))]

RecordApplied(m, r) ==
  CASE r.op = "put" -> InsertApplied(m, r)
    [] r.op = "delete" -> DroppedFrom(m, r.target)
    [] OTHER -> m
Applied(m) == FoldLeft(RecordApplied, m, m.log)

\* The frames and the vectors the log brings, by number.
NewFrames(m, after) == {i \in DOMAIN after.frames : i > Len(m.frames)}
NewVectors(m, after) == {v \in Vectors(after.frames) : v.id + 1 > Len(m.frames)}

-----------------------------------------------------------------------------
\* The indexes.

\* A mutant: new documents are added although the engine shows some of them
\* under the numbers of their records.
RebuiltLexAdded(m, new) ==
  m.lex \cup {d \in Indexable(m.frames) : d[1] + 1 \in new}

\* Everything anew when the engine holds what the frames do not have.
RebuiltLex(m, new) ==
  IF m.stale \/ new = {} THEN Indexable(m.frames)
  ELSE m.lex \cup {d \in Indexable(m.frames) : d[1] + 1 \in new}

\* The engine's segments are written behind the data, with a record of the log.
WithSegments(m) ==
  [m EXCEPT !.disk.lex = m.lex, !.disk.hasLex = TRUE,
            !.seq = @ + 1, !.log = Append(@, LexBatch(m.seq + 1))]
Flushed(m) == IF m.stale THEN [WithSegments(m) EXCEPT !.stale = FALSE] ELSE m

\* Vectors in memory whose frame is active, and the new ones; without a manifest
\* vectors are off and the new ones are shed.
BuiltVectors(m, new) ==
  IF m.dim = NoManifest THEN {}
  ELSE {v \in m.vecs : m.frames[v.id + 1].active} \cup new
DimensionOf(vecs) == IF vecs = {} THEN Unbound ELSE (CHOOSE v \in vecs : TRUE).dim

RebuiltIndexes(m, newVecs, new) ==
  LET vecs == BuiltVectors(m, newVecs) IN
  Flushed([m EXCEPT !.time = TimeEntries(m.frames),
                    !.lex = RebuiltLex(m, new),
                    !.stale = TRUE,
                    !.vecs = vecs,
                    !.dim = IF @ = NoManifest THEN @ ELSE DimensionOf(vecs),
                    !.shed = @ \cup {v \in newVecs : v \notin vecs},
                    !.bare = FALSE])

\* The TOC with everything it refers to.
Saved(m) ==
  [m EXCEPT !.disk = [frames |-> m.frames, lex |-> @.lex, hasLex |-> @.hasLex,
                      time |-> m.time, vecs |-> m.vecs, dim |-> m.dim,
                      tasks |-> m.tasks, cards |-> m.cards]]
Checkpointed(m) == [m EXCEPT !.log = << >>, !.dirty = FALSE]

\* commit: nothing to do unless a record, a change or the engine waits.
Committed(m) ==
  LET after == Applied(m)
      indexed == IF Changes(m.log) = << >> THEN Flushed(after)
                 ELSE RebuiltIndexes(after, NewVectors(m, after), NewFrames(m, after))
  IN IF m.log = << >> /\ ~m.dirty /\ ~m.stale THEN m
     ELSE Checkpointed(Saved(indexed))

\* The engine is taken away while the log is applied; manifests are cleared and
\* the vectors of the new frames go nowhere.
CommittedBare(m) ==
  LET after == [Applied([m EXCEPT !.engine = FALSE]) EXCEPT !.engine = TRUE]
      bare == [after EXCEPT !.stale = FALSE, !.time = {}, !.bare = TRUE,
                            !.shed = @ \cup NewVectors(m, after)]
  IN IF m.log = << >> /\ ~m.dirty THEN m
     ELSE [Checkpointed(Saved(bare)) EXCEPT !.disk.lex = {}, !.disk.hasLex = FALSE,
                                            !.disk.vecs = {}, !.disk.cards = {}]

AutoCommitted(m) ==
  IF ~m.batch /\ Len(m.log) >= AutoCheckpoint THEN Committed(m) ELSE m

-----------------------------------------------------------------------------
\* put.

\* Vectors are switched on by the first one, and all have one dimension.
Enabled(m) == IF m.dim = NoManifest THEN [m EXCEPT !.dim = Unbound, !.dirty = TRUE] ELSE m
DimensionFits(m, dim) == dim = Unbound \/ m.dim \in {NoManifest, Unbound, dim}
Bound(m, dim) ==
  IF dim = Unbound THEN m
  ELSE [Enabled(m) EXCEPT !.dim = IF @ = Unbound THEN dim ELSE @]

\* Instant indexing shows the document under its sequence number.
ShownAtOnce(m, r) ==
  IF r.shown THEN [m EXCEPT !.lex = EngineAdded(@, r.seq, r.of), !.stale = TRUE] ELSE m
\* So does the task of the background worker.
Queued(m, seq, opts) ==
  IF {"instant", "embedLater"} \subseteq opts THEN [m EXCEPT !.tasks = Append(@, seq)] ELSE m
\* The cards of a text are added last and leave the memory as clean as it was.
Told(m, seq, c) == IF c \in Telling THEN [m EXCEPT !.cards = @ \cup {seq}] ELSE m

PutInternal(m, c, opts, dim, kills) ==
  LET records == RecordsOf(m, c, opts, dim, kills)
      first == records[1]
      shown == Queued(ShownAtOnce(Logged(Bound(m, dim), <<first>>), first), first.seq, opts)
  IN Told(AutoCommitted(Logged(shown, Tail(records))), first.seq, c)

WithinLimit == memory.seq + 4 <= PutLimit

Put(c, opts, dim) ==
  /\ WithinLimit
  /\ DimensionFits(memory, dim)
  /\ memory' = PutInternal(memory, c, opts, dim, Nobody)

Actives == {i \in DOMAIN memory.frames : memory.frames[i].active}

\* An update with a new payload: without a vector of its own it takes the one
\* of the frame it replaces.
CarriedDim(m, i) ==
  LET own == {v \in m.vecs : v.id = i - 1} IN
  IF m.dim = NoManifest THEN Unbound ELSE DimensionOf(own)

UpdateFrame(i, c, dim) ==
  LET carried == IF dim = Unbound THEN CarriedDim(memory, i) ELSE dim IN
  /\ WithinLimit
  /\ DimensionFits(memory, carried)
  /\ memory' = PutInternal(memory, c, {}, carried, i)

DeleteFrame(i) ==
  /\ WithinLimit
  /\ memory' = AutoCommitted(Logged(memory, <<Tombstone(memory.seq + 1, i)>>))

-----------------------------------------------------------------------------
\* The other operations.

EnableVec ==
  /\ memory.dim = NoManifest
  /\ memory' = Enabled(memory)

Commit ==
  /\ WithinLimit
  /\ memory' = Committed(memory)

CommitSkipIndexes ==
  /\ WithinLimit
  /\ memory' = CommittedBare(memory)

\* finalize_indexes belongs after commit_skip_indexes, when no put waits.
FinalizeIndexes ==
  /\ WithinLimit
  /\ Changes(memory.log) = << >>
  /\ memory' = Saved(RebuiltIndexes(memory, {}, {}))

BeginBatch == ~memory.batch /\ memory' = [memory EXCEPT !.batch = TRUE]
EndBatch == memory.batch /\ memory' = [memory EXCEPT !.batch = FALSE]

\* Opening: the engine comes from its segments or is built from the frames, then
\* the log is applied, and the cards are read after that.
EngineFrom(d) == IF d.hasLex THEN d.lex ELSE Indexable(d.frames)
Opened(m) ==
  LET d == m.disk IN
  [m EXCEPT !.frames = d.frames, !.time = d.time, !.vecs = d.vecs, !.dim = d.dim,
            !.lex = EngineFrom(d), !.stale = ~d.hasLex,
            !.tasks = d.tasks, !.cards = {}, !.dirty = FALSE, !.batch = FALSE,
            !.shed = IF m.bare THEN @ \cup (m.vecs \ d.vecs) ELSE @]
Recovered(m) ==
  LET after == Applied(m) IN
  IF m.log = << >> THEN Flushed(m)
  ELSE IF Changes(m.log) = << >> THEN Checkpointed(Flushed(after))
  ELSE Checkpointed(Saved(RebuiltIndexes(after, NewVectors(m, after), NewFrames(m, after))))
CardsRead(m) == [m EXCEPT !.cards = m.disk.cards]

Reopened(m) == CardsRead(Recovered(Opened(m)))
Crash == WithinLimit /\ memory' = Reopened(memory)
Close == WithinLimit /\ memory' = Reopened(IF memory.dirty THEN Committed(memory) ELSE memory)

-----------------------------------------------------------------------------
\* A new memory: the lexical index is on, vectors are off until one comes.
PutInit ==
  memory = [frames |-> << >>, log |-> << >>, seq |-> 0, engine |-> TRUE, lex |-> {},
            stale |-> TRUE, time |-> {}, vecs |-> {}, dim |-> NoManifest, tasks |-> << >>,
            cards |-> {}, dirty |-> FALSE, batch |-> FALSE, bare |-> FALSE, shed |-> {},
            disk |-> [frames |-> << >>, lex |-> {}, hasLex |-> FALSE, time |-> {},
                      vecs |-> {}, dim |-> NoManifest, tasks |-> << >>, cards |-> {}]]

PutNext ==
  \/ \E c \in Contents, opts \in PutOptions, dim \in Dims \cup {Unbound} : Put(c, opts, dim)
  \/ \E i \in Actives, c \in Contents, dim \in Dims \cup {Unbound} : UpdateFrame(i, c, dim)
  \/ \E i \in Actives : DeleteFrame(i)
  \/ EnableVec
  \/ Commit
  \/ CommitSkipIndexes
  \/ FinalizeIndexes
  \/ BeginBatch
  \/ EndBatch
  \/ Crash
  \/ Close

PutSpec == PutInit /\ [][PutNext]_putVars

-----------------------------------------------------------------------------
\* The lexical index finds every committed frame that has a text and, beside
\* these, only documents that instant indexing shows and that still wait; the
\* time index lists the active documents; and a reopened memory would find the
\* same.  Only commit_skip_indexes leaves the three behind (bare), until they
\* are rebuilt (memvid/mutation.rs rebuild_indexes, search/api.rs init_tantivy).
IndexesAgree ==
  memory.bare \/
    LET waiting == {<<r.seq, r.of>> : r \in {q \in Range(Inserts(memory.log)) : q.shown}}
        disk == memory.disk
    IN /\ Indexable(memory.frames) \subseteq memory.lex
       /\ memory.lex \subseteq Indexable(memory.frames) \cup waiting
       /\ memory.time = TimeEntries(memory.frames)
       /\ disk.frames = memory.frames
       /\ disk.hasLex => disk.lex = Indexable(disk.frames)
       /\ disk.time = memory.time

\* Every vector is the one its active frame was put with, none of a committed
\* frame is missing but those that were shed before they reached the index, and
\* all of them, those still in the log included, have one dimension.
VectorsOfFrames ==
  LET own == Vectors(memory.frames)
      waiting == {r \in Range(Inserts(memory.log)) : r.dim # Unbound}
  IN /\ memory.vecs \subseteq own
     /\ memory.bare \/ own \ memory.shed \subseteq memory.vecs
     /\ Cardinality({v.dim : v \in memory.vecs} \cup {r.dim : r \in waiting}) <= 1

=============================================================================
