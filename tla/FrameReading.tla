--------------------------- MODULE FrameReading ---------------------------
(***************************************************************************)
(* What src/memvid/src/memvid gives back of the documents put into a       *)
(* memory file: put_internal, update_frame and delete_frame queue records  *)
(* (mutation.rs), a commit turns them into frames, and frame.rs reads      *)
(* frames back, by id or by URI, as bytes, as text, as a preview or as one *)
(* chunk in its document.                                                  *)
(*                                                                         *)
(* A text is a sequence of pieces; a text of more than one piece is long   *)
(* enough to be cut into chunks, one for each piece.  Frame ids count from *)
(* 1 and 0 is none.  `doc' is no field of the code: it remembers the text  *)
(* the frame was made of.                                                  *)
(***************************************************************************)
EXTENDS Integers, Sequences, FiniteSets, FiniteSetsExt, SequencesExt

CONSTANTS
  Inputs,      \* what can be put: [text, binary, image], see PutRecords
  Uris,
  MaxFrames,   \* bound on committed and queued frames
  MaxQueue     \* bound on the records queued between two commits

VARIABLES
  frames,      \* toc.frames
  queue,       \* records of the write-ahead log that are not applied yet
  raced,       \* history: two queued changes named the same frame
  reading      \* the answers of the last read

frameVars == <<frames, queue, raced, reading>>

NoReading == [of |-> 0]
Failed == <<"failed">>     \* an Err

\* augment_search_text: the URI, like the title and the tags, becomes part
\* of the text a frame is indexed and read by.
Augmented(base, uri) == Append(base, uri[1])

\* The first chunk stands for the whole text of a document that is chunked.
SearchText(base, uri, chunked) == IF chunked THEN <<base[1]>> ELSE Augmented(base, uri)

Record(fields) ==
  fields @@ [op |-> "insert", target |-> 0, supersedes |-> 0, reuse |-> 0,
             parent |-> FALSE, index |-> 0, manifest |-> 0, role |-> "document",
             image |-> FALSE]

\* put_internal: a text in UTF-8 is stored compressed, or, when it is long,
\* only in its chunks; of a binary document the original is stored beside the
\* chunks of the text that was extracted from it.
PutRecords(input, uri, supersedes) ==
  LET chunked == Len(input.text) > 1
      parent == Record([
        uri |-> uri, supersedes |-> supersedes, doc |-> input.text,
        payload |-> IF input.binary THEN <<"raw">> ELSE IF chunked THEN <<>> ELSE input.text,
        encoding |-> IF input.binary \/ chunked THEN "plain" ELSE "zstd",
        text |-> SearchText(input.text, uri, chunked), image |-> input.image,
        manifest |-> IF chunked THEN Len(input.text) ELSE 0])
      chunk(i) == Record([
        uri |-> Append(uri, i), doc |-> <<input.text[i]>>, payload |-> <<input.text[i]>>,
        encoding |-> "zstd", text |-> <<input.text[i]>>, role |-> "chunk",
        parent |-> TRUE, index |-> i])
  IN <<parent>> \o (IF chunked THEN [i \in DOMAIN input.text |-> chunk(i)] ELSE <<>>)

\* The same for an update without a payload: the bytes of the old frame are
\* reused and its text is augmented once more.  Its metadata is known, so
\* nothing is extracted and no chunk is planned.
ReuseRecord(id) ==
  LET old == frames[id] IN
  Record([uri |-> old.uri, supersedes |-> id, reuse |-> id, doc |-> old.doc,
          payload |-> <<>>, encoding |-> old.encoding, image |-> old.image,
          text |-> Augmented(old.text, old.uri)])

-----------------------------------------------------------------------------
(* A commit. *)

\* The frame a chunk belongs to: the parent of its own put, which is in the
\* same batch.
ParentOf(list, inserted) ==
  Max({0} \cup {f \in inserted : list[f].role = "document" /\ list[f].manifest > 0})

\* Mutant: an update without a payload leaves the old frame active.
SupersededIfReplaced(list, record) ==
  IF record.supersedes = 0 \/ record.reuse # 0 THEN list
  ELSE [list EXCEPT ![record.supersedes].status = "superseded",
                    ![record.supersedes].by = Len(list) + 1]

\* mark_frame_superseded.
Superseded(list, record) ==
  IF record.supersedes = 0 THEN list
  ELSE [list EXCEPT ![record.supersedes].status = "superseded",
                    ![record.supersedes].by = Len(list) + 1]

\* apply_records, one record.
Applied(list, record, base) ==
  IF record.op = "tombstone"
  THEN [list EXCEPT ![record.target].status = "deleted", ![record.target].by = 0]
  ELSE Append(Superseded(list, record),
         [uri |-> record.uri, role |-> record.role, status |-> "active", doc |-> record.doc,
          payload |-> IF record.reuse = 0 THEN record.payload ELSE list[record.reuse].payload,
          encoding |-> record.encoding, text |-> record.text, manifest |-> record.manifest,
          image |-> record.image, reused |-> record.reuse # 0,
          parent |-> IF record.parent THEN ParentOf(list, base + 1 .. Len(list)) ELSE 0,
          index |-> record.index, supersedes |-> record.supersedes, by |-> 0])

AppliedAll(list, records) ==
  FoldLeft(LAMBDA acc, record : Applied(acc, record, Len(list)), list, records)

-----------------------------------------------------------------------------
(* Reading. *)

\* frame_by_uri: the newest active frame of the URI, without one the newest.
FrameByUri(uri) ==
  LET named == {f \in DOMAIN frames : frames[f].uri = uri}
      active == {f \in named : frames[f].status = "active"}
  IN IF active # {} THEN Max(active) ELSE Max(named \cup {0})

\* document_chunk_frames, in the order of their index.
ChunkFrames(id) ==
  SetToSortSeq({f \in DOMAIN frames : frames[f].status = "active"
                  /\ frames[f].role = "chunk" /\ frames[f].parent = id},
               LAMBDA a, b : \/ frames[a].index < frames[b].index
                             \/ frames[a].index = frames[b].index /\ a < b)

\* Mutant: a document is read from whatever chunks are left.
AnyChunk(id) == ChunkFrames(id) # <<>>

\* document_chunk_payloads: every chunk of the manifest has to be there ...
Complete(id) == ChunkFrames(id) # <<>> /\ Len(ChunkFrames(id)) = frames[id].manifest

\* ... and then they are read in order.
ChunkPayloads(id) ==
  [i \in DOMAIN ChunkFrames(id) |-> frames[ChunkFrames(id)[i]].payload]

IsChunked(id) == frames[id].role = "document" /\ frames[id].manifest > 0

\* frame_canonical_bytes: a chunked document is its chunks, whatever payload
\* of its own it has.
CanonicalBytes(id) ==
  IF ~IsChunked(id) THEN frames[id].payload
  ELSE IF Complete(id) THEN FlattenSeq(ChunkPayloads(id)) ELSE Failed

\* frame_canonical_text.
CanonicalText(id) ==
  IF IsChunked(id) THEN CanonicalBytes(id)
  ELSE IF frames[id].text # <<>> THEN frames[id].text ELSE CanonicalBytes(id)

\* frame_content, and with it frame_text_by_id: the indexed text when there
\* is one.
FrameContent(id) ==
  IF frames[id].text # <<>> THEN frames[id].text
  ELSE IF frames[id].payload = <<>> /\ frames[id].manifest = 0 THEN <<>>
  ELSE CanonicalText(id)

\* frame_preview: the caption of an image before any text.
Preview(id) ==
  IF frames[id].image THEN <<"caption">>
  ELSE IF frames[id].text # <<>> THEN <<frames[id].text[1]>>
  ELSE IF frames[id].payload = <<>> THEN <<>>
  ELSE IF CanonicalText(id) = Failed THEN <<"invalid frame">> ELSE <<CanonicalText(id)[1]>>

\* blob_reader_from_frame: the stored bytes of a plain frame, the canonical
\* ones of a compressed frame.
Blob(id) == IF frames[id].encoding = "plain" THEN frames[id].payload ELSE CanonicalBytes(id)

\* resolve_chunk_context: where the text of a frame stands in its document.
\* A chunk whose document cannot be put together stands for itself.
ChunkContext(id) ==
  LET self == [start |-> 0, text |-> IF frames[id].text # <<>> THEN frames[id].text
                                     ELSE CanonicalBytes(id)]
      parent == frames[id].parent
      pieces == ChunkPayloads(parent)
  IN IF IsChunked(id)
     THEN [start |-> 0, text |-> IF Complete(id) THEN ChunkPayloads(id)[1] ELSE Failed]
     ELSE IF parent # 0 /\ IsChunked(parent) /\ Complete(parent)
             /\ frames[id].index \in DOMAIN pieces
     THEN [start |-> Len(FlattenSeq(SubSeq(pieces, 1, frames[id].index - 1))),
           text |-> pieces[frames[id].index]]
     ELSE self

-----------------------------------------------------------------------------

FrameInit ==
  frames = <<>> /\ queue = <<>> /\ raced = FALSE /\ reading = NoReading

Inserts == Cardinality({i \in DOMAIN queue : queue[i].op = "insert"})
Room(n) == Len(frames) + Inserts + n <= MaxFrames /\ Len(queue) + n <= MaxQueue

\* Whether a queued record already replaces or deletes the frame.
Named(id) == \E i \in DOMAIN queue : id \in {queue[i].supersedes, queue[i].target}

Put(input, uri) ==
  /\ Room(Len(PutRecords(input, uri, 0)))
  /\ queue' = queue \o PutRecords(input, uri, 0)
  /\ reading' = NoReading
  /\ UNCHANGED <<frames, raced>>

\* update_frame with a payload; the URI is the one of the old frame.
UpdatePayload(id, input) ==
  /\ frames[id].status = "active"
  /\ Room(Len(PutRecords(input, frames[id].uri, id)))
  /\ queue' = queue \o PutRecords(input, frames[id].uri, id)
  /\ raced' = (raced \/ Named(id))
  /\ reading' = NoReading
  /\ UNCHANGED frames

\* update_frame without a payload reads the old bytes first.
UpdateMetadata(id) ==
  /\ frames[id].status = "active"
  /\ CanonicalBytes(id) # Failed
  /\ Room(1)
  /\ queue' = Append(queue, ReuseRecord(id))
  /\ raced' = (raced \/ Named(id))
  /\ reading' = NoReading
  /\ UNCHANGED frames

Delete(id) ==
  /\ frames[id].status = "active"
  /\ Room(1)
  /\ queue' = Append(queue, [op |-> "tombstone", target |-> id, supersedes |-> 0])
  /\ raced' = (raced \/ Named(id))
  /\ reading' = NoReading
  /\ UNCHANGED frames

Commit ==
  /\ queue # <<>>
  /\ frames' = AppliedAll(frames, queue)
  /\ queue' = <<>>
  /\ reading' = NoReading
  /\ UNCHANGED raced

\* The process dies in the middle of a put: of the records of the last put a
\* prefix is in the log, and the next open applies it.
CrashAndOpen(n) ==
  /\ queue # <<>>
  /\ n \in 1 .. Len(queue)
  /\ \A i \in n + 1 .. Len(queue) : queue[i].op = "insert" /\ queue[i].parent
  /\ frames' = AppliedAll(frames, SubSeq(queue, 1, n))
  /\ queue' = <<>>
  /\ reading' = NoReading
  /\ UNCHANGED raced

Read(id) ==
  /\ reading' = [of |-> id, bytes |-> CanonicalBytes(id), text |-> FrameContent(id),
                 preview |-> Preview(id), blob |-> Blob(id), context |-> ChunkContext(id)]
  /\ UNCHANGED <<frames, queue, raced>>

ReadByUri(uri) ==
  /\ FrameByUri(uri) # 0
  /\ Read(FrameByUri(uri))

FrameNext ==
  \/ \E input \in Inputs, uri \in Uris : Put(input, uri)
  \/ \E id \in DOMAIN frames, input \in Inputs : UpdatePayload(id, input)
  \/ \E id \in DOMAIN frames : UpdateMetadata(id) \/ Delete(id) \/ Read(id)
  \/ Commit
  \/ \E n \in 1 .. MaxQueue : CrashAndOpen(n)
  \/ \E uri \in Uris : ReadByUri(uri)

FrameSpec == FrameInit /\ [][FrameNext]_frameVars

-----------------------------------------------------------------------------

\* The bytes of a chunked document are all of its text or an error, never a
\* part of it, whichever of its chunks were deleted, replaced or lost in a
\* crash, and a chunk of a document that can be read is placed where its text
\* stands in the document.
WholeOrError ==
  (reading.of # 0 /\ frames[reading.of].status = "active") =>
    LET f == frames[reading.of] IN
    /\ IsChunked(reading.of) => reading.bytes \in {Failed, f.doc}
    /\ (f.role = "chunk" /\ f.parent # 0 /\ IsChunked(f.parent) /\ Complete(f.parent)) =>
         /\ reading.context.text = f.doc
         /\ SubSeq(frames[f.parent].doc, reading.context.start + 1,
                   reading.context.start + Len(f.doc)) = f.doc

\* Unless two changes of one frame were queued before a commit, a document
\* has at most one active version, the frame that supersedes the others, and
\* every superseded frame leads to its successor.
OneVersion ==
  ~raced =>
    \A f \in DOMAIN frames :
      /\ frames[f].supersedes # 0 =>
           LET old == frames[frames[f].supersedes] IN
           old.status = "superseded" /\ old.by = f
      /\ frames[f].status = "superseded" => frames[frames[f].by].supersedes = f

\* Expected by memvid/frame.rs:277 of frame_text_by_id, `this returns the
\* complete text content suitable for LLM processing'.
FullText ==
  reading.of # 0 => Range(frames[reading.of].doc) \subseteq Range(reading.text)

\* Reading a document through a reader or as a payload gives the same bytes.
BlobAgrees ==
  reading.of # 0 => reading.blob = reading.bytes

\* An update that only changes metadata keeps the bytes of the document.
UpdateKeepsBytes ==
  reading.of # 0 /\ frames[reading.of].reused =>
    reading.bytes = CanonicalBytes(frames[reading.of].supersedes)

\* A document that was deleted is gone with its chunks.
ChunksFollow ==
  \A f \in DOMAIN frames :
    frames[f].parent # 0 /\ frames[f].status = "active" =>
      frames[frames[f].parent].status = "active"

=============================================================================
