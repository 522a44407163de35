--------------------------- MODULE DocumentChunks ---------------------------
(* From a text to its chunks: detect_structure finds tables, code blocks,     *)
(* lists and headings line by line, the structural chunker turns the elements *)
(* into chunks that keep them together, and a text without tables and code is *)
(* cut into pieces of about the same length (structure/detector.rs,           *)
(* structure/chunker.rs, memvid/chunks.rs, text.rs).  A line is its kind: a   *)
(* table "row" or "sep"arator, a "fence" that names a language, a "close" (a  *)
(* bare fence), an "item" or "num"bered item, a "head"ing, a "rule", a "fn"   *)
(* line that starts a function, and other "text".  The text of a chunk is the *)
(* sequence of the numbers of its lines.  Blank lines do not reach the        *)
(* detector: normalize_text compacts them away.                               *)
EXTENDS Integers, FiniteSets, Sequences, SequencesExt, FiniteSetsExt

CONSTANTS Cases,        \* [doc, table, code, lists, headers]: lines and ChunkingOptions
          Plain,        \* plain texts: sequences of "nl", "space", "stop", "letter"
          Width, Bytes, \* characters and bytes of a line of each kind
          ChunkMax,     \* max_chars
          HeaderSlack,  \* the 10 characters a header is charged on top of its own
          OverlapLines, \* lines of overlap, at least 2
          PlainMax, PlainSlack, \* chunk_chars and slack of a plain text
          PieceLimit    \* bound on the pieces of one code block


VARIABLES job,       \* the case, or the plain text, being chunked
          stage,     \* "detect", "chunk", "overlap", "plain" or "done"
          line,      \* next line to look at; char_offset in offset
          offset,
          elements,  \* detected elements: [type, lines, from, to]
          elem,      \* next element to chunk
          text, lent,\* current_text: its lines, after the heading repeated before them
          textStart, \* current_start
          heading,   \* pending_heading: its line, if any
          pieces,    \* content lines of the code pieces cut so far; start_line in cut
          cut,
          chunks     \* [kind, lines, lent, from, to, part]; lent: lines repeated as context

chunkVars == <<job, stage, line, offset, elements, elem, text, lent, textStart, heading, pieces, cut, chunks>>

doc == job.doc
LinesFrom(i, j) == [m \in 1 .. j - i + 1 |-> i + m - 1]
Chars(ls) == FoldLeft(LAMBDA n, i : n + Width[doc[i]] + 1, 0, ls)

------------------------------------------------------------------------------
(* normalize_text, and the boundaries of a plain text. *)

\* A run of newlines becomes one, a run of spaces one, none after a newline.
Compacted(out, ch) ==
  CASE ch = "nl" -> IF out # <<>> /\ Last(out) = "nl" THEN out
                    ELSE Append(IF out # <<>> /\ Last(out) = "space" THEN Front(out) ELSE out, "nl")
    [] ch = "space" -> IF out # <<>> /\ Last(out) \in {"space", "nl"} THEN out ELSE Append(out, ch)
    [] OTHER -> Append(out, ch)
White == {"nl", "space"}
NormalizedText(chars) ==
  LET out == FoldLeft(Compacted, <<>>, chars)
      kept == {i \in DOMAIN out : out[i] \notin White}
  IN IF kept = {} THEN <<>> ELSE SubSeq(out, Min(kept), Max(kept))

\* Mutant: without the last resort, a space before the target.
BoundaryForward(chars, from, target) ==
  IF target >= Len(chars) THEN Len(chars)
  ELSE LET limit == Min({target + PlainSlack, Len(chars)})
           ahead(k) == {i \in target + 1 .. limit : chars[i] = k}
           behind == {i \in from + 1 .. target : chars[i] \in {"nl", "stop"}}
       IN IF ahead("nl") # {} THEN Min(ahead("nl"))
          ELSE IF behind # {} THEN Max(behind)
          ELSE IF ahead("stop") # {} THEN Min(ahead("stop"))
          ELSE IF ahead("space") # {} THEN Min(ahead("space"))
          ELSE target
\* choose_chunk_boundary: a newline in the slack behind the target; else the last
\* newline or end of sentence before it, and only then an end of sentence in the
\* slack; else a space, in the slack or before the target; else the target.
Boundary(chars, from, target) ==
  IF target >= Len(chars) THEN Len(chars)
  ELSE LET limit == Min({target + PlainSlack, Len(chars)})
           ahead(k) == {i \in target + 1 .. limit : chars[i] = k}
           behind(ks) == {i \in from + 1 .. target : chars[i] \in ks}
       IN IF ahead("nl") # {} THEN Min(ahead("nl"))
          ELSE IF behind({"nl", "stop"}) # {} THEN Max(behind({"nl", "stop"}))
          ELSE IF ahead("stop") # {} THEN Min(ahead("stop"))
          ELSE IF ahead("nl") \cup ahead("space") # {} THEN Min(ahead("nl") \cup ahead("space"))
          ELSE IF behind(White) # {} THEN Max(behind(White))
          ELSE target

\* One round of build_chunk_manifest: the piece after the last one.
PlainPiece ==
  LET chars == NormalizedText(job.chars)
      end == Boundary(chars, cut, Min({cut + PlainMax, Len(chars)}))
  IN /\ stage = "plain"
     /\ IF Len(chars) <= PlainMax \/ cut >= Len(chars)
        THEN stage' = "done" /\ UNCHANGED <<pieces, cut>>
        ELSE /\ pieces' = Append(pieces, <<cut, end>>)
             /\ cut' = end
             /\ UNCHANGED stage
     /\ UNCHANGED <<job, line, offset, elements, elem, text, lent, textStart, heading, chunks>>

------------------------------------------------------------------------------
(* detect_structure: one element, or one skipped line, per round. *)

RowLine == {"row", "sep"}
FenceLine == {"fence", "close"}
ParagraphLine == {"text", "fn", "wide"}
\* The last line of the run of such lines that starts at i.
RunEnd(i, kinds) == Max({j \in i .. Len(doc) : \A m \in i .. j : doc[m] \in kinds})

TableAt(i) == /\ i < Len(doc) /\ doc[i] \in RowLine /\ doc[i + 1] = "sep"
TableEnd(i) == RunEnd(i, RowLine)
CloseOf(i) == {j \in i + 1 .. Len(doc) : doc[j] = "close"}
CodeAt(i) == doc[i] \in FenceLine /\ CloseOf(i) # {}
ListAt(i) == doc[i] \in {"item", "num"}
ListEnd(i) == RunEnd(i, {doc[i]})

\* The element of lines i .. j, which ends before its last newline.
Element(type, i, j) ==
  LET len == MapThenSumSet(LAMBDA m : Bytes[doc[m]] + 1, i .. j)
  IN [type |-> type, lines |-> LinesFrom(i, j), from |-> offset, to |-> offset + len - 1]
Found(i) ==
  IF TableAt(i) THEN Element("table", i, TableEnd(i))
  ELSE IF CodeAt(i) THEN Element("code", i, Min(CloseOf(i)))
  ELSE IF ListAt(i) THEN Element("list", i, ListEnd(i))
  ELSE IF doc[i] = "head" THEN Element("heading", i, i)
  ELSE IF doc[i] = "rule" THEN Element("rule", i, i)
  ELSE IF doc[i] \in ParagraphLine THEN Element("paragraph", i, RunEnd(i, ParagraphLine))
  ELSE Element("skipped", i, i)      \* the line belongs to nothing

Detect ==
  /\ stage = "detect" /\ line <= Len(doc)
  /\ LET e == Found(line)
     IN /\ elements' = IF e.type = "skipped" THEN elements ELSE Append(elements, e)
        /\ line' = line + Len(e.lines)
        /\ offset' = e.to + 1
  /\ UNCHANGED <<job, stage, elem, text, lent, textStart, heading, pieces, cut, chunks>>

HasStructure == \E k \in DOMAIN elements : elements[k].type \in {"table", "code"}
\* plan_text_chunks: without tables or code the text is cut as plain text.
Detected ==
  /\ stage = "detect" /\ line > Len(doc)
  /\ stage' = IF HasStructure THEN "chunk" ELSE "done"
  /\ UNCHANGED <<job, line, offset, elements, elem, text, lent, textStart, heading, pieces, cut, chunks>>

------------------------------------------------------------------------------
(* StructuralChunker::chunk: one element per round. *)

Chunk(kind, ls, context, from, to, part) ==
  [kind |-> kind, lines |-> ls, lent |-> context, from |-> from, to |-> to, part |-> part]
Whole(kind, e) == <<Chunk(kind, e.lines, <<>>, e.from, e.to, 1)>>

Header(e) == SubSeq(e.lines, 1, 2)
DataRows(e) == SubSeq(e.lines, 3, Len(e.lines))
\* calculate_rows_per_chunk: what the header leaves, by the average row.
RowsPerChunk(e) ==
  LET available == ChunkMax - (Chars(Header(e)) + HeaderSlack)
      average == Chars(DataRows(e)) \div Len(DataRows(e))
  IN IF available <= 0 THEN 1 ELSE IF average = 0 THEN Len(DataRows(e)) ELSE Max({available \div average, 1})
\* Mutant: a part starts at the last row of the part before.
TablePartsAgain(e) ==
  LET rows == DataRows(e)  n == RowsPerChunk(e)
  IN [p \in 1 .. (Len(rows) + n - 1) \div n |->
        Chunk(IF p = 1 THEN "table" ELSE "continuation",
              SubSeq(rows, Max({(p - 1) * n, 1}), Min({p * n, Len(rows)})), Header(e), e.from, e.to, p)]
\* Every part of a split table starts with the header.
TableParts(e) ==
  LET rows == DataRows(e)  n == RowsPerChunk(e)
  IN [p \in 1 .. (Len(rows) + n - 1) \div n |->
        Chunk(IF p = 1 THEN "table" ELSE "continuation",
              SubSeq(rows, (p - 1) * n + 1, Min({p * n, Len(rows)})), Header(e), e.from, e.to, p)]
\* chunk_table.
TableChunks(e) ==
  CASE job.table = "whole" -> Whole("table", e)
    [] job.table = "naive" -> Whole("text", e)
    [] job.table = "split" ->
         IF Chars(e.lines) <= ChunkMax THEN Whole("table", e)
         ELSE IF DataRows(e) = <<>> THEN <<Chunk("table", Header(e), <<>>, e.from, e.to, 1)>>
         ELSE TableParts(e)

CodeLines(e) == SubSeq(e.lines, 2, Len(e.lines) - 1)
\* Both fences go round every part.
CodePart(e, ls, p) ==
  Chunk(IF p = 1 THEN "code" ELSE "code continuation", ls, <<Head(e.lines), Last(e.lines)>>, e.from, e.to, p)
\* split_code_at_boundaries: a function may start a new part once half of the room is used.
BoundaryParts(e) ==
  LET Round(b, i) == IF doc[i] = "fn" /\ Chars(b.now) > ChunkMax \div 2 /\ b.now # <<>>
                     THEN [done |-> Append(b.done, b.now), now |-> <<i>>]
                     ELSE [b EXCEPT !.now = Append(@, i)]
      cutUp == FoldLeft(Round, [done |-> <<>>, now |-> <<>>], CodeLines(e))
      all == IF cutUp.now = <<>> THEN cutUp.done ELSE Append(cutUp.done, cutUp.now)
  IN [p \in DOMAIN all |-> CodePart(e, all[p], p)]
\* chunk_code_block, but for the overlapping strategy.
CodeChunks(e) ==
  IF job.code = "whole" \/ Chars(e.lines) <= ChunkMax THEN Whole("code", e) ELSE BoundaryParts(e)

\* emit_text_chunk.
Flushed(to) ==
  IF lent \o text = <<>> THEN chunks
  ELSE Append(chunks, Chunk("text", text, lent, textStart, to, 1))
Started(e) == text' = e.lines /\ lent' = <<>>
Overflows(e) == Chars(lent \o text) + Chars(e.lines) > ChunkMax /\ lent \o text # <<>>

\* A block ends the text before it; the text goes on behind the block.
AfterBlock(e, cs) ==
  /\ chunks' = Flushed(e.from) \o cs
  /\ text' = <<>> /\ lent' = <<>> /\ textStart' = e.to

ChunkElement ==
  /\ stage = "chunk" /\ elem <= Len(elements)
  /\ elem' = elem + 1
  /\ LET e == elements[elem]
     IN CASE e.type = "table" -> AfterBlock(e, TableChunks(e)) /\ UNCHANGED <<stage, heading>>
          [] e.type = "code" ->
               /\ AfterBlock(e, IF job.code = "overlap" THEN <<>> ELSE CodeChunks(e))
               /\ stage' = IF job.code = "overlap" THEN "overlap" ELSE stage
               /\ UNCHANGED heading
          [] e.type = "rule" ->
               AfterBlock(e, <<>>) /\ heading' = <<>> /\ UNCHANGED stage
          [] e.type = "heading" ->
               /\ heading' = IF job.headers THEN e.lines ELSE heading
               /\ text' = text \o e.lines
               /\ UNCHANGED <<stage, chunks, lent, textStart>>
          [] e.type = "list" /\ job.lists /\ Overflows(e) ->
               /\ chunks' = Flushed(e.from) /\ Started(e) /\ textStart' = e.from
               /\ UNCHANGED <<stage, heading>>
          [] e.type = "paragraph" /\ Overflows(e) ->
               /\ chunks' = Flushed(e.from) /\ textStart' = e.from
               /\ text' = e.lines /\ lent' = heading /\ heading' = <<>>
               /\ UNCHANGED stage
          [] OTHER -> text' = text \o e.lines /\ UNCHANGED <<stage, heading, chunks, lent, textStart>>
  /\ UNCHANGED <<job, line, offset, elements, pieces, cut>>

\* split_code_with_overlap: as many lines as fit, then back by the overlap.
OverlapEnd(ls) ==
  LET fit == {j \in cut .. Len(ls) : Chars(SubSeq(ls, cut + 1, j)) <= ChunkMax}
  IN Max({Max(fit), cut + 1})
CutOverlapping ==
  /\ stage = "overlap" /\ Len(pieces) < PieceLimit
  /\ LET e == elements[elem - 1]
         ls == CodeLines(e)
         end == OverlapEnd(ls)
     IN IF cut < Len(ls)
        THEN /\ pieces' = Append(pieces, SubSeq(ls, cut + 1, end))
             /\ cut' = IF end >= Len(ls) THEN Len(ls) ELSE Max({end - OverlapLines, 0})
             /\ UNCHANGED <<stage, chunks>>
        ELSE /\ chunks' = chunks \o [p \in DOMAIN pieces |-> CodePart(e, pieces[p], p)]
             /\ stage' = "chunk" /\ pieces' = <<>> /\ cut' = 0
  /\ UNCHANGED <<job, line, offset, elements, elem, text, lent, textStart, heading>>

\* The rest of the text; total_chars counts characters.
FinishChunks ==
  /\ stage = "chunk" /\ elem > Len(elements)
  /\ chunks' = Flushed(Chars(LinesFrom(1, Len(doc))) - 1)
  /\ text' = <<>> /\ lent' = <<>>
  /\ stage' = "done"
  /\ UNCHANGED <<job, line, offset, elements, elem, textStart, heading, pieces, cut>>

------------------------------------------------------------------------------
PlainJob == "chars" \in DOMAIN job
ChunkInit ==
  /\ job \in Cases \cup {[chars |-> p] : p \in Plain}
  /\ stage = IF PlainJob THEN "plain" ELSE "detect"
  /\ line = 1 /\ offset = 0 /\ elements = <<>> /\ elem = 1
  /\ text = <<>> /\ lent = <<>> /\ textStart = 0 /\ heading = <<>>
  /\ pieces = <<>> /\ cut = 0 /\ chunks = <<>>

ChunkNext == PlainPiece \/ Detect \/ Detected \/ ChunkElement \/ CutOverlapping \/ FinishChunks
ChunkSpec == ChunkInit /\ [][ChunkNext]_chunkVars

------------------------------------------------------------------------------
(* Properties. *)

\* Where line i of the document lies.
Position(i) == Chars(LinesFrom(1, i - 1))
Holders(i) == {c \in DOMAIN chunks : i \in Range(chunks[c].lines)}
Context(e) == CASE e.type = "rule" -> Range(e.lines)
                [] e.type = "code" -> {Head(e.lines), Last(e.lines)}
                [] OTHER -> {}
Overlapping(e) == e.type = "code" /\ job.code = "overlap"

\* What was detected is neither lost nor repeated by the chunker: every line of
\* an element is in exactly one chunk (at least one where pieces overlap), the
\* manifest's range of that chunk holds the line, and a part of a table carries
\* the table's header (chunker.rs chunk, chunks.rs build_manifest_from_structural).
ChunksCover ==
  stage = "done" /\ ~PlainJob /\ HasStructure =>
    \A k \in DOMAIN elements : \A i \in Range(elements[k].lines) \ Context(elements[k]) :
      LET e == elements[k]
          split == \E c \in DOMAIN chunks : chunks[c].kind = "continuation" /\ chunks[c].from = e.from
      IN \/ e.type = "table" /\ i \in Range(Header(e))
            /\ \A c \in DOMAIN chunks :
                 chunks[c].kind \in {"table", "continuation"} /\ chunks[c].from = e.from
                   => i \in Range(chunks[c].lent \o chunks[c].lines)
         \/ /\ Holders(i) # {}
            /\ Overlapping(e) \/ Cardinality(Holders(i)) = 1
            /\ \A c \in Holders(i) : /\ chunks[c].from <= Position(i)
                                     /\ Position(i) + Width[doc[i]] <= chunks[c].to

\* A plain text is cut inside a word only where the word is longer than a whole
\* piece: the pieces follow each other, and a cut between two letters has no
\* newline, end of sentence or space anywhere in the piece before it
\* (chunks.rs choose_chunk_boundary).
CutsBetweenWords ==
  PlainJob =>
    LET chars == NormalizedText(job.chars)
    IN \A p \in DOMAIN pieces :
         /\ pieces[p][1] < pieces[p][2]
         /\ pieces[p][1] = IF p = 1 THEN 0 ELSE pieces[p - 1][2]
         /\ LET to == pieces[p][2]
            IN to < Len(chars) /\ chars[to] = "letter"
                 => \A i \in pieces[p][1] + 1 .. to : chars[i] = "letter"

\* A line that no table, code block, list or heading claims is treated as part
\* of a paragraph, so its text is in some chunk of a document that is stored as
\* chunks (detector.rs detect_structure, chunks.rs plan_structural_chunks).
UnmatchedKept ==
  stage = "done" /\ ~PlainJob /\ Len(chunks) > 1 =>
    \A i \in DOMAIN doc : doc[i] # "rule" =>
      \E c \in DOMAIN chunks : i \in Range(chunks[c].lines \o chunks[c].lent)

\* Cutting a code block with overlap moves forward from piece to piece
\* (chunker.rs split_code_with_overlap).
MovesForward == [][stage = "overlap" /\ Len(pieces') > Len(pieces) => cut' > cut]_chunkVars
=============================================================================
