-------------------------- MODULE MCMemvidEngine --------------------------
(****************************************************************************)
(* The parts of the memory engine that store, index, find and read, side by  *)
(* side for TLC: a behaviour is one of a part, so that the state graph is    *)
(* the sum of theirs. The service is the module itself, the others are       *)
(* instances.  The inputs of every part are at the end.                      *)
(****************************************************************************)
EXTENDS MemvidSidecar, Integers, Sequences, FiniteSets, SequencesExt, FiniteSetsExt

CONSTANTS Parts,   \* the components that are looked at
  Contents, LongText, Binary, Telling, PutOptions, Dims, AutoCheckpoint,
  PutLimit,
  Words, Stem, PartOf, Variants, Abstract, Modifiers, Alike, Notes,
  Corrections, CorrectionPattern, Queries, Questions, MinResults, MaxNotes,
  Inputs, Uris, MaxFrames, MaxQueue,
  Cases, Plain, Width, Bytes, ChunkMax, HeaderSlack, OverlapLines, PlainMax,
  PlainSlack, PieceLimit,
  Pdfs, Options, TextWithin, FileKey, StoreLimit,
  Phrases, Moments, Offsets, MaxDocs,
  TextChunks, DocumentDates, MaxRead

VARIABLES part,    \* the component of this behaviour
  memory,
  notes, sketches, written, answer,
  readable, queue, raced, reading,
  job, stage, line, offset, elements, elem, chunkText, lent, textStart,
  heading, pieces, cutAt, docChunks,
  source, pdfTables, pending, tableFrames, kept, stored, got,
  docs, timeIndex, clock, page,
  tracker, chunksRead, enriched

\* What put and commit do to frames and to their indexes.
Pipeline == INSTANCE PutPipeline
\* search and ask over the indexes and the sketch track.
Searching == INSTANCE SearchAndAsk
          WITH frames <- notes, track <- sketches, Within <- PartOf, MaxFrames
               <- MaxNotes
\* Reading documents back out of frames and chunks.
Reading == INSTANCE FrameReading
          WITH frames <- readable
\* Structure detection and the chunkers.
Chunking == INSTANCE DocumentChunks
          WITH chunks <- docChunks, text <- chunkText, cut <- cutAt
\* Tables of PDF pages: found, merged, stored, read.
PdfTables == INSTANCE TableExtraction
          WITH Within <- TextWithin, tables <- pdfTables, queued <-
               tableFrames
\* Temporal phrases as filters of the timeline.
Timeline == INSTANCE TemporalFilter
\* Relative dates resolved by the anchor of the text.
Anchoring == INSTANCE SlidingAnchor
          WITH read <- chunksRead, Chunks <- TextChunks

putPart == <<memory>>
searchPart == <<notes, sketches, written, answer>>
readingPart == <<readable, queue, raced, reading>>
chunkingPart == <<job, stage, line, offset, elements, elem, chunkText, lent,
   textStart, heading, pieces, cutAt, docChunks>>
tablesPart == <<source, pdfTables, pending, tableFrames, kept, stored, got>>
timePart == <<docs, timeIndex, clock, page>>
anchorPart == <<tracker, chunksRead, enriched>>
vars == <<part, sidecarVars, putPart, searchPart, readingPart, chunkingPart,
          tablesPart, timePart, anchorPart>>

\* One component runs, the others stay as they start.
Init ==
  /\ part \in Parts
  /\ SidecarInit
  /\ Pipeline!PutInit
  /\ Searching!SearchInit
  /\ Reading!FrameInit
  /\ IF part = "chunking" THEN TRUE ELSE job = CHOOSE j \in Cases : TRUE
  /\ Chunking!ChunkInit
  /\ IF part = "tables" THEN TRUE ELSE source = CHOOSE s \in [doc : Pdfs, options : Options] : TRUE
  /\ PdfTables!TableInit
  /\ IF part = "time" THEN TRUE ELSE clock = CHOOSE m \in Moments : TRUE
  /\ Timeline!TimeInit
  /\ IF part = "anchor" THEN TRUE ELSE tracker = Anchoring!NoAnchor
  /\ Anchoring!AnchorInit

Next ==
  /\ UNCHANGED part
  /\ IF part = "sidecar" THEN SidecarNext ELSE UNCHANGED sidecarVars
  /\ IF part = "put" THEN Pipeline!PutNext ELSE UNCHANGED putPart
  /\ IF part = "search" THEN Searching!SearchNext ELSE UNCHANGED searchPart
  /\ IF part = "reading" THEN Reading!FrameNext ELSE UNCHANGED readingPart
  /\ IF part = "chunking" THEN Chunking!ChunkNext ELSE UNCHANGED chunkingPart
  /\ IF part = "tables" THEN PdfTables!TableNext ELSE UNCHANGED tablesPart
  /\ IF part = "time" THEN Timeline!TimeNext ELSE UNCHANGED timePart
  /\ IF part = "anchor" THEN Anchoring!AnchorNext ELSE UNCHANGED anchorPart

Spec == Init /\ [][Next]_vars

-----------------------------------------------------------------------------
\* After a commit the lexical, the time and the vector index hold the active
\* documents, each vector under its own frame (memvid/mutation.rs).
IndexesAgree ==
  part = "put" => Pipeline!IndexesAgree /\ Pipeline!VectorsOfFrames

\* An answer to a question about the present starts with the newest
\* correction, and one about dates with the first and the last of them
\* (memvid/ask.rs).
CorrectionsAndExtremes ==
  part = "search" => Searching!NewestCorrectionFirst /\ Searching!ExtremesFirst

\* A document is read whole or not at all, a chain of updates in separate
\* commits leaves one active version (memvid/frame.rs, memvid/mutation.rs),
\* and every line of it is in a chunk, in order and under its heading, cut
\* between words (structure/chunker.rs, memvid/chunks.rs).
DocumentsWhole ==
  /\ part = "reading" => Reading!WholeOrError /\ Reading!OneVersion
  /\ part = "chunking" => Chunking!ChunksCover /\ Chunking!CutsBetweenWords

\* Every row of a page is in one table at most once after merging, a stored
\* table is read back as it was (table/), and every cell of a readable sheet
\* is shown under its column (reader/xlsx.rs and the modules it uses).
TablesWhole ==
  part = "tables" => PdfTables!RowsOnce /\ PdfTables!ReadBack

\* What a phrase calls next or last lies on that side of the reader, a page
\* of the timeline skips no document of its window (analysis/temporal.rs,
\* memvid/timeline.rs), the anchor is the last header or else the best date
\* so far, and both resolvers of relative phrases agree
\* (analysis/temporal_enrich.rs).
TimeHolds ==
  /\ part = "time" => Timeline!NextAndLast /\ Timeline!PageComplete
  /\ part = "anchor" => Anchoring!AnchorInForce /\ Anchoring!ResolversAgree

-----------------------------------------------------------------------------
(***************************************************************************)
(* Instance of SearchAndAsk: four words, a plural among them, six notes    *)
(* (one without text, two corrections), three frames.                      *)
(***************************************************************************)

SearchWords == {"tea", "teas", "oat", "now"}
StemW == [w \in SearchWords |-> IF w = "teas" THEN "tea" ELSE w]
PartOfW == {<<w, w>> : w \in SearchWords} \cup {<<"tea", "teas">>}
VariantsW == [w \in SearchWords |->
  IF w = "teas" THEN {"tea"} ELSE IF w = "tea" THEN {"teas"} ELSE {}]
Overlapping == {p \in (SUBSET SearchWords) \X (SUBSET SearchWords) : p[1] \cap p[2] # {}}

Note(words, at, about, uri, near) ==
  [words |-> words, at |-> at, about |-> about, uri |-> uri, near |-> near, active |-> TRUE]
NotesW == {Note({}, 1, 0, "image", 0),
           Note({"tea", "oat"}, 1, 3, "diary", 2),
           Note({"teas", "now"}, 2, 0, "diary", 1),
           Note({"oat"}, 3, 2, "list", 0),
           Note({"oat", "tea"}, 2, 0, "correction", 1),
           Note({"tea"}, 3, 0, "correction", 2)}

AskFor(words, all) == [words |-> words, all |-> all, uri |-> "any"]
Request(words, all, asOf, noSketch, k) ==
  [query |-> AskFor(words, all), asOf |-> asOf, since |-> 0, noSketch |-> noSketch, k |-> k]
QueriesW == {Request({"tea"}, TRUE, 1, FALSE, 2), Request({"oat"}, TRUE, 0, FALSE, 1),
             Request({"teas"}, TRUE, 0, TRUE, 2), Request({}, TRUE, 0, TRUE, 2)}
Question(says, words, mode, adaptive, since, k) ==
  [says |-> says, words |-> words, name |-> CHOOSE w \in words : TRUE, mode |-> mode,
   embed |-> mode # "lex", adaptive |-> adaptive, asOf |-> 0, since |-> since, k |-> k]
QuestionsW ==
  {Question({}, {"tea", "oat"}, m, FALSE, 0, 1) : m \in {"lex", "hybrid"}}
  \cup {Question({"currently"}, {"oat", "now"}, m, FALSE, 0, 2) : m \in {"lex", "sem"}}
  \cup {Question({"update"}, {"tea"}, "hybrid", TRUE, 0, 2),
        Question({"earlier", "currently"}, {"oat"}, "sem", FALSE, 0, 1),
        Question({"how many", "update"}, {"teas", "now"}, "hybrid", FALSE, 0, 1),
        Question({"compare"}, {"now"}, "lex", FALSE, 0, 1),
        Question({"compare", "currently"}, {"tea"}, "sem", FALSE, 0, 1),
        Question({}, {"oat"}, "lex", FALSE, 2, 1)}

(***************************************************************************)
(* A short text, a long one, and a binary document with a long text.       *)
(***************************************************************************)

Documents ==
  {[text |-> <<"a">>, binary |-> FALSE, image |-> FALSE],
   [text |-> <<"b", "c">>, binary |-> FALSE, image |-> FALSE],
   [text |-> <<"d", "e">>, binary |-> TRUE, image |-> TRUE]}

UriSet == {<<"u">>}

(* Instances of DocumentChunks: every document of up to four lines of the     *)
(* kinds below, some longer ones, and every plain text of up to seven         *)
(* characters.                                                                *)

LineKinds == {"row", "sep", "fence", "close", "item", "head", "text"}
UpTo(S, n) == UNION {[1 .. m -> S] : m \in 1 .. n}
Longer == {<<"head", "text", "text", "row", "sep", "row", "row", "row">>,
           <<"row", "sep", "row", "row", "rule", "head", "text", "item", "num">>,
           <<"text", "fence", "fn", "text", "fn", "text", "fn", "close", "text">>,
           <<"head", "text", "rule", "text", "row", "sep">>}
Splitting(d, lists) == [doc |-> d, table |-> "split", code |-> "functions", lists |-> lists, headers |-> TRUE]
Wholly(d) == [doc |-> d, table |-> "whole", code |-> "whole", lists |-> TRUE, headers |-> FALSE]
Lapping(d) == [doc |-> d, table |-> "naive", code |-> "overlap", lists |-> FALSE, headers |-> TRUE]
LongCode == {<<"fence">> \o c \o <<"close">> : c \in [1 .. 5 -> {"fn", "text"}]}
ChunkCases == {Splitting(d, l) : d \in UpTo(LineKinds, 4) \cup Longer, l \in BOOLEAN}
            \cup {Wholly(d) : d \in UpTo(LineKinds, 3) \cup Longer}
            \cup {Lapping(d) : d \in LongCode \cup Longer}
CasesUnmatched == {Splitting(d, TRUE) : d \in UpTo(LineKinds, 4)}
CasesOverlap == {Lapping(<<"fence">> \o c \o <<"close">>) : c \in [1 .. 4 -> {"row", "text"}]}
PlainTexts == UpTo({"nl", "space", "stop", "letter"}, 7)
NoPlain == {}

Widths == [k \in LineKinds \cup {"num", "fn", "rule", "wide"} |-> IF k = "row" THEN 3 ELSE IF k = "item" THEN 2 ELSE 1]


(* Documents of up to three pages for TableExtraction: ruled and aligned      *)
(* tables with the same, like or other headers, prose, and key-value lines;   *)
(* the pages of a document come from one of the two layout extractors.        *)

Box(t, row, col, drift) ==
  [text |-> t, x |-> 720 + 1000 * col + drift * row, w |-> 800, y |-> 6900 - 200 * row - drift * col, h |-> 100]
CellTexts(p) == <<<<<<"a1", "b1">>, <<"c1", "d1">>>>, <<<<"a2", "b2">>, <<"c2", "d2">>>>, <<<<"a3", "b3">>, <<"c3", "d3">>>>>>[p]
Grid(rows, drift) ==
  [n \in 1..(2 * Len(rows)) |-> Box(rows[(n + 1) \div 2][2 - (n % 2)], (n - 1) \div 2, 1 - (n % 2), drift)]
Lines(places) == [i \in DOMAIN places |-> [at |-> places[i], len |-> 1000]]
Ruled(rows) == [boxes |-> Grid(rows, 0), across |-> Lines(<<7050, 6850, 6840, 6650, 6450>>) \o <<[at |-> 100, len |-> 90]>>,
                down |-> Lines(<<2600, 600, 1600, 1650>>)]
Aligned(rows) == [boxes |-> Grid(rows, 20), across |-> <<>>, down |-> <<>>]
Headed(p, head) == <<head>> \o CellTexts(p)
Same == <<"Item", "Sum">>
Placed(p) == {Ruled(Headed(p, Same)), Ruled(Headed(p, <<"Item", "Sums">>)), Ruled(Headed(p, <<"Day", "Rate">>)),
              Aligned(Headed(p, Same)), [Aligned(<<>>) EXCEPT !.boxes = <<Box("prose", 0, 0, 0)>>]}
Typed(p) == {[text |-> Headed(p, Same) \o <<<<"">>>>], [text |-> Headed(p, Same) \o <<<<"e", "f", "g">>>>],
             [text |-> <<<<"prose">>>>]}
TextLine(is, t) == [text |-> t, is |-> is, parts |-> 1]
KeyValues == <<TextLine({"title", "section"}, "Earnings"), TextLine({}, "Base"), TextLine({"amount"}, "10"),
               TextLine({}, "Extra"), TextLine({"priced"}, "2 $"), TextLine({"blank"}, ""),
               TextLine({"title", "section"}, "Taxes"), TextLine({"title"}, "Rate"), TextLine({"figure"}, "1%"),
               TextLine({}, "Note"), TextLine({}, "Rest")>>
Like(p) == {Ruled(Headed(p, Same)), Ruled(Headed(p, <<"Item", "Sums">>))}
PdfPages == {<<x, y>> : x \in Placed(1), y \in Placed(2)} \cup {<<x, y>> : x \in Typed(1), y \in Typed(2)}
            \cup {<<x, y, z>> : x \in Like(1), y \in Like(2), z \in Like(3)}
PdfDocs == {[file |-> "a.pdf", pages |-> shown, lines |-> KeyValues] : shown \in PdfPages}
Option(mode, similarity, merge) ==
  [mode |-> mode, minRows |-> 2, minCols |-> 2, minQuality |-> "medium", similarity |-> similarity, merge |-> merge]
TableOptions == {Option("conservative", 800, TRUE), Option("stream_only", 700, TRUE), Option("lattice_only", 700, TRUE)}
InnerTexts == {<<"Sum", "Sums">>}
Keys == [f \in {"a.pdf"} |-> "a_pdf"]

(***************************************************************************)
(* Moments around a leap day, the ends of months and of a year; one phrase *)
(* of each kind.                                                           *)
(***************************************************************************)

Calendar == INSTANCE TemporalPhrases

Morning(year, month, day) == Calendar!Midnight(Calendar!DayNumber(year, month, day)) + 600

Clocks ==
  {Calendar!Midnight(Calendar!DayNumber(2023, 12, 31)) + 1380, Morning(2024, 1, 31),
   Morning(2024, 2, 23), Calendar!Midnight(Calendar!DayNumber(2024, 3, 1))}

Zones == {-480, 0}

AskedPhrases ==
  {<<"days", 0>>, <<"weekday", 1, 4>>, <<"weekday", -1, 4>>,
   <<"weekday", 0, 6>>, <<"week", -1>>, <<"week", 1>>, <<"month", -1>>, <<"months", -3>>,
   <<"end of month">>, <<"start of next month">>, <<"first business day">>,
   <<"sunday after next">>, <<"dst change">>, <<"midnight tomorrow">>, <<"minutes", 90>>,
   <<"last hours", 24>>, <<"morning">>, <<"today at", 12, "am">>, <<"today at", 13, "pm">>,
   <<"weekday at", 4, 9, "none">>, <<"next weekday at", 2, 9, "none">>, <<"noon next", 1>>,
   <<"quarter", 2024, 1>>, <<"end of quarter", 1>>, <<"year", 2024>>,
   <<"date", 2024, 2, 29>>, <<"date", 2023, 2, 29>>, <<"weeks", -2>>}


(***************************************************************************)
(* Dates at the end of a year, of a leap February and in the middle of a   *)
(* month; chunks of one or two lines.                                      *)
(***************************************************************************)

D1 == Calendar!DayNumber(2023, 12, 31)
D2 == Calendar!DayNumber(2024, 2, 29)
D3 == Calendar!DayNumber(2024, 5, 15)

DatedLine(form, date, phrase) == [form |-> form, date |-> date, phrase |-> phrase]

Relative ==
  {<<"years", -1>>, <<"month", -1>>, <<"month", 1>>, <<"week", -1>>, <<"week", 1>>,
   <<"days", -1>>, <<"weeks", 2>>, <<"months", -3>>, <<"weekday", -1, 4>>,
   <<"weekday", 0, 6>>, <<"weekday", 1, 6>>, <<"weekday", 1, 2>>}

Phrased == {DatedLine("none", 0, p) : p \in Relative}

Dated ==
  {DatedLine("header", D1, <<>>), DatedLine("header", D2, <<"weekday", 1, 4>>),
   DatedLine("iso", D3, <<>>), DatedLine("iso", D1, <<>>), DatedLine("long", D2, <<>>), DatedLine("slash", D3, <<>>)}

DatedChunks ==
  {<<l>> : l \in Phrased \cup Dated} \cup {<<k, l>> : k \in Dated, l \in Phrased}
    \cup {<<l, k>> : k \in Dated, l \in {DatedLine("none", 0, <<"week", -1>>)}}

=============================================================================
