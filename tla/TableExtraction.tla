--------------------------- MODULE TableExtraction ---------------------------
(***************************************************************************)
(* The tables of PDF pages: found by ruling lines, else by aligned text,   *)
(* else by label and value lines (table/pdf_extractor.rs), merged over     *)
(* pages (table/multi_page.rs), stored as frames and read back             *)
(* (table/storage.rs).                                                     *)
(*                                                                         *)
(* Lengths are tenths of a point, a score is in thousandths and a cell is  *)
(* the sequence of the texts that fall in it.  Every page is looked at and *)
(* the clustering thresholds are the default ones.                         *)
(***************************************************************************)
EXTENDS Integers, Sequences, FiniteSets, SequencesExt, FiniteSetsExt

CONSTANTS
  Pdfs,        \* documents: [file, pages, lines]
  Options,     \* [mode, minRows, minCols, minQuality, similarity, merge]
  Within,      \* pairs of texts, the first contained in the second
  FileKey,     \* a file name with its dots replaced
  StoreLimit   \* bound: tables stored in a behaviour

VARIABLES
  source,   \* the document and the options of the last extraction
  tables,   \* its tables that wait to be stored, or found and not kept
  pending,  \* how many of them the caller has yet to store
  queued,   \* frames put and not committed
  kept,     \* frames of the table of contents, in order
  stored,   \* history: the stored tables, and whether the caller was told so
  got       \* what the last get_table returned

tableVars == <<source, tables, pending, queued, kept, stored, got>>

NoTable == [id |-> <<>>]

RowGap == 50     \* row_clustering_threshold
ColGap == 100    \* col_clustering_threshold
Near(d, gap) == d \in (-gap)..gap

\* The means of the runs of values whose neighbours are at most gap apart.
Clusters(values, gap) ==
  LET sorted == SortSeq(values, LAMBDA a, b : a < b)
      starts == SelectSeq([i \in DOMAIN sorted |-> i], LAMBDA i : i = 1 \/ sorted[i] - sorted[i - 1] > gap)
      ends == Append([n \in 1..(Len(starts) - 1) |-> starts[n + 1] - 1], Len(sorted))
      Mean(run) == FoldSeq(+, 0, run) \div Len(run)
  IN  [n \in DOMAIN starts |-> Mean(SubSeq(sorted, starts[n], ends[n]))]

-----------------------------------------------------------------------------
(* Layout of a page.  Without pdfium there are no lines, and each text line *)
(* is cut into columns of equal width, each box filling nine tenths of its  *)
(* column.                                                                  *)

ColumnBoxes(row, y, height) ==
  LET n == Len(row) IN
  [c \in 1..n |-> [text |-> row[c], x |-> 720 + (c - 1) * (4680 \div n),
                   w |-> IF n = 1 THEN 4680 ELSE (9 * 4680) \div (10 * n), y |-> y, h |-> height]]

Layout(p) ==
  IF "boxes" \in DOMAIN p THEN p
  ELSE LET height == 6480 \div Len(p.text)
           boxes == [i \in DOMAIN p.text |-> ColumnBoxes(p.text[i], 7200 - (i - 1) * height, height)]
       IN  [boxes |-> SelectSeq(FlattenSeq(boxes), LAMBDA b : b.text # ""), across |-> <<>>, down |-> <<>>]

\* The place among ascending or descending bounds of a doubled coordinate.
SlotOf(bounds, d) ==
  LET at == {i \in 1..(Len(bounds) - 1) : (2 * bounds[i] - d) * (d - 2 * bounds[i + 1]) >= 0}
  IN  IF at = {} THEN 0 ELSE Min(at)

Column(bounds, b) == SlotOf(bounds, 2 * b.x + b.w)
TextsOf(boxes) == [i \in DOMAIN boxes |-> boxes[i].text]

CellsOf(boxes, bounds) ==
  [c \in 1..(Len(bounds) - 1) |-> TextsOf(SelectSeq(boxes, LAMBDA b : Column(bounds, b) = c))]

Filled(cells) == {c \in DOMAIN cells : cells[c] # <<>>}

\* A table of one page: the first row is its headers, marked when `heads`.
PageTable(doc, page, mode, quality, rows, heads) ==
  [id |-> <<>>, file |-> doc.file, first |-> page, last |-> page, headers |-> rows[1], cols |-> Len(rows[1]),
   mode |-> mode, quality |-> quality,
   rows |-> [i \in DOMAIN rows |-> [index |-> i - 1, page |-> page, cells |-> rows[i], header |-> i = 1 /\ heads]]]

DataRows(t) == SelectSeq(t.rows, LAMBDA r : ~r.header)

-----------------------------------------------------------------------------
(* The three detections.                                                    *)

MinLineLength == 200
MinGridCells == 4

LatticeTables(doc, page, layout) ==
  LET Rulings(lines, gap) ==
        LET long == SelectSeq(lines, LAMBDA l : l.len >= MinLineLength)
        IN  Clusters([i \in DOMAIN long |-> long[i].at], gap)
      H == Reverse(Rulings(layout.across, RowGap))
      V == Rulings(layout.down, ColGap)
      Row(r) == CellsOf(SelectSeq(layout.boxes, LAMBDA b : SlotOf(H, 2 * b.y + b.h) = r), V)
      rows == [r \in 1..(Len(H) - 1) |-> Row(r)]
  IN  IF Len(H) < 2 \/ Len(V) < 2 \/ (Len(H) - 1) * (Len(V) - 1) < MinGridCells THEN {}
      ELSE {PageTable(doc, page, "lattice", "high", rows, Filled(rows[1]) # {})}

\* From the top down; a row takes what is within the threshold of its first box.
RowsByHeight(boxes) ==
  LET Place(rows, b) ==
        IF rows # <<>> /\ Last(rows)[1].y - b.y <= RowGap
        THEN [rows EXCEPT ![Len(rows)] = Append(@, b)]
        ELSE Append(rows, <<b>>)
      rows == FoldLeft(Place, <<>>, SortSeq(boxes, LAMBDA a, b : a.y > b.y))
  IN  [r \in DOMAIN rows |-> SortSeq(rows[r], LAMBDA a, b : a.x < b.x)]

Edges(b) == {b.x, b.x + b.w}

\* The edges that half of the rows have.
ColumnBounds(rows) ==
  LET edges == FlattenSeq([i \in DOMAIN FlattenSeq(rows) |-> SetToSeq(Edges(FlattenSeq(rows)[i]))])
      Has(row, x) == \E b \in ToSet(row) : \E e \in Edges(b) : Near(e - x, ColGap)
      Often(x) == Cardinality({r \in DOMAIN rows : Has(rows[r], x)}) >= Len(rows) \div 2
  IN  SelectSeq(Clusters(edges, ColGap), Often)

\* The score of a stream table in thousandths: uneven rows, empty cells and
\* few rows count against it.
StreamScore(rows) ==
  LET n == Len(rows)
      counts == [r \in 1..n |-> Cardinality(Filled(rows[r]))]
      total == FoldFunction(+, 0, counts)
      spread == n * FoldFunction(+, 0, [r \in 1..n |-> counts[r] * counts[r]]) - total * total
      cells == n * Len(rows[1])
      empty == cells - total
      uneven == IF spread > n * n THEN Min({(200 * spread) \div (n * n), 400}) ELSE 0
      hollow == IF 10 * empty > 3 * cells THEN (200 * empty) \div cells ELSE 0
  IN  900 - uneven - hollow - (IF n < 4 THEN 100 ELSE 0)

StreamQuality(score) == IF score >= 700 THEN "high" ELSE IF score >= 400 THEN "medium" ELSE "low"

StreamTables(doc, page, layout, o) ==
  LET text == RowsByHeight(layout.boxes)
      bounds == ColumnBounds(text)
      rows == [r \in DOMAIN text |-> CellsOf(text[r], bounds)]
  IN  IF layout.boxes = <<>> \/ Len(text) < o.minRows \/ Len(bounds) < o.minCols + 1 THEN {}
      ELSE {PageTable(doc, page, "stream", StreamQuality(StreamScore(rows)), rows,
                      Cardinality(Filled(rows[1])) > Len(rows[1]) \div 2)}

\* Label and value lines.  What a line is: blank, an amount, a figure (a date, a
\* percentage, hours), priced (it has a dollar sign), a title (it has a word of
\* tables in it), a section (a title that ends the region before it).
Is(l, what) == what \in l.is
Blank(l) == Is(l, "blank")
Titled(l) == Is(l, "title")
Tabular(l) == Is(l, "amount") \/ Is(l, "figure")
IsLabel(l) == ~Is(l, "amount")
IsValue(l) == Is(l, "amount") \/ Is(l, "priced")

\* The first position behind the region whose lines start at s.
RegionEnd(lines, s) ==
  Min({e \in s..(Len(lines) + 1) :
         \/ e = Len(lines) + 1
         \/ Is(lines[e], "section") /\ \E i \in s..(e - 1) : ~Blank(lines[i])
         \/ e - s >= 3 /\ \A i \in (e - 3)..(e - 1) : Blank(lines[i])})

PairAt(data, i) == i < Len(data) /\ IsLabel(data[i]) /\ IsValue(data[i + 1])

ColumnCount(data) ==
  IF Cardinality({i \in DOMAIN data : i % 2 = 1 /\ PairAt(data, i)}) >= 3 THEN 2
  ELSE Max({2} \cup {data[i].parts : i \in DOMAIN data})

PairedRows(data) ==
  LET from[i \in 1..(Len(data) + 2)] ==
        IF i > Len(data) THEN <<>>
        ELSE IF PairAt(data, i) THEN <<<<<<data[i].text>>, <<data[i + 1].text>>>>>> \o from[i + 2]
        ELSE <<<<<<data[i].text>>>>>> \o from[i + 1]
  IN  from[1]

LineTable(doc, title, data) ==
  LET head == IF title = "" THEN <<<<"Label">>, <<"Value">>>> ELSE <<<<title>>, <<"Value">>>>
      body == PairedRows(data)
      rows == IF title = "" THEN body ELSE <<head>> \o body
  IN  [PageTable(doc, 1, "line", "medium", rows, title # "") EXCEPT !.headers = head, !.cols = ColumnCount(data)]

LineTables(doc, o) ==
  LET lines == doc.lines
      from[i \in 1..(Len(lines) + 1)] ==
        IF i > Len(lines) THEN <<>>
        ELSE IF ~Titled(lines[i]) /\ ~Tabular(lines[i]) THEN from[i + 1]
        ELSE LET s == IF Titled(lines[i]) THEN i + 1 ELSE i
                 e == RegionEnd(lines, s)
                 data == SelectSeq(SubSeq(lines, s, e - 1), LAMBDA l : ~Blank(l))
             IN  (IF Len(data) < o.minRows \/ ColumnCount(data) < o.minCols THEN <<>>
                  ELSE <<LineTable(doc, IF Titled(lines[i]) THEN lines[i].text ELSE "", data)>>)
                 \o from[Max({e, i + 1})]
  IN  IF Len(lines) < o.minRows THEN <<>> ELSE from[1]

-----------------------------------------------------------------------------
(* What is kept of them, and the merging over pages.                        *)

Rank(quality) == CASE quality = "high" -> 3 [] quality = "medium" -> 2 [] quality = "low" -> 1

Passes(t, o) ==
  /\ Len(DataRows(t)) >= o.minRows
  /\ t.cols >= o.minCols
  /\ \/ Rank(t.quality) >= Rank(o.minQuality)
     \/ t.quality = "low" /\ o.mode = "aggressive"

Passing(found, o) == {t \in found : Passes(t, o)}

\* At most one table a page, ruled ones first.
TablesOfPage(doc, page, o) ==
  LET layout == Layout(doc.pages[page])
      ruled == IF o.mode = "stream_only" THEN {} ELSE Passing(LatticeTables(doc, page, layout), o)
  IN  SetToSeq(IF ruled # {} \/ o.mode = "lattice_only" THEN ruled
               ELSE Passing(StreamTables(doc, page, layout, o), o))

Detected(doc, o) ==
  LET placed == FlattenSeq([page \in DOMAIN doc.pages |-> TablesOfPage(doc, page, o)])
  IN  IF placed # <<>> \/ o.mode = "lattice_only" THEN placed
      ELSE SelectSeq(LineTables(doc, o), LAMBDA t : Passes(t, o))

TextHolds(a, b) == \/ \E i \in 1..(Len(a) + 1), j \in 0..Len(a) : b = SubSeq(a, i, j)
                  \/ \E w \in Within : a = <<w[2]>> /\ b = <<w[1]>>

HeaderSimilarity(g, h) ==
  LET same == {i \in DOMAIN g : g[i] = h[i]}
      part == {i \in DOMAIN g \ same : TextHolds(g[i], h[i]) \/ TextHolds(h[i], g[i])}
  IN  IF Len(g) # Len(h) THEN 0
      ELSE (1000 * Cardinality(same) + 500 * Cardinality(part)) \div Len(g)

\* The score is a mean: each factor that counts adds to both parts of it.
MergesWith(t, u, o) ==
  LET gap == u.first - t.last
      likeness == HeaderSimilarity(t.headers, u.headers)
      like == likeness >= o.similarity
      alike == t.mode = u.mode
      total == (IF gap = 1 THEN 1000 ELSE 500) + 2000 + (IF like THEN likeness ELSE -500)
               + (IF alike THEN 500 ELSE 0) + 300
      factors == 4 + (IF like THEN 1 ELSE 0) + (IF alike THEN 1 ELSE 0)
  IN  /\ gap # 0 /\ gap <= 2
      /\ t.file = u.file
      /\ t.cols = u.cols
      /\ total >= o.similarity * factors

Worse(p, q) == IF p = "high" /\ q = "high" THEN "high" ELSE "medium"

\* Rows of the second table follow with their numbers moved behind the first.
Joined(t, u, rows) ==
  [t EXCEPT !.last = u.last, !.quality = Worse(@, u.quality),
            !.rows = @ \o [i \in DOMAIN rows |-> [rows[i] EXCEPT !.index = @ + Len(t.rows)]]]

MergeTwoUnfiltered(t, u) == Joined(t, u, u.rows)

\* A second header row that repeats the first (similarity of at least 0.8) is dropped.
MergeTwo(t, u) ==
  Joined(t, u, IF HeaderSimilarity(t.headers, u.headers) >= 800 THEN DataRows(u) ELSE u.rows)

\* Each table joins the first earlier one that takes it.
Merged(found, o) ==
  LET Place(groups, t) ==
        LET takers == {i \in DOMAIN groups : MergesWith(groups[i], t, o)}
        IN  IF takers = {} THEN Append(groups, t)
            ELSE [groups EXCEPT ![Min(takers)] = MergeTwo(@, t)]
  IN  IF o.merge /\ Len(found) > 1 THEN FoldLeft(Place, <<>>, found) ELSE found

Extracted(doc, o) ==
  LET found == Merged(Detected(doc, o), o)
  IN  [i \in DOMAIN found |-> [found[i] EXCEPT !.id = <<FileKey[doc.file], i>>]]

-----------------------------------------------------------------------------
(* Frames of a table.                                                       *)

MetaFrame(t) == [kind |-> "table_meta", id |-> t.id, headers |-> t.headers, count |-> Len(DataRows(t))]

\* Cells are keyed by header: of two columns with one header the last stays.
RowFrame(t, r) ==
  LET shown == {i \in DOMAIN t.headers : i <= Len(r.cells)}
      names == {t.headers[i] : i \in shown}
  IN  [kind |-> "table_row", id |-> t.id, index |-> r.index, page |-> r.page,
       cells |-> [h \in names |-> r.cells[Max({i \in shown : t.headers[i] = h})]]]

FramesOf(t) == <<MetaFrame(t)>> \o [i \in DOMAIN DataRows(t) |-> RowFrame(t, DataRows(t)[i])]

\* The first metadata frame with the id, and every row frame with it.
ReadTable(id) ==
  LET metas == {i \in DOMAIN kept : kept[i].kind = "table_meta" /\ kept[i].id = id}
      meta == kept[Min(metas)]
      ofTable == SelectSeq([i \in DOMAIN kept |-> i], LAMBDA i : kept[i].kind = "table_row" /\ kept[i].id = id)
      lines == SortSeq(ofTable, LAMBDA i, j : kept[i].index < kept[j].index
                                              \/ (kept[i].index = kept[j].index /\ i < j))
      Cell(f, h) == IF h \in DOMAIN f.cells THEN f.cells[h] ELSE <<>>
  IN  IF metas = {} THEN NoTable
      ELSE [id |-> id, headers |-> meta.headers, count |-> meta.count,
            rows |-> [n \in DOMAIN lines |->
                        [index |-> kept[lines[n]].index, page |-> kept[lines[n]].page,
                         cells |-> [c \in DOMAIN meta.headers |-> Cell(kept[lines[n]], meta.headers[c])]]]]

-----------------------------------------------------------------------------
TableInit ==
  /\ source \in [doc : Pdfs, options : Options]
  /\ tables = <<>> /\ pending = 0
  /\ queued = <<>> /\ kept = <<>>
  /\ stored = <<>>
  /\ got = NoTable

Extract ==
  /\ pending = 0 /\ Len(stored) < StoreLimit
  /\ tables' = Extracted(source.doc, source.options)
  /\ pending' = Len(tables')
  /\ UNCHANGED <<source, queued, kept, stored, got>>

\* store_table puts the metadata and then the rows; the first put or embedding
\* that fails ends it, and the caller with it.
Store ==
  /\ pending > 0 /\ Len(stored) < StoreLimit
  /\ LET t == tables[Len(tables) - pending + 1]
         frames == FramesOf(t)
     IN  \E puts \in 0..Len(frames) :
           /\ queued' = queued \o SubSeq(frames, 1, puts)
           /\ stored' = Append(stored, [table |-> t, told |-> puts = Len(frames)])
           /\ pending' = IF puts = Len(frames) THEN pending - 1 ELSE 0
  /\ UNCHANGED <<source, tables, kept, got>>

Commit ==
  /\ queued # <<>>
  /\ kept' = kept \o queued
  /\ queued' = <<>>
  /\ UNCHANGED <<source, tables, pending, stored, got>>

Get(id) ==
  /\ got' = ReadTable(id)
  /\ UNCHANGED <<source, tables, pending, queued, kept, stored>>

TableNext ==
  \/ Extract \/ Store \/ Commit
  \/ \E t \in ToSet(stored) : Get(t.table.id)

TableSpec == TableInit /\ [][TableNext]_tableVars

-----------------------------------------------------------------------------
AllData(list) == FlattenSeq([i \in DOMAIN list |-> DataRows(list[i])])
Shown(rows) == {<<r.page, r.cells>> : r \in ToSet(rows)}

(* A table of several pages shows its header once and numbers its rows      *)
(* upwards, when the first row of each page is a header row and headers     *)
(* merge from a likeness of 0.8 on: below that a second header row stays    *)
(* and can take a number that is taken.  Merging neither loses nor repeats  *)
(* a row of a page (merge_two_tables).                                      *)
RowsOnce ==
  \A found \in {Detected(source.doc, source.options)} :
    /\ source.options.similarity >= 800 /\ (\A t \in ToSet(found) : t.rows[1].header) =>
         \A t \in ToSet(tables) :
           /\ \A i, j \in DOMAIN t.rows : i < j => t.rows[i].index < t.rows[j].index
           /\ \A i \in DOMAIN t.rows : t.rows[i].header => i = 1
    /\ tables # <<>> =>
         /\ Len(AllData(tables)) = Len(AllData(found))
         /\ Shown(AllData(tables)) = Shown(AllData(found))

(* A table that was stored whole, once, reads back with every row in order  *)
(* and every cell under its header, when its headers differ (store_table,   *)
(* get_table).                                                              *)
ReadBack ==
  \A s \in {s \in ToSet(stored) : s.told /\ s.table.id = got.id} :
    Cardinality({i \in DOMAIN stored : stored[i].table.id = got.id}) = 1 /\ IsInjective(s.table.headers) =>
      /\ Len(got.rows) = Len(DataRows(s.table)) /\ got.count = Len(got.rows)
      /\ \A i \in DOMAIN got.rows, c \in DOMAIN got.headers :
           got.rows[i].cells[c] = IF c <= Len(DataRows(s.table)[i].cells) THEN DataRows(s.table)[i].cells[c] ELSE <<>>

=============================================================================
