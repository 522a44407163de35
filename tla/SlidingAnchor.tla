--------------------------- MODULE SlidingAnchor ---------------------------
(***************************************************************************)
(* Relative dates resolved by the date last found in the text              *)
(* (analysis/temporal_enrich.rs): the chunks of a document are enriched in *)
(* order by one tracker.  A line is [form, date, phrase]: the form of its  *)
(* date, or "none", and the relative phrase in it, or << >>.               *)
(***************************************************************************)
EXTENDS TemporalPhrases, SequencesExt, FiniteSets

CONSTANTS
  Chunks,          \* chunks: sequences of lines
  DocumentDates,   \* dates of the document's metadata
  MaxRead          \* bound on the chunks of a document

VARIABLES
  tracker,    \* [date, confidence], or NoAnchor
  read,       \* ghost: the chunks so far, and the date of the document
  enriched    \* what the last chunk became: its anchor and its resolutions

anchorVars == <<tracker, read, enriched>>

NoAnchor == [date |-> 0, confidence |-> 0]
NoText == [anchor |-> NoAnchor, resolved |-> << >>]

\* detect_anchor_in_line: confidences in hundredths.
Confidence == [header |-> 95, iso |-> 90, long |-> 85, slash |-> 70, document |-> 70]

AnchorOf(line) == [date |-> line.date, confidence |-> Confidence[line.form]]

\* Mutant: a later date replaces one that is as certain.
AnchoredLatest(t, line) ==
  IF /\ line.form # "none"
     /\ AnchorOf(line).confidence >= t.confidence
  THEN AnchorOf(line) ELSE t

\* process_line: a header always counts, another date if it is more certain.
Anchored(t, line) ==
  IF /\ line.form # "none"
     /\ \/ t = NoAnchor
        \/ AnchorOf(line).confidence > t.confidence
        \/ line.form = "header"
  THEN AnchorOf(line) ELSE t

-----------------------------------------------------------------------------
\* resolve_relative_phrase. Months count back and forth from the month of the
\* anchor with the day cut at 28, years give the whole year.
Shifted(date, delta) ==
  LET d == Civil(date)
      total == d.year * 12 + d.month + delta - 1
  IN DayNumber(total \div 12, (total % 12) + 1, IF d.day < 28 THEN d.day ELSE 28)

YearOf(year) == Dates(DayNumber(year, 1, 1), DayNumber(year, 12, 31))

WeekdayFromAnchor(date, direction, weekday) ==
  LET diff == weekday - Weekday(date) IN
  CASE direction = -1 -> date + (IF diff >= 0 THEN diff - 7 ELSE diff)
    [] direction = 0 -> date + diff
    [] direction = 1 -> date + (IF diff <= 0 THEN diff + 7 ELSE diff)

ResolvedBy(phrase, date) ==
  CASE phrase[1] = "years" -> YearOf(Civil(date).year + phrase[2])
    [] phrase[1] = "month" -> MonthOf(Months(date, phrase[2]))
    [] phrase[1] = "week" -> Dates(date - Weekday(date) + 7 * phrase[2],
                                   date - Weekday(date) + 7 * phrase[2] + 6)
    [] phrase[1] = "days" -> On(date + phrase[2])
    [] phrase[1] = "weeks" -> On(date + 7 * phrase[2])
    [] phrase[1] = "months" -> On(Shifted(date, phrase[2]))
    [] phrase[1] = "weekday" -> On(WeekdayFromAnchor(date, phrase[2], phrase[3]))

\* enrich_chunk: all lines are looked at for a date before the phrases of any
\* are resolved. A chunk without an anchor gets no context.
Scanned(t, chunk) == FoldLeft(Anchored, t, chunk)
PhrasesOf(chunk) == SelectSeq([i \in DOMAIN chunk |-> chunk[i].phrase], LAMBDA p : p # << >>)

Enrich(chunk) ==
  /\ Len(read.chunks) < MaxRead
  /\ \E t \in {Scanned(tracker, chunk)} :
       /\ tracker' = t
       /\ enriched' = [anchor |-> t,
                       resolved |-> IF t = NoAnchor THEN << >>
                                    ELSE [i \in DOMAIN PhrasesOf(chunk) |->
                                            ResolvedBy(PhrasesOf(chunk)[i], t.date)]]
  /\ read' = [read EXCEPT !.chunks = Append(@, chunk)]

-----------------------------------------------------------------------------
AnchorInit ==
  /\ \/ tracker = NoAnchor
     \/ \E d \in DocumentDates : tracker = [date |-> d, confidence |-> Confidence.document]
  /\ read = [from |-> tracker, chunks |-> << >>]
  /\ enriched = NoText

AnchorNext == \E chunk \in Chunks : Enrich(chunk)

AnchorSpec == AnchorInit /\ [][AnchorNext]_anchorVars

-----------------------------------------------------------------------------
\* The anchor is the date of the last header of the document, or, without one,
\* the first of its most certain dates (TemporalAnchorTracker).
AnchorInForce ==
  LET dated == SelectSeq(FlattenSeq(read.chunks), LAMBDA l : l.form # "none")
      headers == SelectSeq(dated, LAMBDA l : l.form = "header")
      found == (IF read.from = NoAnchor THEN << >> ELSE <<read.from>>)
                 \o [i \in DOMAIN dated |-> AnchorOf(dated[i])]
      best == {i \in DOMAIN found : \A j \in DOMAIN found : found[j].confidence <= found[i].confidence}
  IN IF headers # << >> THEN tracker = AnchorOf(Last(headers))
     ELSE IF found = << >> THEN tracker = NoAnchor
     ELSE tracker = found[CHOOSE i \in best : \A j \in best : i <= j]

\* A relative phrase means the same to the enrichment of text and to the filter
\* of queries, a number of months from the end of one apart (temporal_enrich.rs,
\* analysis/temporal.rs).
ResolversAgree ==
  enriched.resolved # << >> =>
    LET date == enriched.anchor.date
        phrases == PhrasesOf(Last(read.chunks))
    IN \A i \in DOMAIN phrases :
         /\ phrases[i][1] \in DayKinds \cup {"month"} =>
              enriched.resolved[i] = Resolve(phrases[i], Midnight(date))
         /\ phrases[i][1] = "months" =>
              LET other == Resolve(phrases[i], Midnight(date)) IN
              /\ Civil(other.from).month = Civil(enriched.resolved[i].from).month
              /\ Civil(date).day <= 28 => enriched.resolved[i] = other
=============================================================================
