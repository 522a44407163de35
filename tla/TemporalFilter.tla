-------------------------- MODULE TemporalFilter --------------------------
(***************************************************************************)
(* The timeline (memvid/timeline.rs) and the temporal filter of it and of  *)
(* search (memvid/search/time_filter.rs).  The mentions of a document are  *)
(* collected when its put is applied and dropped with the delta, as        *)
(* publish_temporal_delta has no caller: a filter looks at the timestamps  *)
(* of the frames. A moment is in minutes of UTC, and an update of a        *)
(* document is a put and a delete.                                         *)
(***************************************************************************)
EXTENDS TemporalPhrases, SequencesExt, FiniteSets

CONSTANTS
  Phrases,   \* phrases asked for
  Moments,   \* moments of the clock, and timestamps
  Offsets,   \* offsets of time zones
  MaxDocs    \* bound on the frames

VARIABLES
  docs,       \* committed frames: a sequence of [at, role, active]
  timeIndex,  \* the frames of the time index, or NoIndex
  clock,
  page        \* the last answer and its question, until something changes

timeVars == <<docs, timeIndex, clock, page>>

NoIndex == <<0>>   \* no frame has the number 0
NoPage == [asked |-> FALSE]
Failed == <<0>>
Always == <<"always">>
Forever == 2000000000

Ids == DOMAIN docs
Active == {i \in Ids : docs[i].active}

Earlier(d, i, j) == d[i].at < d[j].at \/ (d[i].at = d[j].at /\ i < j)

\* rebuild_indexes: the active documents by time.
Indexed(d) ==
  SetToSortSeq({i \in DOMAIN d : d[i].active /\ d[i].role = "document"},
               LAMBDA i, j : Earlier(d, i, j))

\* A commit with its indexes, or one that leaves them to a later rebuild and
\* drops the old ones (commit_skip_indexes).
Commit(d) ==
  /\ docs' = d
  /\ timeIndex' \in {Indexed(d), NoIndex}
  /\ page' = NoPage
  /\ UNCHANGED clock

Put(at, role) ==
  /\ Len(docs) < MaxDocs
  /\ Commit(Append(docs, [at |-> at, role |-> role, active |-> TRUE]))

Delete(i) == i \in Active /\ Commit([docs EXCEPT ![i].active = FALSE])

\* finalize_indexes, with nothing left in the write-ahead log.
Finalize ==
  /\ timeIndex' = Indexed(docs)
  /\ page' = NoPage
  /\ UNCHANGED <<docs, clock>>

Tick == \E m \in Moments : m > clock /\ clock' = m /\ page' = NoPage /\ UNCHANGED <<docs, timeIndex>>

-----------------------------------------------------------------------------
\* resolution_to_bounds: a date is the midnight of UTC it starts at, a moment
\* is where the zone has it.
BoundsOf(resolution, zone) ==
  IF resolution.kind = "dates"
  THEN [from |-> Midnight(resolution.from), to |-> Midnight(resolution.to)]
  ELSE [from |-> resolution.from - zone, to |-> resolution.to - zone]

Within(at, bounds) == bounds.from <= at /\ at <= bounds.to

\* frame_ids_in_date_range: without an index nothing is filtered.
Candidates(bounds) ==
  IF timeIndex = NoIndex THEN Ids ELSE {i \in ToSet(timeIndex) : Within(docs[i].at, bounds)}

\* The entries are those of the index and then the images, which it lacks;
\* without an index, every active frame.
Entries ==
  LET inOrder(S) == SetToSortSeq(S, LAMBDA i, j : i < j) IN
  IF timeIndex = NoIndex THEN inOrder(Active)
  ELSE timeIndex \o inOrder({i \in Active : docs[i].role = "image"})

Cut(s, limit) == SubSeq(s, 1, IF limit < Len(s) THEN limit ELSE Len(s))

\* Mutant: the limit is applied before the window.
LimitedFirst(candidates, window, reverse, limit) ==
  SelectSeq(Cut(IF reverse THEN Reverse(Entries) ELSE Entries, limit),
            LAMBDA i : i \in candidates /\ Within(docs[i].at, window))

Timeline(candidates, window, reverse, limit) ==
  LET kept == SelectSeq(Entries, LAMBDA i : i \in candidates /\ Within(docs[i].at, window))
  IN Cut(IF reverse THEN Reverse(kept) ELSE kept, limit)

Question(phrase, window, reverse, limit) ==
  [asked |-> TRUE, phrase |-> phrase, window |-> window, reverse |-> reverse, limit |-> limit]

\* A question never changes what the next one sees: one is asked between two
\* changes, a bound.
\*
\* build_timeline with a filter that has a phrase: one that is not supported is
\* an error, and the images, which the index lacks, never pass.
AskPhrase(phrase, zone) ==
  /\ ~page.asked
  /\ \E r \in {Resolve(phrase, clock + zone)} :
     \E candidates \in {IF r.kind = "error" THEN {} ELSE Candidates(BoundsOf(r, zone))} :
     \E all \in {[from |-> 0, to |-> Forever]} :
       page' = Question(phrase, BoundsOf(r, zone), FALSE, MaxDocs)
         @@ [frames |-> IF r.kind = "error" THEN Failed ELSE Timeline(candidates, all, FALSE, MaxDocs)]
  /\ UNCHANGED <<docs, timeIndex, clock>>

AskWindow(since, until, reverse, limit) ==
  /\ since <= until
  /\ ~page.asked
  /\ page' = Question(Always, [from |-> since, to |-> until], reverse, limit)
       @@ [frames |-> Timeline(Ids, [from |-> since, to |-> until], reverse, limit)]
  /\ UNCHANGED <<docs, timeIndex, clock>>

-----------------------------------------------------------------------------
TimeInit ==
  /\ docs = << >>
  /\ timeIndex = NoIndex
  /\ clock \in Moments
  /\ page = NoPage

TimeNext ==
  \/ \E at \in Moments, role \in {"document", "image", "chunk"} : Put(at, role)
  \/ \E i \in Ids : Delete(i)
  \/ Finalize
  \/ Tick
  \/ \E phrase \in Phrases, zone \in Offsets : AskPhrase(phrase, zone)
  \/ \E since \in Moments, until \in Moments, reverse \in BOOLEAN, limit \in {1, MaxDocs} :
       AskWindow(since, until, reverse, limit)

TimeSpec == TimeInit /\ [][TimeNext]_timeVars

-----------------------------------------------------------------------------
\* For a reader of every zone the next weekday, week or month is after today
\* and the last one before it, and this one is the week or the month of today
\* (analysis/temporal.rs). It is about the clock alone, and looked at while
\* there is no document.
NextAndLast ==
  docs = << >> => \A zone \in Offsets : \A now \in {clock + zone} : \A today \in {DateOf(now)} :
    LET span(p) == Resolve(p, now)
    IN /\ \A w \in 0 .. 6 :
            /\ span(<<"weekday", 1, w>>).from \in today + 1 .. today + 7
            /\ span(<<"weekday", -1, w>>).to \in today - 7 .. today - 1
            /\ span(<<"weekday", 0, w>>).from \in span(<<"week", 0>>).from .. span(<<"week", 0>>).to
            /\ span(<<"next weekday at", w, 9, "none">>).from > now
       /\ span(<<"week", -1>>).to + 1 = span(<<"week", 0>>).from
       /\ span(<<"week", 1>>).from = span(<<"week", 0>>).to + 1
       /\ span(<<"month", -1>>).to < today
       /\ span(<<"start of next month">>).from > today
       /\ span(<<"first business day">>).from > today
       /\ span(<<"months", -3>>).from < today
       /\ span(<<"midnight tomorrow">>).from \in now + 1 .. now + 1440

\* With an index a page holds what its question asks for: every frame of it is
\* active and in the window, the documents are in the order of time, and one it
\* leaves out would come after all of them (memvid/timeline.rs).
PageComplete ==
  page.asked /\ timeIndex # NoIndex /\ page.frames # Failed =>
    LET roles == IF page.phrase = Always THEN {"document", "image"} ELSE {"document"}
        image(i) == docs[i].role = "image"
        \* i comes before j in an answer that is not reversed
        before(i, j) ==
          IF image(i) = image(j)
          THEN (image(i) /\ i < j) \/ (~image(i) /\ Earlier(docs, i, j))
          ELSE image(j)
    IN \A wanted \in {{i \in Active : docs[i].role \in roles /\ Within(docs[i].at, page.window)}} :
       \A shown \in {ToSet(page.frames)} :
         /\ shown \subseteq wanted
         /\ Len(page.frames) = (IF Cardinality(wanted) < page.limit THEN Cardinality(wanted)
                                ELSE page.limit)
         /\ \A i \in shown, j \in wanted \ shown :
              IF page.reverse THEN before(j, i) ELSE before(i, j)
=============================================================================
