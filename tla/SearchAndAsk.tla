--------------------------- MODULE SearchAndAsk ---------------------------
(***************************************************************************)
(* search and ask of a memory file: src/memvid/src/memvid/search/,         *)
(* src/memvid/src/memvid/ask.rs, the query language of                     *)
(* src/memvid/src/search/ and the sketches of types/sketch_track.rs.       *)
(*                                                                         *)
(* A search keeps the frames that a time-travel view, a time range and the *)
(* sketches leave, asks the lexical index for the stems of its words, and  *)
(* keeps of the answer what has the words as they were written.  A         *)
(* question is searched several times with wider and wider queries; the    *)
(* lists found are fused by rank, and the fused list is reordered by       *)
(* words, by dates, by documents, by meaning and by corrections in turn.   *)
(*                                                                         *)
(* A text is the set of its words, the score of the lexical library a      *)
(* ranking of the frames that is chosen once for a call, and the meaning   *)
(* of a frame its closeness to every question.                             *)
(***************************************************************************)
EXTENDS Naturals, Sequences, FiniteSets, SequencesExt, FiniteSetsExt

CONSTANTS
  Words,              \* the words of texts and questions
  Stem,               \* the stem of each word, as the lexical index keeps it
  Within,             \* the pairs <<v, w>> where v is a substring of w
  Variants,           \* singular or plural of a word
  Abstract,           \* the words an analytical question does not search for
  Modifiers,          \* the words a question about the present does not search for
  Alike,              \* the pairs of word sets whose sketches match
  Notes,              \* what may be put
  Corrections,        \* the URIs of corrections
  CorrectionPattern,  \* the URI that ask searches corrections by
  Queries,            \* the searches that are asked for
  Questions,          \* the questions that are asked
  MinResults,         \* AdaptiveConfig.min_results
  MaxFrames           \* bound on the frames of the file

VARIABLES
  frames,     \* the frames of the file, in the order of their ids
  track,      \* the sketches: id and words, in the order of insertion
  written,    \* the sketches as the last commit wrote them: words only
  answer      \* the last answer

searchVars == <<frames, track, written, answer>>

FrameIds == DOMAIN frames
InOrder == [id \in FrameIds |-> id]
NoAnswer == [kind |-> "none", error |-> "none", hits |-> <<>>]
Failed(kind, error) == [kind |-> kind, error |-> error, hits |-> <<>>]

-----------------------------------------------------------------------------
(* Sketches. *)

\* generate_sketch: nothing of a text but its words decides.
SketchOf(id) == [id |-> id, words |-> frames[id].words]

\* to_small_bytes has no room for the id of a frame.
EntryBytes(entry) == entry.words

\* from_small_bytes is told the id.
EntryFrom(id, bytes) == [id |-> id, words |-> bytes]

\* write_sketch_track writes the entries one after the other.
Saved(entries) == [i \in DOMAIN entries |-> EntryBytes(entries[i])]

\* read_sketch_track gives the entries the ids 0, 1, 2, ... again.
Loaded(bytes) == [i \in DOMAIN bytes |-> EntryFrom(i, bytes[i])]

HasSketch(id) == \E i \in DOMAIN track : track[i].id = id

\* score_entry: the term filters overlap and the hashes are near.
Similar(words, entry) == <<words, entry.words>> \in Alike

\* find_candidates
SketchCandidates(words) ==
  {track[i].id : i \in {j \in DOMAIN track : Similar(words, track[j])}}

-----------------------------------------------------------------------------
(* The query language. *)

AllOf(words) == [words |-> words, all |-> TRUE, uri |-> "any"]
AnyOf(words) == [words |-> words, all |-> FALSE, uri |-> "any"]

\* Two queries are the same text.
SameQuery(a, b) ==
  /\ a.words = b.words
  /\ a.uri = b.uri
  /\ a.all = b.all \/ Cardinality(a.words) <= 1

Satisfies(query, Holds(_)) ==
  IF query.all \/ query.words = {} THEN \A w \in query.words : Holds(w)
  ELSE \E w \in query.words : Holds(w)

\* A field term compares the URI as a whole, whatever stars it has.
UriHolds(query, id) == query.uri \in {"any", frames[id].uri}

\* The lexical index holds the text of active frames and compares stems.
IndexMatches(query, id) ==
  LET Has(w) == \E v \in frames[id].words : Stem[v] = Stem[w] IN
  /\ frames[id].active /\ frames[id].words # {}
  /\ UriHolds(query, id)
  /\ Satisfies(query, Has)

ContainsWord(id, w) == \E v \in frames[id].words : <<w, v>> \in Within

\* ParsedQuery::evaluate asks for the words themselves, as substrings.
Evaluates(query, id) ==
  LET Has(w) == ContainsWord(id, w) IN
  UriHolds(query, id) /\ Satisfies(query, Has)

-----------------------------------------------------------------------------
(* search *)

\* get_replay_frame_ids: the active frames up to a moment.
ReplayIds(asOf) == {id \in FrameIds : frames[id].active /\ frames[id].at <= asOf}

\* filter_hits_in_time_range and the temporal filter of a search.
InRange(id, since) == frames[id].at >= since

\* The candidates of a search after its filters: a view that the sketches
\* leave nothing of is given up for the sketches.
Candidates(request) ==
  LET timed == {id \in FrameIds : InRange(id, request.since)}
      view == IF request.asOf = 0 THEN timed ELSE timed \cap ReplayIds(request.asOf)
      sketched == IF request.noSketch \/ request.query.words = {} THEN {}
                  ELSE SketchCandidates(request.query.words)
  IN IF view = {} \/ sketched = {} THEN view
     ELSE IF view \cap sketched = {} THEN sketched ELSE view \cap sketched

Upto(s, n) == SubSeq(s, 1, IF n < Len(s) THEN n ELSE Len(s))

\* try_tantivy_search: what the index finds among the candidates, without
\* what the query culls. A query that culls everything goes on to the index
\* of an older format, and fails where there is none.
Search(request, ranking) ==
  LET indexed == {id \in Candidates(request) : IndexMatches(request.query, id)}
      kept == {id \in indexed : Evaluates(request.query, id)}
      Kept(id) == id \in kept
  IN IF request.query.words = {} /\ request.query.uri = "any"
       THEN Failed("found", "InvalidQuery")
     ELSE IF indexed # {} /\ kept = {} THEN Failed("found", "LexNotEnabled")
     ELSE [kind |-> "found", error |-> "none",
           hits |-> Upto(SelectSeq(ranking, Kept), request.k)]

-----------------------------------------------------------------------------
(* The kinds of a question, and its queries. *)

IsUpdate(q) ==
  \/ "update" \in q.says
  \/ "earlier" \in q.says /\ q.says \cap {"currently", "latest"} # {}
IsRecency(q) == q.says \cap {"currently", "latest"} # {}
IsAggregation(q) == "how many" \in q.says
IsAnalytical(q) == "compare" \in q.says

\* effective_top_k: some questions look at more than they were asked for.
Wide(q) ==
  IF IsAnalytical(q) THEN Max({5 * q.k, 50})
  ELSE IF IsAggregation(q) THEN Max({3 * q.k, 30})
  ELSE IF IsRecency(q) THEN Max({2 * q.k, 20})
  ELSE q.k

\* The query a question is searched by first.
FirstQuery(q) ==
  IF IsAnalytical(q) THEN AnyOf(q.words \ Abstract)
  ELSE IF IsRecency(q)
    THEN AnyOf(IF q.words \subseteq Modifiers THEN q.words ELSE q.words \ Modifiers)
  ELSE AllOf(q.words)

\* build_expanded_queries: the words with their singulars and plurals.
Expanded(q) == AnyOf(q.words \cup UNION {Variants[w] : w \in q.words})

\* A question never uses the sketches.
Asking(q, query, k) ==
  [query |-> query, asOf |-> q.asOf, since |-> q.since, noSketch |-> TRUE, k |-> k]

\* What is tried, one after the other, until something is found: all words,
\* any word, the name in the question, singulars and plurals.
Attempts(q) ==
  LET first == FirstQuery(q)
      Differs(query) == ~SameQuery(query, first)
  IN <<first>>
    \o SelectSeq(<<AnyOf(q.words), AnyOf({q.name}), Expanded(q)>>, Differs)

\* The first attempt that fails or finds something, the last one otherwise.
Attempt(q, ranking) ==
  LET queries == Attempts(q)
      tried == [i \in DOMAIN queries |-> Search(Asking(q, queries[i], Wide(q)), ranking)]
      ends == {i \in DOMAIN tried : tried[i].error # "none" \/ tried[i].hits # <<>>}
      at == IF ends = {} THEN 1 ELSE Min(ends)
  IN [query |-> queries[at], result |-> tried[at], fallback |-> at > 1]

-----------------------------------------------------------------------------
(* The lists that are fused. *)

\* A stable sort of hits: where neither comes before, the earlier stays so.
StableSort(s, Before(_, _)) ==
  LET Earlier(a, b) == \/ Before(a[2], b[2])
                       \/ ~Before(b[2], a[2]) /\ a[1] < b[1]
      sorted == SortSeq([i \in DOMAIN s |-> <<i, s[i]>>], Earlier)
  IN [i \in DOMAIN sorted |-> sorted[i][2]]

\* build_timeline_fallback_response: the oldest frames with text, whatever
\* range and view the question asks for.
TimelineHits(limit) ==
  LET Earlier(a, b) == frames[a].at < frames[b].at
      Active(id) == frames[id].active
      active == StableSort(SelectSeq(InOrder, Active), Earlier)
      HasText(id) == frames[id].words # {}
  IN SelectSeq(Upto(active, limit), HasText)

\* find_adaptive_cutoff, relative to the best score: the list ends before
\* the first hit, past the minimum, in the lower half of the scores.
AdaptiveCut(hits) ==
  LET score == [i \in DOMAIN hits |-> frames[hits[i]].near]
      low == score[Len(hits)]
      cuts == {i \in DOMAIN hits :
                 i > MinResults /\ 2 * (score[i] - low) < score[1] - low}
  IN IF cuts = {} \/ Len(hits) <= MinResults THEN hits ELSE Upto(hits, Min(cuts) - 1)

\* vec_search_with_embedding: the frames with a vector, closest first,
\* whatever range and view the question asks for.
Closest ==
  LET Closer(a, b) == frames[a].near > frames[b].near
      HasVector(id) == frames[id].active /\ frames[id].near > 0
  IN StableSort(SelectSeq(InOrder, HasVector), Closer)

\* search_adaptive
AdaptiveHits == IF Closest = <<>> THEN <<>> ELSE AdaptiveCut(Closest)

VectorHits(q) ==
  IF ~q.embed THEN <<>> ELSE IF q.adaptive THEN AdaptiveHits ELSE Closest

\* The search for corrections, whose failure is ignored.
CorrectionHits(q, ranking) ==
  Search(Asking(q, [AnyOf(q.words) EXCEPT !.uri = CorrectionPattern], 10), ranking).hits

\* 1 / (RRF_K + rank), in millionths.
Share(rank) == 1000000 \div (60 + rank)

\* fuse_hits_rrf: the sums of the shares, the better rank when they tie.
Fused(lists, ranking) ==
  LET ids == UNION {ToSet(lists[i]) : i \in DOMAIN lists}
      Listed(id) == id \in ids
      ranks == [id \in ids |-> {r \in (DOMAIN lists) \X (1 .. Len(ranking)) :
                                  r[2] \in DOMAIN lists[r[1]] /\ lists[r[1]][r[2]] = id}]
      score == [id \in ids |-> MapThenSumSet(LAMBDA r : Share(r[2]), ranks[id])]
      best == [id \in ids |-> Min({r[2] : r \in ranks[id]})]
      Better(a, b) == \/ score[a] > score[b]
                      \/ score[a] = score[b] /\ best[a] < best[b]
  IN StableSort(SelectSeq(ranking, Listed), Better)

-----------------------------------------------------------------------------
(* The reorderings of the fused list. *)

\* reorder_hits_by_token_matches: more of the words of the question first.
ByWords(hits, words) ==
  LET Found(id) == Cardinality({w \in words : ContainsWord(id, w)})
      More(a, b) == Found(a) > Found(b)
  IN StableSort(hits, More)

\* The date of the content, or else of the frame.
EffectiveTime(id) == IF frames[id].about # 0 THEN frames[id].about ELSE frames[id].at

First(ids, hits) == ids \o SelectSeq(hits, LAMBDA id : ~Contains(ids, id))

\* Mutant: the present before the past.
TemporalExtremesSwapped(hits, earliest) ==
  LET Earlier(a, b) == EffectiveTime(a) < EffectiveTime(b)
      dated == StableSort(hits, Earlier)
      ends == IF earliest THEN <<dated[Len(hits)], dated[1]>> ELSE <<dated[1]>>
  IN IF Len(hits) < 2 THEN hits ELSE First(ends, hits)

\* promote_temporal_extremes: the latest hit first, for an update after the
\* earliest one.
TemporalExtremes(hits, earliest) ==
  LET Earlier(a, b) == EffectiveTime(a) < EffectiveTime(b)
      dated == StableSort(hits, Earlier)
      ends == (IF earliest THEN <<dated[1]>> ELSE <<>>) \o <<dated[Len(hits)]>>
  IN IF Len(hits) < 2 THEN hits ELSE First(ends, hits)

\* diversify_hits_for_aggregation: one hit of each document first, the
\* others while there is room.
Diversified(hits, k) ==
  LET fresh == {i \in DOMAIN hits :
                  \A j \in 1 .. i - 1 : frames[hits[j]].uri # frames[hits[i]].uri}
      one == Upto(SelectSeq(hits, LAMBDA id : \E i \in fresh : hits[i] = id), k)
  IN IF Len(hits) <= k THEN hits ELSE Upto(First(one, hits), k)

\* apply_semantic_ranking has nothing to say when no hit has a vector.
SemanticsApply(q, hits) ==
  q.mode # "lex" /\ q.embed /\ \E i \in DOMAIN hits : frames[hits[i]].near > 0

\* reorder_hits_with_semantic_scores: closer first, the rank when they tie.
ByMeaning(hits) ==
  LET Closer(a, b) == frames[a].near > frames[b].near IN StableSort(hits, Closer)

IsCorrection(id) == frames[id].uri \in Corrections

\* Mutant: corrections first, in the order of their rank.
CorrectionsByRank(hits) == First(SelectSeq(hits, IsCorrection), hits)

\* promote_corrections: corrections first, the newest of them before.
CorrectionsFirst(hits) ==
  LET Newer(a, b) == frames[a].at > frames[b].at
  IN First(StableSort(SelectSeq(hits, IsCorrection), Newer), hits)

\* determine_retriever
Retriever(q, semantic, fallback, timeline) ==
  IF timeline THEN "timeline"
  ELSE IF q.mode = "lex" THEN "lex"
  ELSE IF semantic THEN q.mode
  ELSE IF q.mode = "sem" \/ fallback THEN "lex fallback" ELSE "lex"

-----------------------------------------------------------------------------
(* ask *)

\* The lists that ask fuses, after its attempts found hits: for an analytical
\* question the timeline alone, and for all of them the corrections.
Lists(q, query, hits, ranking) ==
  LET wider == IF SameQuery(AnyOf(q.words), query) THEN <<>>
               ELSE Search(Asking(q, AnyOf(q.words), Wide(q)), ranking).hits
      recalled == IF IsAnalytical(q) THEN <<TimelineHits(100)>>
                  ELSE <<hits, wider, VectorHits(q)>>
  IN SelectSeq(Append(recalled, CorrectionHits(q, ranking)), LAMBDA l : l # <<>>)

\* A wider search may fail where the first one did not.
WiderFails(q, query, ranking) ==
  /\ ~IsAnalytical(q)
  /\ ~SameQuery(AnyOf(q.words), query)
  /\ Search(Asking(q, AnyOf(q.words), Wide(q)), ranking).error # "none"

Dated(q, hits) ==
  IF IsUpdate(q) \/ IsRecency(q) THEN TemporalExtremes(hits, IsUpdate(q)) ELSE hits

\* What ask has before it reorders: the hits of an attempt or of the timeline,
\* fused with those of the wider searches.
Recalled(q, found, ranking) ==
  LET timeline == found.result.hits = <<>> /\ TimelineHits(q.k) # <<>>
      hits == IF timeline THEN TimelineHits(q.k) ELSE found.result.hits
      lists == Lists(q, found.query, hits, ranking)
      error == IF found.result.error # "none" THEN found.result.error
               ELSE IF WiderFails(q, found.query, ranking) THEN "LexNotEnabled" ELSE "none"
  IN [error |-> error, timeline |-> timeline, fallback |-> found.fallback,
      hits |-> IF error # "none" THEN <<>>
               ELSE IF lists = <<>> THEN hits ELSE Fused(lists, ranking)]

\* The fused list by words and dates, one hit of each document first when
\* documents are counted.
Arranged(q, recalled) ==
  LET worded == IF recalled.fallback THEN ByWords(recalled.hits, q.words) ELSE recalled.hits
      dated == Dated(q, worded)
  IN IF IsAggregation(q) THEN Diversified(dated, q.k) ELSE dated

\* The arranged list by meaning, and the corrections before everything.
Ranked(q, recalled, arranged) ==
  LET semantic == SemanticsApply(q, arranged)
      ranked == IF semantic THEN Dated(q, ByMeaning(arranged)) ELSE arranged
  IN [kind |-> "asked", error |-> "none", hits |-> CorrectionsFirst(ranked), of |-> q,
      semantic |-> semantic,
      retriever |-> Retriever(q, semantic, recalled.fallback, recalled.timeline)]

-----------------------------------------------------------------------------
SearchInit ==
  /\ frames = <<>>
  /\ track = <<>>
  /\ written = <<>>
  /\ answer = NoAnswer

Commits == written' = IF track' = <<>> THEN written ELSE Saved(track')

\* A put and its commit: the frame, its place in the index, and its sketch.
Put(note) ==
  /\ Len(frames) < MaxFrames
  /\ frames' = Append(frames, note)
  /\ track' = IF note.words = {} THEN track
              ELSE Append(track, [id |-> Len(frames'), words |-> note.words])
  /\ Commits
  /\ answer' = NoAnswer

\* A delete and its commit; the sketch of the frame stays.
Delete(id) ==
  /\ frames[id].active
  /\ frames' = [frames EXCEPT ![id].active = FALSE]
  /\ UNCHANGED track
  /\ Commits
  /\ answer' = NoAnswer

\* build_all_sketches: for active frames with text that have none.
BuildSketches ==
  LET Missing(id) == frames[id].active /\ frames[id].words # {} /\ ~HasSketch(id)
      ids == SelectSeq(InOrder, Missing)
  IN /\ ids # <<>>
     /\ track' = track \o [i \in DOMAIN ids |-> SketchOf(ids[i])]
     /\ answer' = NoAnswer
     /\ UNCHANGED <<frames, written>>

\* The file is opened again: the sketches are those last written.
Reopen ==
  /\ track' = Loaded(written)
  /\ answer' = NoAnswer
  /\ UNCHANGED <<frames, written>>

\* The orders in which the lexical library may score the frames.
Rankings == {s \in [FrameIds -> FrameIds] : ToSet(s) = FrameIds}

Find(request) ==
  /\ answer = NoAnswer
  /\ \E ranking \in Rankings : answer' = Search(request, ranking)
  /\ UNCHANGED <<frames, track, written>>

Ask(q) ==
  /\ answer = NoAnswer
  /\ \E ranking \in Rankings :
       \E found \in {Attempt(q, ranking)} :
         \E recalled \in {Recalled(q, found, ranking)} :
           \E arranged \in {Arranged(q, recalled)} :
             answer' = IF recalled.error # "none" THEN Failed("asked", recalled.error)
                       ELSE Ranked(q, recalled, arranged)
  /\ UNCHANGED <<frames, track, written>>

SearchNext ==
  \/ \E note \in Notes : Put(note)
  \/ \E id \in FrameIds : Delete(id)
  \/ BuildSketches
  \/ Reopen
  \/ \E request \in Queries : Find(request)
  \/ \E q \in Questions : Ask(q)

SearchSpec == SearchInit /\ [][SearchNext]_searchVars

-----------------------------------------------------------------------------
Asked == answer.kind = "asked" /\ answer.error = "none"

\* Whatever fusion, words, dates, documents and meaning made of the list, an
\* answer that has corrections starts with all of them, and the newest
\* correction leads.
NewestCorrectionFirst ==
  Asked =>
    \A i, j \in DOMAIN answer.hits :
      LET earlier == answer.hits[i]
          later == answer.hits[j]
      IN i < j /\ IsCorrection(later) =>
           IsCorrection(earlier) /\ frames[earlier].at >= frames[later].at

\* Without corrections, the answer to a question about the present starts
\* with the latest of its hits, and to one about a change with the earliest
\* and then the latest; only a list that was cut to the number asked for, and
\* not ranked by meaning afterwards, may have lost the latest.
ExtremesFirst ==
  Asked =>
    LET q == answer.of
        hits == answer.hits
        n == IF IsUpdate(q) THEN 2 ELSE 1
    IN \/ ~IsUpdate(q) /\ ~IsRecency(q)
       \/ Len(hits) < 2
       \/ \E i \in DOMAIN hits : IsCorrection(hits[i])
       \/ IsAggregation(q) /\ ~answer.semantic
       \/ \A i \in DOMAIN hits :
            /\ EffectiveTime(hits[n]) >= EffectiveTime(hits[i]) \/ (i = 1 /\ n = 2)
            /\ n = 2 => EffectiveTime(hits[1]) <= EffectiveTime(hits[i])

=============================================================================
