---------------------------- MODULE MemoryCards ----------------------------
(* The memory cards of a memvid file (types/memories_track.rs,               *)
(* memvid/memory.rs, types/schema.rs): facts about the slots of an entity,   *)
(* put by hand or extracted from frames by an engine, with the schemas that  *)
(* say what a slot may hold.  A value is the set of what its text parses as: *)
(* "number", "integer", "boolean", "dash" (it has one), "capitalT" (dto.).   *)
(* The cards of one entity are modelled: an entity's are kept apart from any *)
(* other's by the key of the slot index.                                     *)
EXTENDS Integers, FiniteSets, Sequences, SequencesExt, FiniteSetsExt

CONSTANTS Extracted,       \* per frame, the cards an engine finds in its text
          EngineVersions,  \* versions of the engine a caller runs
          CardsByHand,     \* [slot, value, relation, date]
          CardLimit,       \* bound: cards of a track
          ReopenLimit      \* bound: reopens

VARIABLES track,       \* cards, next id, slot index and enrichment stamps in memory
          savedTrack,  \* the track the table of contents names, or NoTrack
          schemas,     \* range of a slot's schema, "none" when it has none
          strictCards, \* schema_strict
          cardReopens

cardVars == <<track, savedTrack, schemas, strictCards, cardReopens>>

CardSlots == {c.slot : c \in CardsByHand \cup UNION {ToSet(Extracted[f]) : f \in DOMAIN Extracted}}
CardDates == {c.date : c \in CardsByHand \cup UNION {ToSet(Extracted[f]) : f \in DOMAIN Extracted}}
NoTrack == [cards |-> <<>>, next |-> 0, index |-> [s \in CardSlots |-> <<>>],
            stamps |-> [f \in DOMAIN Extracted |-> <<>>]]
\* register_builtin_schemas: what it says of the slots looked at.
BuiltinSchemas ==
  [s \in CardSlots |-> CASE s = "age" -> "Number" [] s = "city" -> "String"
                         [] s = "birthday" -> "DateTime" [] OTHER -> "none"]

------------------------------------------------------------------------------
(* Schemas *)

\* ValueType::matches
Matches(range, value) ==
  CASE range = "Number" -> "number" \in value
    [] range = "DateTime" -> value \cap {"integer", "capitalT", "dash"} # {}
    [] range = "Boolean" -> "boolean" \in value
    [] OTHER -> TRUE
\* validate_card: a slot without a schema holds anything.
Validates(c) == Matches(schemas[c.slot], c.value)
\* Mutant: one value that parses settles the range.
InferRangeAny(values) ==
  IF \E v \in values : "number" \in v THEN "Number"
  ELSE IF \E v \in values : v \cap {"integer", "capitalT"} # {} THEN "DateTime"
  ELSE IF \E v \in values : "boolean" \in v THEN "Boolean" ELSE "String"
\* infer_from_values: the first range all the values seen have.
InferRange(values) ==
  IF \A v \in values : "number" \in v THEN "Number"
  ELSE IF \A v \in values : v \cap {"integer", "capitalT"} # {} THEN "DateTime"
  ELSE IF \A v \in values : "boolean" \in v THEN "Boolean" ELSE "String"
ValuesOf(s) == {track.cards[i].value : i \in {j \in DOMAIN track.cards : track.cards[j].slot = s}}

------------------------------------------------------------------------------
(* The track *)

\* add_card: the next id, in front of the index of its slot.
AddCard(t, c) ==
  [t EXCEPT !.cards = Append(@, c @@ [id |-> t.next]), !.next = @ + 1,
            !.index[c.slot] = <<t.next>> \o @]
AddCards(t, cards) == FoldLeft(AddCard, t, cards)
\* get_cards: of a slot, the last put first.
GetCards(t, s) ==
  [i \in DOMAIN t.index[s] |-> CHOOSE c \in ToSet(t.cards) : c.id = t.index[s][i]]
\* The first card of the latest date that is no retraction.  The code's sort
\* is stable: of one date, the card put last comes first.
LatestOf(cards) ==
  LET live == SelectSeq(cards, LAMBDA c : c.relation # "retracts")
      last == Max({live[i].date : i \in DOMAIN live})
  IN  IF live = <<>> THEN <<>> ELSE <<SelectSeq(live, LAMBDA c : c.date = last)[1]>>
GetCurrent(t, s) == LatestOf(GetCards(t, s))
\* Mutant: the day that is asked for does not count.
GetBeforeTime(t, s, time) == LatestOf(SelectSeq(GetCards(t, s), LAMBDA c : c.date < time))
GetAtTime(t, s, time) == LatestOf(SelectSeq(GetCards(t, s), LAMBDA c : c.date <= time))
\* aggregate_slot: the values from the newest card to the oldest; a retraction
\* takes a value away that a newer card has given.
AggregateSlot(t, s) ==
  FoldLeft(LAMBDA vs, c : IF c.relation = "retracts" THEN vs \ {c.value} ELSE vs \cup {c.value},
           {}, GetCards(t, s))

\* Mutant: only the last engine to run is asked.
NeedsEnrichmentLast(t, f, version) == t.stamps[f] = <<>> \/ Last(t.stamps[f]).version # version
\* needs_enrichment: no stamp of this engine version.
NeedsEnrichment(t, f, version) == \A i \in DOMAIN t.stamps[f] : t.stamps[f][i].version # version
RecordEnrichment(t, f, version, ids) ==
  [t EXCEPT !.stamps[f] = Append(@, [version |-> version, ids |-> ids])]

------------------------------------------------------------------------------
(* Operations *)

\* put_memory_card: a strict store refuses a card its schema does not admit.
PutCard == \E c \in CardsByHand :
  /\ Len(track.cards) < CardLimit
  /\ strictCards => Validates(c)
  /\ track' = AddCard(track, c)
  /\ UNCHANGED <<savedTrack, schemas, strictCards, cardReopens>>

\* run_enrichment: frame by frame; one that cannot be read (unread) is passed
\* over without a stamp, one whose cards a strict store refuses ends the run
\* with an error, and what earlier frames gave stays.
EnrichFrame(run, f, version, unread) ==
  LET cards == Extracted[f]
      refused == strictCards /\ \E i \in DOMAIN cards : ~Validates(cards[i])
      ids == {run.track.next + i - 1 : i \in DOMAIN cards}
  IN  IF run.failed \/ f \in unread \/ ~NeedsEnrichment(run.track, f, version) THEN run
      ELSE IF refused THEN [run EXCEPT !.failed = TRUE]
      ELSE [run EXCEPT !.track = RecordEnrichment(AddCards(@, cards), f, version, ids)]
RunEnrichment == \E version \in EngineVersions, unread \in SUBSET (DOMAIN Extracted) :
  LET run == FoldLeft(LAMBDA r, f : EnrichFrame(r, f, version, unread),
                      [track |-> track, failed |-> FALSE], [f \in DOMAIN Extracted |-> f])
  IN  /\ Len(run.track.cards) <= CardLimit
      /\ track' = run.track /\ track' # track
      /\ UNCHANGED <<savedTrack, schemas, strictCards, cardReopens>>

\* register_inferred_schemas
InferSchemas == \E overwrite \in BOOLEAN :
  /\ schemas' = [s \in CardSlots |-> IF ValuesOf(s) # {} /\ (overwrite \/ schemas[s] = "none")
                                     THEN InferRange(ValuesOf(s)) ELSE schemas[s]]
  /\ schemas' # schemas
  /\ UNCHANGED <<track, savedTrack, strictCards, cardReopens>>
SetStrict == /\ strictCards' = ~strictCards
             /\ UNCHANGED <<track, savedTrack, schemas, cardReopens>>
\* clear_memories: cards, index, ids and stamps.
ClearMemories == /\ track # NoTrack /\ track' = NoTrack
                 /\ UNCHANGED <<savedTrack, schemas, strictCards, cardReopens>>
\* A commit writes a track that has cards.  One that has none is forgotten when
\* the commit inserts frames, as it rebuilds the indexes then; otherwise the
\* track written before stays the one the table of contents names.
CommitCards == \E inserted \in BOOLEAN :
  /\ savedTrack' = IF track.cards # <<>> THEN track ELSE IF inserted THEN NoTrack ELSE savedTrack
  /\ savedTrack' # savedTrack
  /\ UNCHANGED <<track, schemas, strictCards, cardReopens>>
\* open: load_memories_track; schemas and strictness are not in the file.
ReopenCards ==
  /\ cardReopens < ReopenLimit /\ cardReopens' = cardReopens + 1
  /\ track' = savedTrack /\ schemas' = BuiltinSchemas /\ strictCards' = FALSE
  /\ UNCHANGED savedTrack

CardInit == /\ track = NoTrack /\ savedTrack = NoTrack /\ schemas = BuiltinSchemas
            /\ strictCards = FALSE /\ cardReopens = 0
CardNext == \/ PutCard \/ RunEnrichment \/ InferSchemas \/ SetStrict \/ ClearMemories
            \/ CommitCards \/ ReopenCards
CardSpec == CardInit /\ [][CardNext]_cardVars

------------------------------------------------------------------------------
\* Whatever versions run in whatever order, over clears, commits and reopens:
\* a version stamps a frame once, a card is in the index of its slot once, and
\* the cards a stamp names are in the track.
EnrichedOnce ==
  /\ \A f \in DOMAIN Extracted : \A i, j \in DOMAIN track.stamps[f] :
       i # j => track.stamps[f][i].version # track.stamps[f][j].version
  /\ \A f \in DOMAIN Extracted : \A i \in DOMAIN track.stamps[f] :
       track.stamps[f][i].ids \subseteq {c.id : c \in ToSet(track.cards)}
  /\ \A s \in CardSlots : IsInjective(track.index[s])
\* The current card of a slot, and the one of any day, is a card of the slot
\* that was not retracting, with no later one and none put after it that day.
CurrentStands ==
  \A s \in CardSlots, t \in CardDates :
    LET asked == {c \in ToSet(track.cards) : c.slot = s /\ c.relation # "retracts" /\ c.date <= t}
        best(c) == \A d \in asked : d.date < c.date \/ (d.date = c.date /\ d.id <= c.id)
    IN  ToSet(GetAtTime(track, s, t)) = {c \in asked : best(c)}
        /\ (t = Max(CardDates) => GetCurrent(track, s) = GetAtTime(track, s, t))
\* When a schema is inferred, the cards its slot has pass it: making the store
\* strict afterwards refuses nothing that it would have held already.
InferredAdmits ==
  [][\A s \in CardSlots : schemas'[s] # schemas[s] /\ cardReopens' = cardReopens =>
       \A v \in ValuesOf(s) : Matches(schemas'[s], v)]_cardVars
\* A retraction "Negates/removes a previous value" (memory_card.rs:84): does the
\* older value go?  get_current passes the retraction over and finds it again.
RetractionRemoves ==
  \A s \in CardSlots : \A i \in DOMAIN GetCards(track, s) :
    LET c == GetCards(track, s)[i] IN
    c.relation = "retracts" => \A d \in ToSet(GetCurrent(track, s)) : d.date > c.date
=============================================================================
