-------------------------- MODULE MemoryRetrieval --------------------------
(* Retrieval from the agent memory (agent_memory/memory_retriever.rs,        *)
(* ranker.rs): the intent of a question says which layers answer it          *)
(* directly, which support the answer and when the archive is searched; the  *)
(* hits are filtered, ranked by a weighted sum, freed of repetitions and cut *)
(* to what was asked for.  Shares of one are hundredths, scores thousandths; *)
(* the overlap of a memory's text with the question (lex), the score the     *)
(* store's search gives it (raw), its decayed salience and whether it has    *)
(* expired are given with the memory.  Questions are about one entity.       *)
EXTENDS Integers, FiniteSets, Sequences, SequencesExt, FiniteSetsExt

CONSTANTS Worlds,   \* what a store may hold: sets of memories, at most one "held" belief
          TopKs,    \* numbers of hits a caller asks for
          Today     \* the day it is

VARIABLES recallAsk, recallGot

recallVars == <<recallAsk, recallGot>>

SupportLimit == 3       \* CURRENT_FACT_, PREFERENCE_, TASK_STATE_ and HISTORY_STATE_LIMIT
HistoryLimit == 4       \* HISTORY_EPISODE_LIMIT
ProcedureLimit == 2     \* TASK_STATE_PROCEDURE_LIMIT
FallbackLimit == 6      \* FALLBACK_SEARCH_LIMIT
AskedSlot == "s"

Least(a, b) == IF a < b THEN a ELSE b
Most(a, b) == IF a > b THEN a ELSE b
Firstly(seq, n) == SubSeq(seq, 1, Least(n, Len(seq)))
\* The members of S by falling keys, tuples of numbers.
Falling(S, key(_)) ==
  SetToSortSeq(S, LAMBDA x, y : \E k \in DOMAIN key(x) : key(x)[k] > key(y)[k]
                                   /\ \A j \in 1..(k - 1) : key(x)[j] = key(y)[j])
\* Sorted as the stores list: latest day first, then as they were stored.
Latest(S) == Falling(S, LAMBDA m : <<m.day, -m.id>>)
Of(w, layer) == {m \in w : m.layer = layer}
AtSlot(q, m) == q.slot = "none" \/ m.slot = q.slot
\* Workflow keys and tags the text of a question names.
Named(q) == IF q.text = "help" THEN {"wf"} ELSE {}

------------------------------------------------------------------------------
(* Hits *)

\* query_alignment_score: overlap of the words, and what is said about the slot.
Alignment(q, m) == m.lex + (IF q.slot # "none" /\ m.slot = q.slot THEN 45 ELSE 0) + 20
GoalRelevance(q, m) ==
  IF q.intent # "task_state" \/ m.layer # "goal" THEN 0
  ELSE CASE m.status = "blocked" -> 100
         [] m.status = "active" -> 70
         [] m.status \in {"completed", "inactive"} -> -50
         [] OTHER -> 60
SelfRelevance(q, m, role) ==
  IF q.intent # "preference" \/ m.layer # "self" THEN 0
  ELSE CASE role = "direct" -> 100 [] role = "support" -> 60 [] OTHER -> 40
\* hit_from_memory_with_role
Hit(q, m, role) ==
  [id |-> m.id, layer |-> m.layer, held |-> FALSE, slot |-> m.slot, value |-> m.value,
   workflow |-> m.workflow, src |-> m.src, day |-> m.day, status |-> m.status,
   expired |-> m.expired, role |-> role, context |-> "none",
   content |-> Alignment(q, m), evidence |-> m.confidence, salience |-> m.salience,
   against |-> 0, goal |-> GoalRelevance(q, m), self |-> SelfRelevance(q, m, role),
   success |-> m.success]
Hits(q, seq, role) == [i \in DOMAIN seq |-> Hit(q, seq[i], role)]
\* hit_from_memory_with_task_context
ContextHits(q, seq, context) ==
  [i \in DOMAIN seq |-> [Hit(q, seq[i], "support") EXCEPT !.context = context,
     !.goal = CASE context = "supporting_episode" -> 95 [] context = "aligned_episode" -> 75
                [] context = "aligned_procedure" -> 70]]
\* hit_from_belief
HeldHit(q, b) ==
  [Hit(q, b, "direct") EXCEPT !.layer = "belief", !.held = TRUE, !.salience = 0, !.expired = FALSE,
                              !.against = IF b.status = "disputed" THEN 100 ELSE 0]
\* The store's search, best first; traces and memories whose words do not match
\* at all are not found.  search_hits marks the first six and takes the better
\* of two measures of how well they match.
Found(q, w) ==
  LET seen == {m \in w \ Of(w, "held") : m.raw > 0 /\ (q.expired \/ ~m.expired)
                                         /\ m.day <= q.asOf}
      best == Falling(seen, LAMBDA m : <<m.raw, m.day, -m.id>>)
  IN  Firstly(best, 4 * q.topK)
ArchiveHit(q, m) == [Hit(q, m, "archive") EXCEPT !.content = Most(@, m.raw)]
Fallback(q, w) ==
  LET first == Firstly(Found(q, w), FallbackLimit)
  IN  [i \in DOMAIN first |-> ArchiveHit(q, first[i])]
OrFallback(q, w, hits) == IF Len(hits) < q.topK THEN hits \o Fallback(q, w) ELSE hits

------------------------------------------------------------------------------
(* What answers a question *)

Supporting(w, memories) ==
  Latest({e \in Of(w, "episode") : \E i \in DOMAIN memories : e.id \in memories[i].supports})
\* current_fact_hits: the belief of the slot, active or disputed, with what
\* supports it and, when it is disputed, what speaks against it.
CurrentFact(q, w) ==
  LET held == Of(w, "held")
      b == CHOOSE x \in held : TRUE
      related == {m \in Of(w, "belief") : m.slot = b.slot}
      for == Latest({m \in related : m.value = b.value})
      against == IF b.status = "disputed" THEN Latest({m \in related : m.id \in b.opposing}) ELSE <<>>
  IN  OrFallback(q, w,
        IF q.slot = "none" \/ held = {} THEN <<>>
        ELSE <<HeldHit(q, b)>> \o Hits(q, Firstly(for, SupportLimit), "support")
             \o Hits(q, Firstly(Supporting(w, for), SupportLimit), "support")
             \o Hits(q, Firstly(against, SupportLimit), "support"))
\* historical_hits: episodes up to the day asked for, then what was believed.
Historical(q, w) ==
  LET recent == ToSet(Firstly(Latest(Of(w, "episode")), Most(4 * q.topK, HistoryLimit)))
      upTo(S) == Latest({m \in S : m.slot = q.slot /\ m.day <= q.asOf})
  IN  OrFallback(q, w,
        IF q.slot = "none" THEN <<>>
        ELSE Hits(q, Firstly(upTo(recent), HistoryLimit), "direct")
             \o Hits(q, Firstly(upTo(Of(w, "belief")), SupportLimit), "support"))
\* preference_lookup_hits: the latest trait of each slot asked about, then the rest.
Preference(q, w) ==
  LET traits == Latest(Of(w, "self"))
      first(i) == AtSlot(q, traits[i]) /\ \A j \in 1..(i - 1) : traits[j].slot # traits[i].slot
      direct == {traits[i] : i \in {j \in DOMAIN traits : first(j)}}
      rest == Latest({m \in Of(w, "self") \ direct : AtSlot(q, m)})
  IN  OrFallback(q, w, Hits(q, Latest(direct), "direct")
        \o Hits(q, Firstly(rest, SupportLimit), "support")
        \o Hits(q, Firstly(Supporting(w, rest), SupportLimit), "support"))

\* task_context: workflow keys, slots and tags of the active goals.
Context(q, goals) ==
  [workflows |-> {goals[i].workflow : i \in DOMAIN goals} \ {"none"},
   tags |-> UNION {goals[i].tags : i \in DOMAIN goals},
   slots |-> {goals[i].slot : i \in DOMAIN goals} \cup ({q.slot} \ {"none"}),
   episodes |-> UNION {goals[i].supports : i \in DOMAIN goals}]
\* list_all_memories of the procedure store: the latest of a workflow.
Procedures(w) ==
  LET all == Latest(Of(w, "procedure"))
  IN  {all[i] : i \in {j \in DOMAIN all : \A k \in 1..(j - 1) : all[k].workflow # all[j].workflow}}
FitsTask(q, c, m) ==
  /\ m.status # "retired"
  /\ \/ m.workflow \in c.workflows \cup Named(q)
     \/ q.slot \in m.tags
     \/ m.tags \cap (c.tags \cup c.slots) # {}
EpisodeFits(q, c, m) ==
  \/ m.id \in c.episodes \/ m.workflow \in c.workflows \cup Named(q)
  \/ m.slot = q.slot \/ m.tags \cap c.tags # {}
ActiveGoals(q, w) ==
  LET active == {m \in Of(w, "goal") : m.status \in {"active", "blocked"} /\ AtSlot(q, m)}
      weight(m) == IF m.status = "blocked" THEN 3 ELSE 2
  IN  Falling(active, LAMBDA m : <<weight(m), m.day, -m.id>>)
\* task_state_hits: goals, the episodes and the procedures that fit them.
TaskState(q, w) ==
  LET goals == ActiveGoals(q, w)
      c == Context(q, goals)
      cited == Latest({e \in Of(w, "episode") : e.id \in c.episodes})
      aligned == SelectSeq(Latest(Of(w, "episode")), LAMBDA e : EpisodeFits(q, c, e))
      rank(m) == IF m.status = "cooling" THEN 2 ELSE 3
      fits == Falling({m \in Procedures(w) : FitsTask(q, c, m)}, LAMBDA m : <<rank(m), m.day, -m.id>>)
  IN  OrFallback(q, w, Hits(q, goals, "direct")
        \o ContextHits(q, Firstly(cited, SupportLimit), "supporting_episode")
        \o ContextHits(q, Firstly(aligned, SupportLimit), "aligned_episode")
        \o ContextHits(q, Firstly(fits, ProcedureLimit), "aligned_procedure"))
\* procedural_help_hits: procedures and episodes that went well with them.
ProceduralHelp(q, w) ==
  LET direct == Firstly(Latest({m \in Procedures(w) : FitsTask(q, Context(q, <<>>), m)}), SupportLimit)
      keys == {direct[i].workflow : i \in DOMAIN direct}
      well == Latest({e \in Of(w, "episode") : /\ e.status = "success"
                        /\ \/ e.workflow \in keys \cup Named(q) \/ e.slot = q.slot
                           \/ e.tags \cap Named(q) # {}})
  IN  OrFallback(q, w, Hits(q, direct, "direct") \o Hits(q, Firstly(well, SupportLimit), "support"))
\* episodic_hits
Episodic(q, w) ==
  OrFallback(q, w, Hits(q, SelectSeq(Latest(Of(w, "episode")), LAMBDA e : AtSlot(q, e)), "direct"))
\* procedure_lifecycle_history_hits: traces of a change of status; the score of
\* the search, raised, is what the ranker takes for the content.
Lifecycle(q, w) ==
  LET traces == SelectSeq(Found(q, w), LAMBDA m : m.layer = "trace" /\ m.status = "status_changed")
  IN  [i \in DOMAIN traces |-> [Hit(q, traces[i], "direct") EXCEPT
         !.content = traces[i].raw + 75, !.evidence = 0, !.salience = 0]]

Gathered(q, w) ==
  CASE q.intent = "current_fact" -> CurrentFact(q, w)
    [] q.intent = "historical_fact" -> Historical(q, w)
    [] q.intent = "preference" -> Preference(q, w)
    [] q.intent = "task_state" -> TaskState(q, w)
    [] OTHER -> IF q.text = "lifecycle" THEN Lifecycle(q, w)
                ELSE IF q.intent = "episodic" THEN Episodic(q, w)
                ELSE IF q.text = "help" THEN ProceduralHelp(q, w) ELSE Fallback(q, w)

------------------------------------------------------------------------------
(* Filter, rank, repetitions *)

\* hit_matches_query, and what retrieve drops: what has expired, and retired
\* procedures when the question is about a task.
Kept(q, h) ==
  LET task == q.intent = "task_state" IN
  /\ (task /\ h.layer \in {"procedure", "episode"} => h.context # "none")
  /\ AtSlot(q, h) \/ h.context # "none"
  /\ q.expired \/ ~h.expired
  /\ ~(task /\ h.layer = "procedure" /\ h.status = "retired")

\* type_bonus
LayerBonuses ==
  [current_fact |-> [episode |-> 450, belief |-> 1350, trace |-> -800],
   historical_fact |-> [episode |-> 2000, belief |-> 1100, trace |-> -600],
   preference |-> [self |-> 2200, episode |-> 600, trace |-> -600],
   task_state |-> [goal |-> 2400, episode |-> 1050, procedure |-> 900, trace |-> -700],
   episodic |-> [episode |-> 2100, belief |-> -400, trace |-> -300],
   background |-> [procedure |-> 1600, episode |-> 800, trace |-> -300]]
LayerBonus(q, h) ==
  LET bonuses == LayerBonuses[q.intent] IN
  IF q.intent = "current_fact" /\ h.held THEN 2800
  ELSE IF h.layer \in DOMAIN bonuses THEN bonuses[h.layer] ELSE 0
\* recency_signal: from its height it falls to nothing in so many days.
Age(h) == Most(0, Today - h.day)
Fall(top, days, age) == Most(0, top - (age * 1000) \div days)
Fresh(h) ==
  CASE h.layer = "episode" -> Fall(1100, 21, Age(h)) [] h.layer = "goal" -> Fall(1000, 14, Age(h))
    [] h.layer = "procedure" -> Fall(250, 120, Age(h)) [] h.layer = "belief" -> Fall(180, 240, Age(h))
    [] h.layer = "self" -> Fall(120, 365, Age(h)) [] OTHER -> 0
RoleBonus(h) == CASE h.role = "direct" -> 550 [] h.role = "support" -> 150 [] OTHER -> -150
BeliefBonus(q, h) ==
  IF ~h.held THEN 0
  ELSE CASE q.intent = "current_fact" -> 1350 [] q.intent = "historical_fact" -> -350 [] OTHER -> 200
StatusBonus(h) ==
  CASE h.layer = "goal" /\ h.status = "blocked" -> 800
    [] h.layer = "goal" /\ h.status = "active" -> 350
    [] h.layer = "goal" /\ h.status \in {"completed", "inactive"} -> -1200
    [] h.layer = "procedure" /\ h.status = "cooling" -> -1500
    [] h.layer = "procedure" /\ h.status = "retired" -> -4000
    [] h.layer = "trace" /\ h.status = "status_changed" /\ h.role = "direct" -> 750
    [] OTHER -> 0
Signals(h) ==
  9 * h.content + 4 * h.goal + 4 * h.self + (225 * h.salience) \div 100 + 5 * h.evidence
  - 10 * h.against + (45 * Fresh(h)) \div 100 + 6 * h.success
\* Mutant: the layer does not count.
ScoreUnweighted(q, h) == RoleBonus(h) + StatusBonus(h) + Signals(h) - (IF h.expired THEN 1000 ELSE 0)
\* score_breakdown
Score(q, h) == LayerBonus(q, h) + RoleBonus(h) + BeliefBonus(q, h) + StatusBonus(h) + Signals(h)
               - (IF h.expired THEN 1000 ELSE 0)
\* rerank_with_weights: a stable sort by the score.
Ranked(q, hits) ==
  LET order == Falling(DOMAIN hits, LAMBDA i : <<Score(q, hits[i]), -i>>)
  IN  [i \in DOMAIN order |-> hits[order[i]]]
\* dedup_key: layer, what is said, workflow, source and day.
Key(h) == <<h.layer, h.slot, h.value, h.workflow, h.src, h.day>>
Deduped(hits) ==
  FoldLeft(LAMBDA kept, h : IF \E i \in DOMAIN kept : Key(kept[i]) = Key(h) THEN kept
                            ELSE Append(kept, h), <<>>, hits)
Retrieve(q, w) ==
  Firstly(Deduped(Ranked(q, SelectSeq(Gathered(q, w), LAMBDA h : Kept(q, h)))), q.topK)

------------------------------------------------------------------------------
Asks ==
  LET ask == [intent : {"current_fact", "preference", "task_state"}, text : {"plain"},
              slot : {AskedSlot, "none"}, topK : TopKs, expired : BOOLEAN, asOf : {Today}]
      past == [intent : {"historical_fact"}, text : {"plain"}, slot : {AskedSlot},
               topK : TopKs, expired : {FALSE}, asOf : {Today - 15, Today}]
      open == [intent : {"episodic", "background"}, text : {"plain", "help", "lifecycle"},
               slot : {AskedSlot, "none"}, topK : TopKs, expired : {FALSE}, asOf : {Today}]
  IN  ask \cup past \cup open
NoAsk == <<>>

RecallInit == recallAsk = NoAsk /\ recallGot = <<>>
\* A caller asks a store of any content one question.
RecallNext == \E w \in Worlds, q \in Asks :
  /\ recallAsk = NoAsk
  /\ recallAsk' = <<w, q>> /\ recallGot' = Retrieve(q, w)
RecallSpec == RecallInit /\ [][RecallNext]_recallVars

------------------------------------------------------------------------------
\* The store in memory scores a match by the share of the question's words it
\* has; the scores of the engine have no limit.
ScoredByShare(w) == \A m \in w : m.raw <= 100

\* Whatever else the store holds, however recent and sure: a question about
\* what is now is answered by the active belief of the slot first, unless the
\* engine's score of an archived memory is above one, a question about a task
\* never by a retired procedure, and no answer has two hits of one key or more
\* hits than were asked for.
ActiveBeliefFirst ==
  recallAsk # NoAsk =>
    LET q == recallAsk[2]
        held == Of(recallAsk[1], "held")
        active == held # {} /\ \A b \in held : b.status = "active"
    IN  /\ (q.intent = "current_fact" /\ q.slot # "none" /\ active /\ ScoredByShare(recallAsk[1])
              => recallGot[1].held)
        /\ (q.intent = "task_state" =>
              \A i \in DOMAIN recallGot :
                ~(recallGot[i].layer = "procedure" /\ recallGot[i].status = "retired"))
        /\ IsInjective([i \in DOMAIN recallGot |-> Key(recallGot[i])])
        /\ Len(recallGot) <= q.topK
\* docs/agent_memory.md:277 "CurrentFact: active belief first, then up to 3
\* support memories", whatever the engine's scores are.
BeliefAlwaysFirst ==
  recallAsk # NoAsk =>
    \A b \in Of(recallAsk[1], "held") :
      b.status = "active" /\ recallAsk[2].intent = "current_fact" /\ recallAsk[2].slot # "none"
        => recallGot[1].held
\* docs/agent_memory.md:291 "Direct answers outrank support evidence."
DirectFirst ==
  \A i, j \in DOMAIN recallGot : recallGot[i].role = "support" /\ recallGot[j].role = "direct" => j < i
=============================================================================
