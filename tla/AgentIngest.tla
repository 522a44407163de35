----------------------------- MODULE AgentIngest -----------------------------
(***************************************************************************)
(* The governed write path of memvid's agent memory                        *)
(* (agent_memory/memory_controller.rs): a candidate is classified, weighed *)
(* against the evidence the store holds, promoted, kept as an episode or a *)
(* trace, or rejected.  A promoted candidate is written twice: first its   *)
(* episode, then the memory that cites it; a crash may fall in between.    *)
(*                                                                         *)
(* One (entity, slot) is modelled: a candidate names all of the triple or  *)
(* none of it.  Confidence, salience and trust are percentages and a score *)
(* is in thousandths, so every comparison of the code is exact here.       *)
(* Audit events write nothing the store reads and are left out; belief     *)
(* records are the subject of AgentBeliefs and procedure records of        *)
(* AgentProcedures.                                                        *)
(***************************************************************************)
EXTENDS Integers, Sequences, FiniteSets

CONSTANTS Candidates,  \* what may be ingested
          Directives,  \* memories handed to apply_durable_memory
          Slots,       \* hint: what the name of the slot hints at (preference, goal, other);
                       \* strict: does it name a kind of trait that one statement may set;
                       \* stable: is that kind a stable directive
          MaxIngests   \* bound: candidates and directives

VARIABLES slot,      \* the slot that all of this is about
          memories,  \* the versions put into the store, oldest first
          traces,    \* traces put into the store
          pending,   \* the promoted memory whose episode was put and which was not put yet
          ingests    \* candidates and directives taken so far

ingestVars == <<slot, memories, traces, pending, ingests>>

NoMemory == [id |-> 0]

Layers == {"trace", "episode", "belief", "self_model", "goal_state", "procedure"}
Percentages == 0 .. 100
Values == {c.value : c \in Candidates \cup Directives}
Sources == {c.source : c \in Candidates \cup Directives}
\* A version of a memory. A disputed one is a trait beside the one in force.
Records ==
  [id : Nat, layer : Layers, value : Values, triple : BOOLEAN, conf : Percentages, trust : Percentages,
   source : Sources, flow : BOOLEAN, good : BOOLEAN, status : {"active", "disputed"}, count : Nat,
   forced : BOOLEAN, cites : Nat]

\* A trait that a caller hands over names the whole triple, or save_memory
\* refuses it, and no memory of a caller cites an episode of the promoter.
ASSUME IngestAssumption ==
  /\ MaxIngests \in Nat
  /\ Candidates \subseteq
       [layer : Layers \cup {"unset"}, value : Values, triple : BOOLEAN, events : Nat, acts : Nat,
        conf : Percentages, sal : Percentages, source : Sources, trust : Percentages, verified : BOOLEAN,
        seeded : BOOLEAN, durable : BOOLEAN, goalTerms : BOOLEAN, flow : BOOLEAN, good : BOOLEAN]
  /\ Directives \subseteq Records
  /\ \A m \in Directives : m.cites = 0 /\ (m.layer = "self_model" => m.triple)
  /\ Slots \subseteq [hint : {"preference", "goal", "other"}, strict : BOOLEAN, stable : BOOLEAN]

(***************************************************************************)
(* MemoryClassifier::classify                                              *)
(***************************************************************************)

\* A complete triple is typed by its slot; other text is an episode only when
\* it names two events.
TypeOf(c) ==
  IF c.triple THEN CASE slot.hint = "preference" -> "preference"
                     [] slot.hint = "goal" -> "goal"
                     [] OTHER -> "fact"
  ELSE IF c.events >= 2 \/ c.acts >= 2 THEN "episode" ELSE "trace"

LayerOfType == [preference |-> "self_model", goal |-> "goal_state", fact |-> "belief",
                episode |-> "episode", trace |-> "trace"]

MinSalience == [preference |-> 90, goal |-> 85, fact |-> 70, episode |-> 55, trace |-> 0]
MinConfidence == [preference |-> 70, goal |-> 65, fact |-> 0, episode |-> 0, trace |-> 0]
Larger(a, b) == IF a > b THEN a ELSE b

\* A layer the candidate came with is kept.
Classify(c) ==
  [c EXCEPT !.layer = IF @ = "unset" THEN LayerOfType[TypeOf(c)] ELSE @,
            !.sal = Larger(@, MinSalience[TypeOf(c)]),
            !.conf = Larger(@, MinConfidence[TypeOf(c)])]

(***************************************************************************)
(* What the store holds                                                    *)
(***************************************************************************)

Versions == DOMAIN memories
\* list_memories_by_layer: the last version of every memory.
Latest(layer) == {i \in Versions : memories[i].layer = layer
                     /\ \A j \in Versions : memories[j].id = memories[i].id => j <= i}
\* A triple of the slot in this layer, in every version (the belief and the
\* self-model evidence) or in the last ones.
Matching(layer, v) == {i \in Versions : memories[i].layer = layer /\ memories[i].triple
                                          /\ memories[i].value = v}
Differing(S, v) == {i \in S : memories[i].triple /\ memories[i].value # v}

Priority(i) == IF memories[i].status = "disputed" THEN 1 ELSE IF slot.stable THEN 4 ELSE 3
\* The trait in force: the active one before a disputed one, then the newest.
CurrentTrait ==
  LET S == {i \in Latest("self_model") : memories[i].triple}
  IN  IF S = {} THEN NoMemory
      ELSE memories[CHOOSE i \in S : \A j \in S :
             Priority(j) < Priority(i) \/ (Priority(j) = Priority(i) /\ j <= i)]

(***************************************************************************)
(* MemoryPromoter                                                          *)
(***************************************************************************)

Trusts(source, weight, floor) == source \in {"system", "tool"} /\ weight >= floor
BeliefFloor == 80
TraitFloor == 90

\* build_promotion_context
Corroborating(c) == IF ~c.triple \/ c.layer \notin {"belief", "self_model"} THEN 0
                    ELSE Cardinality(Matching(c.layer, c.value))
Contradicting(c) ==
  IF ~c.triple THEN 0
  ELSE CASE c.layer = "belief" -> Cardinality(Differing({i \in Versions : memories[i].layer = "belief"},
                                                        c.value))
         [] c.layer = "self_model" -> Cardinality(Differing(Latest("self_model"), c.value))
         [] OTHER -> 0
Successes(c) == Cardinality({i \in Latest("episode") : memories[i].flow /\ memories[i].good})
                + (IF c.good THEN 1 ELSE 0)
Seeded(c) == c.source = "system" /\ (c.layer = "procedure" \/ c.seeded)

\* effective_source_weight
AtMost(a, b) == IF a < b THEN a ELSE b
EffectiveTrust(c) ==
  IF c.verified THEN 100
  ELSE Larger(0, AtMost(100, c.trust + AtMost(8 * Corroborating(c), 25)
                                     - AtMost(10 * Contradicting(c), 30)))

Score(c) == 6 * c.conf + 4 * c.sal
RejectBelow == 250
TraceBelow == 350
PromoteAt == [belief |-> 750, self_model |-> 700, goal_state |-> 650, episode |-> 650,
              procedure |-> 720, trace |-> 1100]

\* A slot stands in for a workflow key, so a candidate with a slot is event-like.
EventLike(c) == c.layer = "episode" \/ c.triple \/ c.flow \/ c.good \/ c.events >= 2
EvidenceLayer(c) == IF EventLike(c) THEN "episode" ELSE "trace"
Allowed == [allowed |-> TRUE, fallback |-> "episode"]
Denied(layer) == [allowed |-> FALSE, fallback |-> layer]

BeliefEligible(c) ==
  IF ~c.triple THEN Denied(EvidenceLayer(c))
  ELSE IF c.verified \/ Corroborating(c) + 1 >= 2
          \/ Trusts(c.source, EffectiveTrust(c), BeliefFloor)
       THEN Allowed ELSE Denied("episode")

Explicit(c) == slot.strict /\ c.durable
TraitEligible(c) ==
  IF ~c.triple THEN Denied(EvidenceLayer(c))
  ELSE IF Corroborating(c) + 1 >= 2
          \/ (Explicit(c) /\ (c.verified \/ Trusts(c.source, EffectiveTrust(c), TraitFloor)))
       THEN Allowed ELSE Denied("episode")

ProcedureEligible(c) ==
  IF c.triple /\ (Seeded(c) \/ Successes(c) >= 2) THEN Allowed ELSE Denied(EvidenceLayer(c))

GoalEligible(c) == IF c.triple /\ c.goalTerms THEN Allowed ELSE Denied(EvidenceLayer(c))

EpisodeEligible(c) == Allowed

Eligibility(c) ==
  CASE c.layer = "belief" -> BeliefEligible(c)
    [] c.layer = "self_model" -> TraitEligible(c)
    [] c.layer = "procedure" -> ProcedureEligible(c)
    [] c.layer = "goal_state" -> GoalEligible(c)
    [] c.layer = "episode" -> EpisodeEligible(c)

\* promote_with_context: "reject", the layer of the evidence, or "promote".
Decision(c) ==
  CASE Score(c) < RejectBelow -> "reject"
    [] Score(c) >= RejectBelow /\ (c.layer = "trace" \/ Score(c) < TraceBelow) -> "trace"
    [] OTHER -> IF Eligibility(c).allowed /\ Score(c) >= PromoteAt[c.layer] THEN "promote"
                ELSE Eligibility(c).fallback

(***************************************************************************)
(* The layers' own stores                                                  *)
(***************************************************************************)

Memory(c, id, layer) ==
  [id |-> id, layer |-> layer, value |-> c.value, triple |-> c.triple, conf |-> c.conf,
   trust |-> c.trust, source |-> c.source, flow |-> c.flow, good |-> c.good,
   status |-> "active", count |-> 1, forced |-> FALSE, cites |-> 0]

TrustedTrait(m) == Trusts(m.source, m.trust, TraitFloor)
\* Mutant: the first value of a directive counts as its own corroboration.
GovernedSelf(m) ==
  LET corroborated == Cardinality(Matching("self_model", m.value)) + 1
  IN  slot.stable /\ (CurrentTrait = NoMemory \/ CurrentTrait.value # m.value) =>
        TrustedTrait(m) \/ corroborated >= IF CurrentTrait = NoMemory THEN 1 ELSE 2
\* govern_self_model_memory: may this memory create or change the directive?
UpdatesStable(m) == CurrentTrait # NoMemory /\ slot.stable /\ CurrentTrait.value # m.value
Governed(m) ==
  LET corroborated == Cardinality(Matching("self_model", m.value))
  IN  IF ~slot.stable THEN TRUE
      ELSE IF CurrentTrait = NoMemory THEN TrustedTrait(m) \/ corroborated + 1 >= 2
      ELSE CurrentTrait.value # m.value => TrustedTrait(m) \/ corroborated >= 2

\* Mutant: the weaker trait is stored beside the one in force.
TraitUndisputed(m) ==
  LET old == CurrentTrait
  IN  IF old = NoMemory THEN m
      ELSE IF old.value = m.value
      THEN [m EXCEPT !.id = old.id, !.conf = Larger(@, old.conf), !.count = old.count + 1]
      ELSE IF m.forced \/ m.conf + m.trust + 5 >= old.conf + old.trust THEN [m EXCEPT !.id = old.id]
      ELSE m
\* SelfModelStore::save_memory
Trait(m) ==
  LET old == CurrentTrait
      reinforced == [m EXCEPT !.id = old.id, !.conf = Larger(@, old.conf), !.count = old.count + 1]
      stronger == m.forced \/ m.conf + m.trust + 5 >= old.conf + old.trust
  IN  IF old = NoMemory THEN m
      ELSE IF old.value = m.value THEN reinforced
      ELSE IF stronger THEN [m EXCEPT !.id = old.id]
      ELSE [m EXCEPT !.status = "disputed"]

\* GoalStateStore::save_memory: one memory per slot.
Goal(m) ==
  LET S == {i \in Latest("goal_state") : memories[i].triple}
  IN  IF S = {} THEN m
      ELSE [m EXCEPT !.id = memories[CHOOSE i \in S : \A j \in S : j <= i].id]

\* persist_durable_memory
Persisted(m) ==
  CASE m.layer = "self_model" -> Trait(m)
    [] m.layer = "goal_state" -> Goal(m)
    [] OTHER -> m

(***************************************************************************)
(* Actions                                                                 *)
(***************************************************************************)

IngestInit == slot \in Slots /\ memories = <<>> /\ traces = 0 /\ pending = NoMemory /\ ingests = 0

Taking == pending = NoMemory /\ ingests < MaxIngests /\ ingests' = ingests + 1
NewId(k) == 2 * ingests + k

Reject(c) ==
  /\ Taking
  /\ Decision(Classify(c)) = "reject"
  /\ UNCHANGED <<slot, memories, traces, pending>>

KeepTrace(c) ==
  /\ Taking
  /\ Decision(Classify(c)) = "trace"
  /\ traces' = traces + 1
  /\ UNCHANGED <<slot, memories, pending>>

KeepEpisode(c) ==
  /\ Taking
  /\ Decision(Classify(c)) = "episode"
  /\ memories' = Append(memories, Memory(Classify(c), NewId(1), "episode"))
  /\ UNCHANGED <<slot, traces, pending>>

\* Mutant: the memory first, the episode it cites in the second write.
PromoteMemoryFirst(c) ==
  LET p == Classify(c)
      m == [Memory(p, NewId(2), p.layer) EXCEPT !.cites = NewId(1)]
  IN  /\ Taking
      /\ Decision(p) = "promote"
      /\ memories' = Append(memories, m)
      /\ pending' = Memory(p, NewId(1), "episode")
      /\ UNCHANGED <<slot, traces>>
\* A promoted episode is put once; every other promotion puts its episode first.
Promote(c) ==
  LET p == Classify(c)
      m == [Memory(p, NewId(2), p.layer) EXCEPT !.cites = NewId(1)]
  IN  /\ Taking
      /\ Decision(p) = "promote"
      /\ IF p.layer = "episode"
         THEN memories' = Append(memories, Memory(p, NewId(1), "episode")) /\ UNCHANGED pending
         ELSE memories' = Append(memories, Memory(p, NewId(1), "episode")) /\ pending' = m
      /\ UNCHANGED <<slot, traces>>

\* The rest of ingest: the directive rules, then the layer's store.
Persist ==
  /\ pending # NoMemory
  /\ IF pending.layer = "self_model" /\ ~Governed(pending)
     THEN UNCHANGED memories
     ELSE memories' = Append(memories, Persisted([pending EXCEPT !.forced =
                               pending.layer = "self_model" /\ UpdatesStable(pending)]))
  /\ pending' = NoMemory
  /\ UNCHANGED <<slot, traces, ingests>>

\* apply_durable_memory: a caller's memory skips the promoter and not the rules.
ApplyDurable(m) ==
  /\ Taking
  /\ m.layer = "self_model" => Governed(m)
  /\ memories' = Append(memories, Persisted([m EXCEPT !.id = NewId(1), !.forced =
                               m.layer = "self_model" /\ UpdatesStable(m)]))
  /\ UNCHANGED <<slot, traces, pending>>

IngestCrash == pending # NoMemory /\ pending' = NoMemory /\ UNCHANGED <<slot, memories, traces, ingests>>

IngestNext ==
  \/ \E c \in Candidates : Reject(c) \/ KeepTrace(c) \/ KeepEpisode(c) \/ Promote(c)
  \/ \E m \in Directives : ApplyDurable(m)
  \/ Persist
  \/ IngestCrash

IngestSpec == IngestInit /\ [][IngestNext]_ingestVars

(***************************************************************************)
(* Properties                                                              *)
(***************************************************************************)

IngestTypeOK ==
  /\ slot \in Slots /\ traces \in Nat /\ ingests \in Nat
  /\ memories \in Seq(Records) /\ pending \in Records \cup {NoMemory}

\* A stable directive never takes a value that no trusted source ever stated,
\* however often others repeat it and whichever way it is written.
TrustedRoots ==
  slot.stable => \A i \in Versions : memories[i].layer = "self_model" =>
    \E j \in 1..i : memories[j].layer = "self_model" /\ memories[j].value = memories[i].value
                      /\ Trusts(memories[j].source, memories[j].trust, TraitFloor)

\* At most one self-model memory of the slot is active, through reinforcements,
\* disputes and updates.
OneActiveTrait ==
  \A i, j \in Latest("self_model") :
    memories[i].status = "active" /\ memories[j].status = "active" => i = j

\* A promoted memory never cites an episode that the store does not hold.
CitesStored ==
  \A i \in Versions : memories[i].cites # 0 =>
    \E j \in 1..(i - 1) : memories[j].layer = "episode" /\ memories[j].id = memories[i].cites

\* What governs the agent goes back to sources it may trust, a slot has one
\* active trait at most, and evidence that is cited is stored.
Governance == TrustedRoots /\ OneActiveTrait /\ CitesStored

\* A value that was observed again and again, each time well enough to be
\* promoted, becomes a belief.
RepetitionPromotes ==
  \A v \in {c.value : c \in Candidates} :
    Cardinality({i \in Versions : memories[i].layer = "episode" /\ memories[i].triple
                                   /\ memories[i].value = v /\ memories[i].conf >= 90}) >= 3 =>
      \E i \in Versions : memories[i].layer = "belief" /\ memories[i].value = v
=============================================================================
