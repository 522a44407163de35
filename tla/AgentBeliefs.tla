---------------------------- MODULE AgentBeliefs ----------------------------
(***************************************************************************)
(* Beliefs of memvid's governed memory, for one (entity, slot): how the    *)
(* updater revises a belief (agent_memory/belief_updater.rs) and how two   *)
(* stores keep it (adapters/memvid_store.rs).  MemvidStore appends a card  *)
(* per version and derives the current belief from the cards; the store    *)
(* the tests use, InMemoryMemoryStore, keeps the last version.             *)
(*                                                                         *)
(* Trust and confidence are percentages.  The entity and the slot are      *)
(* fixed; the resolution times and the validity of a belief, which nothing *)
(* here reads, are left out.                                               *)
(***************************************************************************)
EXTENDS Integers, Sequences, FiniteSets

CONSTANTS Observations,  \* what may be observed: value, retract, source, trust, conf
          MaxObs,        \* bound: observations
          MaxRatings,   \* bound: outcome feedbacks
          MaxSecond,        \* bound: seconds
          OncePerSecond  \* does a second pass before a belief is saved again?

VARIABLES beliefCards, \* MemvidStore: the belief cards of the slot, in the order they were put
          saved,    \* InMemoryMemoryStore: the version saved last
          observed,  \* observations so far: the ids of their memories
          feedbacks, \* outcome feedbacks so far
          second     \* the clock, in seconds

beliefVars == <<beliefCards, saved, observed, feedbacks, second>>

NoBelief == [id |-> 0]

Said == {o.value : o \in Observations}
SourceTypes == {o.source : o \in Observations}
Percent == 0 .. 100

ASSUME BeliefAssumption ==
  /\ MaxObs \in Nat /\ MaxRatings \in Nat /\ MaxSecond \in Nat /\ OncePerSecond \in BOOLEAN
  /\ Observations \subseteq
       [value : Said, retract : BOOLEAN, source : SourceTypes, trust : Percent, conf : Percent]

\* A version of a belief, and its card.
Beliefs ==
  [id : Nat \ {0}, value : Said, status : {"active", "disputed", "stale", "retracted"},
   conf : Percent, weights : [SourceTypes -> Percent], reviewed : Nat, support : SUBSET Nat,
   oppose : SUBSET Nat, contradictions : Nat, contested : BOOLEAN, good : Nat, bad : Nat]
Cards == [retracts : BOOLEAN, at : Nat, belief : Beliefs]

(***************************************************************************)
(* The stores                                                              *)
(***************************************************************************)

\* update_belief puts a card, which retracts when the belief does.
CardOf(b) == [retracts |-> b.status = "retracted", at |-> b.reviewed, belief |-> b]

\* The cards sorted by their second and reversed: of two cards of one second
\* the older one comes first, the slot index being newest first.
FirstCard(S) ==
  IF S = {} THEN NoBelief
  ELSE LET i == CHOOSE i \in S : \A j \in S :
                  beliefCards[j].at < beliefCards[i].at \/ (beliefCards[j].at = beliefCards[i].at /\ i <= j)
       IN  beliefCards[i].belief

LiveCards == {i \in DOMAIN beliefCards : ~beliefCards[i].retracts}
\* Mutant: the version that was replaced counts.
GetCurrentAny == FirstCard(LiveCards)
GetCurrent == FirstCard({i \in LiveCards : beliefCards[i].belief.status # "stale"})
GetActive == IF GetCurrent # NoBelief /\ GetCurrent.status = "active" THEN GetCurrent ELSE NoBelief
GetById(id) == FirstCard({i \in LiveCards : beliefCards[i].belief.id = id})

\* The same questions asked of the store in memory.
LastActive == IF saved # NoBelief /\ saved.status = "active" THEN saved ELSE NoBelief

(***************************************************************************)
(* BeliefUpdater::apply                                                    *)
(***************************************************************************)

MaxNat(S) == CHOOSE x \in S : \A y \in S : y <= x
Strongest(b) == MaxNat({b.weights[s] : s \in SourceTypes} \cup {0})
WeightOf(o) == [s \in SourceTypes |-> IF s = o.source THEN o.trust ELSE 0]

Fresh(o, mid, opposing) ==
  [id |-> mid, value |-> o.value, status |-> IF o.retract THEN "retracted" ELSE "active",
   conf |-> o.conf, weights |-> WeightOf(o), reviewed |-> second,
   support |-> IF o.retract THEN {} ELSE {mid}, oppose |-> opposing,
   contradictions |-> 0, contested |-> FALSE, good |-> 0, bad |-> 0]

Retracted(b, mid) ==
  [b EXCEPT !.status = "retracted", !.reviewed = second, !.oppose = @ \cup {mid},
            !.contested = FALSE]

Reinforced(b, o, mid) ==
  [b EXCEPT !.conf = IF @ > o.conf THEN @ ELSE o.conf, !.reviewed = second,
            !.support = @ \cup {mid}, !.weights[o.source] = o.trust,
            !.status = IF @ = "disputed" THEN "active" ELSE @,
            !.contested = @ /\ b.status # "disputed"]

\* Mutant: equal trust is enough.
ReplacesEqual(b, o) == o.trust >= Strongest(b) /\ o.conf + 5 >= b.conf
Replaces(b, o) == o.trust > Strongest(b) /\ o.conf + 5 >= b.conf

Disputed(b, mid) ==
  [b EXCEPT !.status = "disputed", !.reviewed = second, !.oppose = @ \cup {mid},
            !.contradictions = IF mid \in b.oppose THEN @ ELSE @ + 1, !.contested = TRUE]

Stale(b, mid) == [b EXCEPT !.status = "stale", !.reviewed = second, !.oppose = @ \cup {mid}]

\* The versions to save: the belief that was replaced, if any, then the current one.
Apply(b, o, mid) ==
  IF b = NoBelief THEN <<Fresh(o, mid, {})>>
  ELSE IF o.retract THEN <<Retracted(b, mid)>>
  ELSE IF b.value = o.value THEN <<Reinforced(b, o, mid)>>
  ELSE IF Replaces(b, o) THEN <<Stale(b, mid), Fresh(o, mid, b.support)>>
  ELSE <<Disputed(b, mid)>>

(***************************************************************************)
(* Actions                                                                 *)
(***************************************************************************)

BeliefInit ==
  beliefCards = <<>> /\ saved = NoBelief /\ observed = 0 /\ feedbacks = 0 /\ second = 1

Settled == OncePerSecond => \A i \in DOMAIN beliefCards : beliefCards[i].at < second

WithSaved(versions) == beliefCards \o [i \in DOMAIN versions |-> CardOf(versions[i])]

\* persist_durable_memory for a belief: the current belief is read, revised and
\* saved.  Each store revises what it holds itself.
Observe(o) ==
  /\ observed < MaxObs /\ Settled
  /\ LET mid == observed + 1
         mine == Apply(saved, o, mid)
     IN  /\ beliefCards' = WithSaved(Apply(GetCurrent, o, mid))
         /\ saved' = mine[Len(mine)]
         /\ observed' = mid
  /\ UNCHANGED <<feedbacks, second>>

\* record_outcome_feedback for a belief: by id, at the time the outcome was seen.
WithFeedback(b, good, at) ==
  [b EXCEPT !.good = IF good THEN @ + 1 ELSE @, !.bad = IF good THEN @ ELSE @ + 1,
            !.reviewed = at]
Rate(id, good) ==
  /\ feedbacks < MaxRatings /\ Settled
  /\ GetById(id) # NoBelief \/ saved.id = id
  /\ beliefCards' = IF GetById(id) = NoBelief THEN beliefCards
              ELSE WithSaved(<<WithFeedback(GetById(id), good, second)>>)
  /\ saved' = IF saved.id = id THEN WithFeedback(saved, good, second) ELSE saved
  /\ feedbacks' = feedbacks + 1
  /\ UNCHANGED <<observed, second>>

NextSecond == second < MaxSecond /\ second' = second + 1 /\ UNCHANGED <<beliefCards, saved, observed, feedbacks>>

BeliefNext ==
  \/ \E o \in Observations : Observe(o)
  \/ \E id \in 1..MaxObs, good \in BOOLEAN : Rate(id, good)
  \/ NextSecond

BeliefSpec == BeliefInit /\ [][BeliefNext]_beliefVars

(***************************************************************************)
(* Properties                                                              *)
(***************************************************************************)

BeliefTypeOK ==
  /\ beliefCards \in Seq(Cards) /\ saved \in Beliefs \cup {NoBelief}
  /\ observed \in Nat /\ feedbacks \in Nat /\ second \in Nat

\* The two stores agree on the current and on the active belief, whatever was
\* reinforced, disputed, replaced or rated before.
StoresAgree == GetCurrent = saved /\ GetActive = LastActive

\* A belief that was retracted is not answered with again: nothing is active
\* until something is observed anew.
RetractionHolds == saved # NoBelief /\ saved.status = "retracted" => GetActive = NoBelief

\* A value gives way only to a source trusted more than any that supports it.
Succeeds ==
  GetCurrent # NoBelief /\ GetCurrent' # NoBelief /\ GetCurrent'.value # GetCurrent.value =>
    Strongest(GetCurrent') > Strongest(GetCurrent)
NoSilentReplacement == [][Succeeds]_beliefVars
=============================================================================
