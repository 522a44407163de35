--------------------------- MODULE AgentIngestProofs ---------------------------
(***************************************************************************)
(* What governs the agent goes back to sources it may trust, whatever is   *)
(* ingested, handed over or cut off by a crash, and for every set of       *)
(* candidates, directives and slots: a stable directive has a trusted      *)
(* root, a slot has one active trait, and a cited episode is stored.       *)
(***************************************************************************)
EXTENDS AgentIngest, FiniteSetTheorems, WellFoundedInduction, TLAPS

\* A trait names its slot and its value.
TraitsWhole ==
  /\ \A i \in Versions : memories[i].layer = "self_model" => memories[i].triple
  /\ pending # NoMemory /\ pending.layer = "self_model" => pending.triple

\* The episode of a promotion is stored before its memory is.
EpisodeFirst ==
  pending # NoMemory /\ pending.cites # 0 =>
    \E j \in Versions : memories[j].layer = "episode" /\ memories[j].id = pending.cites

\* The inductive invariant of the write path.
IngestInv == IngestTypeOK /\ TraitsWhole /\ EpisodeFirst /\ Governance

-----------------------------------------------------------------------------
\* Finite sets of numbers.
LEMMA Minimum ==
  ASSUME NEW T, T \subseteq Nat, T # {} PROVE \E x \in T : \A y \in T : x <= y
<1> DEFINE R == OpToRel(<, Nat)
<1>1. IsWellFoundedOn(R, Nat)
  BY NatLessThanWellFounded
<1> HIDE DEF R
<1>2. PICK x \in T : \A y \in T : ~ (<<y, x>> \in R)
  BY <1>1, WFMin
<1>3. \A y \in T : ~ (y < x)
  BY <1>2 DEF R, OpToRel
<1> QED
  BY <1>3

LEMMA LastOf ==
  ASSUME NEW n \in Nat, NEW T \in SUBSET (1 .. n), T # {}
  PROVE  \E x \in T : \A y \in T : y <= x
<1> DEFINE U == {n - x : x \in T}
<1>0. \A x \in T : n - x \in Nat
  OBVIOUS
<1>1. U \subseteq Nat /\ U # {}
  BY <1>0
<1>2. PICK u \in U : \A v \in U : u <= v
  BY <1>1, Minimum
<1>3. PICK x \in T : u = n - x
  OBVIOUS
<1>4. \A y \in T : n - x <= n - y
  BY <1>2, <1>3
<1> QED
  BY <1>4

\* Any subset of the versions is finite, and one that is counted is not empty.
LEMMA Counted ==
  ASSUME memories \in Seq(Records), NEW S \in SUBSET Versions
  PROVE  Cardinality(S) \in Nat /\ (Cardinality(S) >= 1 => S # {})
<1>1. IsFiniteSet(1 .. Len(memories))
  BY FS_Interval
<1>2. IsFiniteSet(S)
  BY <1>1, FS_Subset DEF Versions
<1> QED
  BY <1>2, FS_CardinalityType, FS_EmptySet

\* The trait in force is one of the current ones, before all others.
LEMMA InForce ==
  ASSUME memories \in Seq(Records), slot \in Slots
  PROVE  LET S == {i \in Latest("self_model") : memories[i].triple} IN
         \/ S = {} /\ CurrentTrait = NoMemory
         \/ \E k \in S : /\ CurrentTrait = memories[k] /\ CurrentTrait # NoMemory
                         /\ \A j \in S : Priority(j) <= Priority(k)
<1> DEFINE S == {i \in Latest("self_model") : memories[i].triple}
           At(p) == {i \in S : Priority(i) = p}
           Leads(i) == \A j \in S : Priority(j) < Priority(i) \/ (Priority(j) = Priority(i) /\ j <= i)
<1>1. S \subseteq 1 .. Len(memories) /\ Len(memories) \in Nat
  BY DEF Latest, Versions
<1>2. \A i \in S : Priority(i) \in {1, 3, 4}
  BY DEF Priority
<1>3. CASE S = {}
  BY <1>3 DEF CurrentTrait
<1>4. CASE S # {}
  <2>1. PICK p \in {1, 3, 4} : At(p) # {} /\ \A j \in S : Priority(j) <= p
    <3>1. \/ At(4) # {}
          \/ At(4) = {} /\ At(3) # {}
          \/ At(4) = {} /\ At(3) = {} /\ At(1) # {}
      BY <1>2, <1>4
    <3> QED
      BY <1>2, <3>1
  <2>2. PICK k \in At(p) : \A j \in At(p) : j <= k
    BY <1>1, <2>1, LastOf
  <2>3. Leads(k)
    BY <1>2, <2>1, <2>2
  <2> DEFINE c == CHOOSE i \in S : Leads(i)
  <2>4. c \in S /\ Leads(c)
    BY <2>2, <2>3
  <2>5. CurrentTrait = memories[c]
    BY <1>4 DEF CurrentTrait
  <2>6. memories[c] \in Records
    BY <1>1, <2>4
  <2>7. memories[c] # NoMemory
    BY <2>6 DEF Records, NoMemory
  <2>8. \A j \in S : Priority(j) <= Priority(c)
    BY <1>2, <2>4
  <2> QED
    BY <2>4, <2>5, <2>7, <2>8
<1> QED
  BY <1>3, <1>4

-----------------------------------------------------------------------------
\* A change of a stable directive that the rules let pass is trusted or was
\* stated before.
LEMMA GovernedStated ==
  ASSUME IngestTypeOK, NEW m \in Records, slot.stable, Governed(m)
  PROVE  \/ TrustedTrait(m)
         \/ \E i \in Versions : memories[i].layer = "self_model" /\ memories[i].value = m.value
<1>0. memories \in Seq(Records) /\ slot \in Slots
  BY DEF IngestTypeOK
<1> DEFINE M == Matching("self_model", m.value)
<1>1. M \subseteq Versions /\ \A i \in M : memories[i].layer = "self_model" /\ memories[i].value = m.value
  BY DEF Matching
<1>2. Cardinality(M) \in Nat /\ (Cardinality(M) >= 1 => M # {})
  BY <1>0, <1>1, Counted
<1>3. CASE CurrentTrait = NoMemory
  <2>1. TrustedTrait(m) \/ Cardinality(M) + 1 >= 2
    BY <1>3 DEF Governed
  <2> QED
    BY <1>1, <1>2, <2>1
<1>4. CASE CurrentTrait # NoMemory /\ CurrentTrait.value # m.value
  <2>1. TrustedTrait(m) \/ Cardinality(M) >= 2
    BY <1>4 DEF Governed
  <2> QED
    BY <1>1, <1>2, <2>1
<1>5. CASE CurrentTrait # NoMemory /\ CurrentTrait.value = m.value
  <2>1. PICK k \in Latest("self_model") : CurrentTrait = memories[k]
    BY <1>0, <1>5, InForce
  <2> QED
    BY <1>5, <2>1 DEF Latest
<1> QED
  BY <1>3, <1>4, <1>5

\* What the store of a layer makes of a memory: its value and its source stand.
SameClaim(q, m) ==
  /\ q \in Records /\ q.layer = m.layer /\ q.value = m.value /\ q.triple = m.triple
  /\ q.source = m.source /\ q.trust = m.trust /\ q.cites = m.cites

LEMMA Claims ==
  ASSUME NEW m \in Records, NEW i \in Nat
  PROVE  /\ SameClaim(m, m) /\ SameClaim([m EXCEPT !.id = i], m)
         /\ SameClaim([m EXCEPT !.status = "disputed"], m)
         /\ \A b \in BOOLEAN : /\ SameClaim([m EXCEPT !.forced = b], m)
                               /\ SameClaim([m EXCEPT !.id = i, !.forced = b], m)
         /\ \A p \in Percentages, n \in Nat :
              SameClaim([m EXCEPT !.id = i, !.conf = Larger(@, p), !.count = n], m)
BY DEF SameClaim, Records, Larger

LEMMA PersistedClaim ==
  ASSUME IngestTypeOK, NEW m \in Records
  PROVE  SameClaim(Persisted(m), m)
<1>0. memories \in Seq(Records) /\ slot \in Slots
  BY DEF IngestTypeOK
<1>1. CASE m.layer = "self_model"
  <2>1. CurrentTrait = NoMemory \/ CurrentTrait \in Records
    BY <1>0, InForce DEF Latest, Versions
  <2>2. CASE CurrentTrait = NoMemory
    BY <1>1, <2>2, Claims DEF Persisted, Trait
  <2>3. CASE CurrentTrait # NoMemory
    <3>1. CurrentTrait.id \in Nat /\ CurrentTrait.conf \in Percentages /\ CurrentTrait.count + 1 \in Nat
      BY <2>1, <2>3 DEF Records
    <3> QED
      BY <1>1, <2>3, <3>1, Claims DEF Persisted, Trait
  <2> QED
    BY <2>2, <2>3
<1>2. CASE m.layer = "goal_state"
  <2> DEFINE S == {i \in Latest("goal_state") : memories[i].triple}
             k == CHOOSE i \in S : \A j \in S : j <= i
  <2>1. CASE S = {}
    BY <1>2, <2>1, Claims DEF Persisted, Goal
  <2>2. CASE S # {}
    <3>1. S \subseteq 1 .. Len(memories) /\ Len(memories) \in Nat
      BY <1>0 DEF Latest, Versions
    <3>2. k \in S
      BY <2>2, <3>1, LastOf
    <3>3. Persisted(m) = [m EXCEPT !.id = memories[k].id]
      BY <1>2, <2>2 DEF Persisted, Goal
    <3>4. memories[k].id \in Nat
      <4> HIDE DEF k, S
      <4>1. k \in 1 .. Len(memories)
        BY <3>1, <3>2
      <4>2. memories[k] \in Records
        BY <1>0, <4>1
      <4> QED
        BY <4>2 DEF Records
    <3> HIDE DEF k
    <3> QED
      BY <3>3, <3>4, Claims
  <2> QED
    BY <2>1, <2>2
<1>3. CASE m.layer \notin {"self_model", "goal_state"}
  BY <1>3, Claims DEF Persisted
<1> QED
  BY <1>1, <1>2, <1>3

\* An active trait that is stored takes the place of the one in force.
LEMMA TraitReplaces ==
  ASSUME IngestTypeOK, TraitsWhole, OneActiveTrait, NEW m \in Records, m.layer = "self_model"
  PROVE  Persisted(m).status = "active" =>
           \A i \in Latest("self_model") : memories[i].status = "active" => memories[i].id = Persisted(m).id
<1>0. memories \in Seq(Records) /\ slot \in Slots
  BY DEF IngestTypeOK
<1>1. \A i \in Latest("self_model") : memories[i].triple /\ memories[i] \in Records
  BY <1>0 DEF TraitsWhole, Latest, Versions
<1>2. CASE CurrentTrait = NoMemory
  BY <1>0, <1>1, <1>2, InForce
<1>3. CASE CurrentTrait # NoMemory
  <2>1. PICK k \in Latest("self_model") :
          /\ CurrentTrait = memories[k]
          /\ \A j \in Latest("self_model") : Priority(j) <= Priority(k)
    BY <1>0, <1>1, <1>3, InForce
  <2>2. \A i \in Latest("self_model") : memories[i].status = "active" => i = k
    <3> SUFFICES ASSUME NEW i \in Latest("self_model"), memories[i].status = "active" PROVE i = k
      OBVIOUS
    <3>1. Priority(i) \in {3, 4} /\ Priority(i) <= Priority(k)
      BY <2>1 DEF Priority
    <3>2. memories[k].status = "active"
      BY <1>1, <3>1 DEF Priority, Records
    <3> QED
      BY <3>2 DEF OneActiveTrait
  <2>3. Persisted(m).status = "active" => Persisted(m).id = memories[k].id
    BY <1>3, <2>1 DEF Persisted, Trait, Records
  <2> QED
    BY <2>2, <2>3
<1> QED
  BY <1>2, <1>3

-----------------------------------------------------------------------------
\* One more version keeps what was said of the stored ones.
LEMMA Appended ==
  ASSUME IngestInv, NEW m \in Records, memories' = Append(memories, m), slot' = slot,
         m.layer = "self_model" =>
           /\ m.triple
           /\ slot.stable => \/ Trusts(m.source, m.trust, TraitFloor)
                             \/ \E i \in Versions : /\ memories[i].layer = "self_model"
                                                    /\ memories[i].value = m.value
           /\ m.status = "active" => \A i \in Latest("self_model") :
                                       memories[i].status = "active" => memories[i].id = m.id,
         m.cites # 0 => \E j \in Versions : memories[j].layer = "episode" /\ memories[j].id = m.cites
  PROVE  /\ memories' \in Seq(Records) /\ Governance'
         /\ \A i \in Versions' : memories'[i].layer = "self_model" => memories'[i].triple
         /\ Versions \subseteq Versions' /\ \A i \in Versions : memories'[i] = memories[i]
<1> DEFINE n == Len(memories)
<1>0. memories \in Seq(Records) /\ n \in Nat
  BY DEF IngestInv, IngestTypeOK
<1>1. /\ memories' \in Seq(Records) /\ Versions = 1 .. n /\ Versions' = 1 .. n + 1
      /\ \A i \in 1 .. n : memories'[i] = memories[i]
      /\ memories'[n + 1] = m
  BY <1>0 DEF Versions
<1>2. \A i \in Versions' : i \in 1 .. n \/ i = n + 1
  BY <1>0, <1>1
<1>3. TrustedRoots'
  <2> SUFFICES ASSUME slot.stable, NEW i \in Versions', memories'[i].layer = "self_model"
               PROVE  \E j \in 1 .. i : /\ memories'[j].layer = "self_model"
                                        /\ memories'[j].value = memories'[i].value
                                        /\ Trusts(memories'[j].source, memories'[j].trust, TraitFloor)
    BY DEF TrustedRoots
  <2>1. \A k \in 1 .. n : memories[k].layer = "self_model" =>
          \E j \in 1 .. k : /\ memories[j].layer = "self_model"
                            /\ memories[j].value = memories[k].value
                            /\ Trusts(memories[j].source, memories[j].trust, TraitFloor)
    BY <1>1 DEF IngestInv, Governance, TrustedRoots
  <2>2. CASE i \in 1 .. n
    BY <1>0, <1>1, <2>1, <2>2
  <2>3. CASE i = n + 1
    <3>1. CASE Trusts(m.source, m.trust, TraitFloor)
      BY <1>0, <1>1, <2>3, <3>1
    <3>2. CASE \E k \in Versions : memories[k].layer = "self_model" /\ memories[k].value = m.value
      <4>1. PICK k \in 1 .. n : memories[k].layer = "self_model" /\ memories[k].value = m.value
        BY <1>1, <3>2
      <4>2. PICK j \in 1 .. k : /\ memories[j].layer = "self_model"
                                /\ memories[j].value = memories[k].value
                                /\ Trusts(memories[j].source, memories[j].trust, TraitFloor)
        BY <2>1, <4>1
      <4>3. j \in 1 .. i /\ j \in 1 .. n
        BY <1>0, <2>3
      <4> QED
        BY <1>1, <2>3, <4>1, <4>2, <4>3
    <3> QED
      BY <1>1, <2>3, <3>1, <3>2
  <2> QED
    BY <1>2, <2>2, <2>3
<1>4. OneActiveTrait'
  <2>1. \A i \in Latest("self_model")' : i # n + 1 =>
          i \in Latest("self_model") /\ memories[i].id # m.id
    BY <1>0, <1>1, <1>2 DEF Latest
  <2>2. n + 1 \in Latest("self_model")' => m.layer = "self_model"
    BY <1>1 DEF Latest
  <2>3. Latest("self_model") \subseteq 1 .. n /\ Latest("self_model")' \subseteq 1 .. n + 1
    BY <1>1 DEF Latest
  <2> SUFFICES ASSUME NEW i \in Latest("self_model")', NEW j \in Latest("self_model")',
                      memories'[i].status = "active", memories'[j].status = "active"
               PROVE  i = j
    BY DEF OneActiveTrait
  <2>4. CASE i # n + 1 /\ j # n + 1
    BY <1>1, <2>1, <2>3, <2>4 DEF IngestInv, Governance, OneActiveTrait
  <2>5. CASE i = n + 1 /\ j # n + 1
    BY <1>1, <2>1, <2>2, <2>3, <2>5
  <2>6. CASE j = n + 1 /\ i # n + 1
    BY <1>1, <2>1, <2>2, <2>3, <2>6
  <2> QED
    BY <2>4, <2>5, <2>6
<1>5. CitesStored'
  <2> SUFFICES ASSUME NEW i \in Versions', memories'[i].cites # 0
               PROVE  \E j \in 1 .. (i - 1) : /\ memories'[j].layer = "episode"
                                              /\ memories'[j].id = memories'[i].cites
    BY DEF CitesStored
  <2>1. CASE i \in 1 .. n
    <3>1. PICK j \in 1 .. (i - 1) : memories[j].layer = "episode" /\ memories[j].id = memories[i].cites
      BY <1>1, <2>1 DEF IngestInv, Governance, CitesStored
    <3>2. j \in 1 .. n
      BY <1>0, <2>1
    <3> QED
      BY <1>1, <2>1, <3>1, <3>2
  <2>2. CASE i = n + 1
    <3>1. i - 1 = n
      BY <1>0, <2>2
    <3> QED
      BY <1>1, <2>2, <3>1
  <2> QED
    BY <1>2, <2>1, <2>2
<1>6. \A i \in Versions' : memories'[i].layer = "self_model" => memories'[i].triple
  BY <1>1, <1>2 DEF IngestInv, TraitsWhole
<1> QED
  BY <1>0, <1>1, <1>3, <1>4, <1>5, <1>6 DEF Governance

\* What a candidate becomes.
LEMMA Classified ==
  ASSUME NEW c \in Candidates, slot \in Slots
  PROVE  /\ Classify(c).triple = c.triple
         /\ Classify(c).conf \in Percentages /\ Classify(c).sal \in Percentages
         /\ Classify(c).layer \in Layers
         /\ \A i \in Nat, layer \in Layers :
              LET m == Memory(Classify(c), i, layer) IN
              m \in Records /\ m.layer = layer /\ m.triple = c.triple /\ m.cites = 0 /\ m.id = i
<1>1. TypeOf(c) \in {"preference", "goal", "fact", "episode", "trace"}
  BY DEF TypeOf
<1>2. /\ MinSalience[TypeOf(c)] \in Percentages /\ MinConfidence[TypeOf(c)] \in Percentages
      /\ LayerOfType[TypeOf(c)] \in Layers
  BY <1>1 DEF MinSalience, MinConfidence, LayerOfType, Percentages, Layers
<1>3. /\ Classify(c).triple = c.triple /\ Classify(c).value = c.value /\ Classify(c).trust = c.trust
      /\ Classify(c).source = c.source /\ Classify(c).flow = c.flow /\ Classify(c).good = c.good
      /\ Classify(c).conf = Larger(c.conf, MinConfidence[TypeOf(c)])
      /\ Classify(c).sal = Larger(c.sal, MinSalience[TypeOf(c)])
      /\ Classify(c).layer = IF c.layer = "unset" THEN LayerOfType[TypeOf(c)] ELSE c.layer
  BY IngestAssumption DEF Classify
<1>4. /\ c.triple \in BOOLEAN /\ c.value \in Values /\ c.trust \in Percentages /\ c.source \in Sources
      /\ c.flow \in BOOLEAN /\ c.good \in BOOLEAN /\ c.conf \in Percentages /\ c.sal \in Percentages
      /\ c.layer \in Layers \cup {"unset"}
  BY IngestAssumption
<1>5. \A a, b \in Percentages : Larger(a, b) \in Percentages
  BY DEF Larger
<1>6. Classify(c).conf \in Percentages /\ Classify(c).sal \in Percentages /\ Classify(c).layer \in Layers
  BY <1>2, <1>3, <1>4, <1>5
<1> QED
  BY <1>3, <1>4, <1>6 DEF Memory, Records

\* A trait is promoted only from a whole triple.
LEMMA PromotedWhole ==
  ASSUME NEW p, p.layer = "self_model", Decision(p) = "promote" PROVE p.triple
<1>1. Eligibility(p).allowed
  BY DEF Decision, Eligibility, TraitEligible, EvidenceLayer, Allowed, Denied
<1>2. Eligibility(p) = TraitEligible(p)
  BY DEF Eligibility
<1> QED
  BY <1>1, <1>2 DEF TraitEligible, Denied

LEMMA IngestInitHolds == IngestInit => IngestInv
<1> SUFFICES ASSUME IngestInit PROVE IngestInv
  OBVIOUS
<1> USE DEF IngestInit
<1>1. Versions = {}
  BY DEF Versions
<1>2. IngestTypeOK
  BY DEF IngestTypeOK
<1>3. Latest("self_model") = {}
  BY <1>1 DEF Latest
<1> QED
  BY <1>1, <1>2, <1>3
     DEF IngestInv, TraitsWhole, EpisodeFirst, Governance, TrustedRoots, OneActiveTrait, CitesStored

\* What is stored of a memory that passed the rules, be it promoted or handed
\* over.
LEMMA StoredClaim ==
  ASSUME IngestInv, NEW m \in Records,
         m.layer = "self_model" => m.triple /\ Governed(m),
         m.cites # 0 => \E j \in Versions : memories[j].layer = "episode" /\ memories[j].id = m.cites,
         memories' = Append(memories, Persisted(m)), slot' = slot
  PROVE  /\ memories' \in Seq(Records) /\ Governance'
         /\ \A i \in Versions' : memories'[i].layer = "self_model" => memories'[i].triple
<1> DEFINE q == Persisted(m)
<1>0. IngestTypeOK /\ TraitsWhole /\ OneActiveTrait
  BY DEF IngestInv, Governance
<1>1. SameClaim(q, m)
  BY <1>0, PersistedClaim
<1>2. ASSUME m.layer = "self_model", slot.stable
      PROVE  \/ Trusts(q.source, q.trust, TraitFloor)
             \/ \E i \in Versions : memories[i].layer = "self_model" /\ memories[i].value = q.value
  BY <1>0, <1>1, <1>2, GovernedStated DEF SameClaim, TrustedTrait
<1>3. m.layer = "self_model" =>
        (q.status = "active" => \A i \in Latest("self_model") :
                                  memories[i].status = "active" => memories[i].id = q.id)
  BY <1>0, TraitReplaces
<1> HIDE DEF q
<1>4. memories' = Append(memories, q)
  BY DEF q
<1> QED
  BY <1>1, <1>2, <1>3, <1>4, Appended DEF SameClaim

LEMMA IngestStep == IngestInv /\ [IngestNext]_ingestVars => IngestInv'
<1> SUFFICES ASSUME IngestInv, [IngestNext]_ingestVars PROVE IngestInv'
  OBVIOUS
<1>0. /\ slot \in Slots /\ traces \in Nat /\ ingests \in Nat
      /\ memories \in Seq(Records) /\ pending \in Records \cup {NoMemory}
  BY DEF IngestInv, IngestTypeOK
<1>1. ASSUME slot' = slot, traces' \in Nat, ingests' \in Nat, UNCHANGED memories,
             pending' \in {pending, NoMemory}
      PROVE  IngestInv'
  <2>1. /\ Versions' = Versions /\ \A layer : Latest(layer)' = Latest(layer)
    BY <1>1 DEF Versions, Latest
  <2> QED
    BY <1>0, <1>1, <2>1 DEF IngestInv, IngestTypeOK, TraitsWhole, EpisodeFirst, Governance,
                            TrustedRoots, OneActiveTrait, CitesStored
<1>2. ASSUME NEW c \in Candidates, Reject(c) \/ KeepTrace(c) PROVE IngestInv'
  BY <1>0, <1>1, <1>2 DEF Reject, KeepTrace, Taking
<1>3. ASSUME NEW c \in Candidates, KeepEpisode(c) \/ Promote(c) PROVE IngestInv'
  <2> DEFINE p == Classify(c)
             e == Memory(p, NewId(1), "episode")
             m == [Memory(p, NewId(2), p.layer) EXCEPT !.cites = NewId(1)]
  <2>1. NewId(1) \in Nat /\ NewId(2) \in Nat /\ "episode" \in Layers
    BY <1>0 DEF NewId, Layers
  <2>2. e \in Records /\ e.layer = "episode" /\ e.cites = 0 /\ e.id = NewId(1)
    BY <1>0, <2>1, Classified
  <2>3. /\ Memory(p, NewId(2), p.layer) \in Records /\ Memory(p, NewId(2), p.layer).layer = p.layer
        /\ Memory(p, NewId(2), p.layer).triple = p.triple
    BY <1>0, <2>1, Classified
  <2>4. m \in Records /\ m.layer = p.layer /\ m.triple = p.triple /\ m.cites = NewId(1)
    BY <2>1, <2>3 DEF Records
  <2>5. /\ memories' = Append(memories, e) /\ slot' = slot /\ traces' = traces /\ ingests' = ingests + 1
        /\ pending = NoMemory
        /\ pending' = NoMemory \/ (pending' = m /\ Decision(p) = "promote")
    BY <1>3 DEF KeepEpisode, Promote, Taking
  <2>6. p.layer = "self_model" /\ Decision(p) = "promote" => p.triple
    BY PromotedWhole
  <2> HIDE DEF e, m, p
  <2>7. /\ memories' \in Seq(Records) /\ Governance'
        /\ \A i \in Versions' : memories'[i].layer = "self_model" => memories'[i].triple
    BY <2>2, <2>5, Appended
  <2>8. \E j \in Versions' : memories'[j].layer = "episode" /\ memories'[j].id = NewId(1)
    <3>1. Len(memories) + 1 \in Versions' /\ memories'[Len(memories) + 1] = e
      BY <1>0, <2>2, <2>5 DEF Versions
    <3> QED
      BY <2>2, <3>1
  <2>9. pending' \in Records \cup {NoMemory} /\ ingests' \in Nat /\ traces' \in Nat
    BY <1>0, <2>4, <2>5
  <2>10. TraitsWhole'
    BY <2>4, <2>5, <2>6, <2>7 DEF TraitsWhole
  <2>11. EpisodeFirst'
    BY <2>4, <2>5, <2>8 DEF EpisodeFirst
  <2> QED
    BY <1>0, <2>5, <2>7, <2>9, <2>10, <2>11 DEF IngestInv, IngestTypeOK
<1>4. ASSUME NEW m \in Records, pending' = NoMemory, slot' = slot, traces' = traces, ingests' \in Nat,
             m.layer = "self_model" => m.triple /\ Governed(m),
             m.cites # 0 => \E j \in Versions : memories[j].layer = "episode" /\ memories[j].id = m.cites,
             memories' = Append(memories, Persisted(m))
      PROVE  IngestInv'
  <2>1. /\ memories' \in Seq(Records) /\ Governance'
        /\ \A i \in Versions' : memories'[i].layer = "self_model" => memories'[i].triple
    BY <1>4, StoredClaim
  <2> QED
    BY <1>0, <1>4, <2>1 DEF IngestInv, IngestTypeOK, TraitsWhole, EpisodeFirst
<1>5. CASE Persist
  <2> DEFINE m == [pending EXCEPT !.forced = pending.layer = "self_model" /\ UpdatesStable(pending)]
  <2>0. pending \in Records /\ pending # NoMemory /\ pending' = NoMemory
        /\ UNCHANGED <<slot, traces, ingests>>
    BY <1>0, <1>5 DEF Persist
  <2>1. CASE UNCHANGED memories
    BY <1>0, <1>1, <2>0, <2>1
  <2>2. CASE ~UNCHANGED memories
    <3>1. memories' = Append(memories, Persisted(m)) /\ (pending.layer = "self_model" => Governed(pending))
      BY <1>5, <2>2 DEF Persist
    <3>2. SameClaim(m, pending)
      BY <2>0, Claims
    <3>3. Governed(m) <=> Governed(pending)
      BY <3>2 DEF Governed, SameClaim, TrustedTrait
    <3> HIDE DEF m
    <3>4. m.layer = "self_model" => m.triple /\ Governed(m)
      BY <2>0, <3>1, <3>2, <3>3 DEF IngestInv, TraitsWhole, SameClaim
    <3>5. m.cites # 0 => \E j \in Versions : memories[j].layer = "episode" /\ memories[j].id = m.cites
      BY <2>0, <3>2 DEF IngestInv, EpisodeFirst, SameClaim
    <3> QED
      BY <1>0, <1>4, <2>0, <3>1, <3>2, <3>4, <3>5 DEF SameClaim
  <2> QED
    BY <2>1, <2>2
<1>6. ASSUME NEW d \in Directives, ApplyDurable(d) PROVE IngestInv'
  <2> DEFINE m == [d EXCEPT !.id = NewId(1),
                            !.forced = d.layer = "self_model" /\ UpdatesStable(d)]
  <2>1. d \in Records /\ d.cites = 0 /\ (d.layer = "self_model" => d.triple) /\ NewId(1) \in Nat
    BY <1>0, IngestAssumption DEF NewId
  <2>2. /\ memories' = Append(memories, Persisted(m)) /\ (d.layer = "self_model" => Governed(d))
        /\ pending' = NoMemory /\ slot' = slot /\ traces' = traces /\ ingests' = ingests + 1
    BY <1>6 DEF ApplyDurable, Taking
  <2>3. SameClaim(m, d)
    BY <2>1, Claims
  <2>4. Governed(m) <=> Governed(d)
    BY <2>3 DEF Governed, SameClaim, TrustedTrait
  <2> HIDE DEF m
  <2> QED
    BY <1>0, <1>4, <2>1, <2>2, <2>3, <2>4 DEF SameClaim
<1>7. CASE IngestCrash \/ UNCHANGED ingestVars
  BY <1>0, <1>1, <1>7 DEF IngestCrash, ingestVars
<1> QED
  BY <1>2, <1>3, <1>5, <1>6, <1>7 DEF IngestNext

-----------------------------------------------------------------------------
\* The inductive invariant holds in every behaviour of the write path.
THEOREM IngestInvariant == IngestSpec => []IngestInv
BY IngestInitHolds, IngestStep, PTL DEF IngestSpec

\* Type correctness of the stored versions and of the promotion under way.
THEOREM IngestTypes == IngestSpec => []IngestTypeOK
<1>1. IngestInv => IngestTypeOK
  BY DEF IngestInv
<1> QED
  BY <1>1, IngestInvariant, PTL

\* A stable directive has a trusted root, a slot has one active trait and a
\* cited episode is stored, for all candidates, directives, slots and crashes
\* (memory_controller.rs, self_model_store.rs).
THEOREM GovernanceHolds == IngestSpec => []Governance
<1>1. IngestInv => Governance
  BY DEF IngestInv
<1> QED
  BY <1>1, IngestInvariant, PTL
=============================================================================
