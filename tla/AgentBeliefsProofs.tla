--------------------------- MODULE AgentBeliefsProofs ---------------------------
(***************************************************************************)
(* With a second between the saves of a belief, whatever is observed,      *)
(* retracted and rated in any order: a value gives way only to a source    *)
(* that is trusted more than any that supports it; and while nothing is    *)
(* retracted the store of cards and the store in memory agree.  And the    *)
(* active belief of a slot outranks what supports the answer about it.     *)
(***************************************************************************)
EXTENDS AgentBeliefs, WellFoundedInduction, TLAPS

At(i) == beliefCards[i].at
Held(i) == beliefCards[i].belief

\* A card is dated and retracts as its belief, and the ids of beliefs are those
\* of observations.
CardsFit ==
  \A i \in DOMAIN beliefCards :
    /\ beliefCards[i] = CardOf(Held(i))
    /\ At(i) <= second /\ Held(i).id <= observed

\* Card k holds the current belief: it is the last live one that was not
\* replaced, and every other belief was replaced by its last live version.
Current(k) ==
  /\ k \in LiveCards /\ Held(k).status # "stale"
  /\ \A j \in LiveCards :
       /\ j # k /\ Held(j).status # "stale" => At(j) < At(k)
       /\ Held(j).status = "stale" => Held(j).id # Held(k).id
       /\ Held(j).id # Held(k).id /\ Held(j).status # "stale" =>
            \E m \in LiveCards : Held(m).id = Held(j).id /\ Held(m).status = "stale" /\ At(m) > At(j)

\* The inductive invariant of the two stores.
BeliefInv ==
  /\ BeliefTypeOK /\ CardsFit
  /\ LiveCards = {} \/ \E k \in LiveCards : Current(k)

\* Without retractions every card is live and the stores agree.
NoneRetracted ==
  /\ \A i \in DOMAIN beliefCards : ~beliefCards[i].retracts
  /\ GetCurrent = saved

-----------------------------------------------------------------------------
LEMMA SmallestOf ==
  ASSUME NEW T, T \subseteq Nat, T # {} PROVE \E x \in T : \A y \in T : x <= y
<1> DEFINE R == OpToRel(<, Nat)
<1>1. IsWellFoundedOn(R, Nat)
  BY NatLessThanWellFounded
<1> HIDE DEF R
<1>2. PICK x \in T : \A y \in T : ~ (<<y, x>> \in R)
  BY <1>1, WFMin
<1>3. \A y \in T : ~ (y < x)
  BY <1>2 DEF R, OpToRel
<1> QED
  BY <1>3

LEMMA CardParts ==
  ASSUME BeliefInv
  PROVE  /\ beliefCards \in Seq(Cards) /\ second \in Nat /\ observed \in Nat
         /\ DOMAIN beliefCards = 1 .. Len(beliefCards) /\ Len(beliefCards) \in Nat
         /\ LiveCards \subseteq DOMAIN beliefCards
         /\ \A i \in DOMAIN beliefCards :
              At(i) \in Nat /\ Held(i) \in Beliefs /\ At(i) <= second /\ Held(i).id <= observed
<1>1. beliefCards \in Seq(Cards) /\ second \in Nat /\ observed \in Nat
  BY DEF BeliefInv, BeliefTypeOK
<1>2. \A i \in DOMAIN beliefCards : beliefCards[i] \in Cards
  BY <1>1
<1>3. \A i \in DOMAIN beliefCards : At(i) \in Nat /\ Held(i) \in Beliefs
  BY <1>2 DEF Cards, At, Held
<1>4. \A i \in DOMAIN beliefCards : At(i) <= second /\ Held(i).id <= observed
  BY DEF BeliefInv, CardsFit
<1> QED
  BY <1>1, <1>3, <1>4 DEF LiveCards

\* The first of some cards is one of them, and none of them is later.
LEMMA FirstOf ==
  ASSUME BeliefInv, NEW S \in SUBSET (DOMAIN beliefCards), S # {}
  PROVE  \E i \in S : /\ FirstCard(S) = Held(i)
                      /\ \A j \in S : At(j) < At(i) \/ (At(j) = At(i) /\ i <= j)
<1>0. /\ S \subseteq Nat /\ second \in Nat
      /\ \A i \in S : At(i) \in Nat /\ At(i) <= second
  BY CardParts
<1> DEFINE Ages == {second - At(i) : i \in S}
           Leads(i) == \A j \in S : At(j) < At(i) \/ (At(j) = At(i) /\ i <= j)
<1>1. \A i \in S : second - At(i) \in Nat
  BY <1>0
<1>2. PICK a \in Ages : \A b \in Ages : a <= b
  <2>1. Ages \subseteq Nat /\ Ages # {}
    BY <1>1
  <2> QED
    BY <2>1, SmallestOf
<1>3. PICK l \in S : a = second - At(l)
  BY <1>2
<1>4. \A j \in S : At(j) <= At(l)
  <2>1. \A j \in S : a <= second - At(j)
    BY <1>2
  <2> QED
    BY <1>0, <1>3, <2>1
<1> DEFINE Last == {i \in S : At(i) = At(l)}
<1>5. PICK i \in Last : \A j \in Last : i <= j
  <2>1. Last \subseteq Nat /\ Last # {}
    BY <1>0
  <2> QED
    BY <2>1, SmallestOf
<1>6. Leads(i)
  BY <1>0, <1>4, <1>5
<1> DEFINE c == CHOOSE x \in S : Leads(x)
<1>7. c \in S /\ Leads(c)
  BY <1>5, <1>6
<1>8. FirstCard(S) = Held(c)
  BY DEF FirstCard, At, Held
<1> QED
  BY <1>7, <1>8

LEMMA BeliefKinds ==
  ASSUME NEW b \in Beliefs PROVE b # NoBelief /\ b.id # 0
BY DEF Beliefs, NoBelief

\* What is current, by card and by id.
LEMMA CurrentCard ==
  ASSUME BeliefInv, NEW k, Current(k)
  PROVE  /\ GetCurrent = Held(k) /\ Held(k) \in Beliefs
         /\ GetById(Held(k).id) = Held(k)
<1>0. /\ LiveCards \subseteq DOMAIN beliefCards /\ k \in LiveCards
      /\ \A i \in LiveCards : At(i) \in Nat /\ Held(i) \in Beliefs
  BY CardParts DEF Current
<1> DEFINE S == {i \in LiveCards : Held(i).status # "stale"}
           T == {i \in LiveCards : Held(i).id = Held(k).id}
<1>1. k \in S /\ k \in T /\ S \subseteq DOMAIN beliefCards /\ T \subseteq S
  BY <1>0 DEF Current
<1>2. \A j \in S : j # k => At(j) < At(k)
  BY DEF Current
<1>3. ASSUME NEW U \in SUBSET S, k \in U PROVE FirstCard(U) = Held(k)
  <2>1. PICK i \in U : /\ FirstCard(U) = Held(i)
                       /\ \A j \in U : At(j) < At(i) \/ (At(j) = At(i) /\ i <= j)
    BY <1>1, <1>3, FirstOf
  <2>2. i = k
    <3>1. At(k) < At(i) \/ At(k) = At(i)
      BY <1>3, <2>1
    <3> QED
      BY <1>0, <1>2, <2>1, <3>1
  <2> QED
    BY <2>1, <2>2
<1>4. GetCurrent = FirstCard(S) /\ GetById(Held(k).id) = FirstCard(T)
  BY DEF GetCurrent, GetById, Held
<1> QED
  BY <1>0, <1>1, <1>3, <1>4

LEMMA NoCurrent ==
  ASSUME LiveCards = {} PROVE GetCurrent = NoBelief /\ \A id : GetById(id) = NoBelief
BY DEF GetCurrent, GetById, FirstCard

\* Any other belief was replaced.
LEMMA OtherStale ==
  ASSUME BeliefInv, NEW k, Current(k), NEW id, id # Held(k).id, GetById(id) # NoBelief
  PROVE  GetById(id) \in Beliefs /\ GetById(id).status = "stale" /\ GetById(id).id = id
<1>0. /\ LiveCards \subseteq DOMAIN beliefCards
      /\ \A i \in LiveCards : At(i) \in Nat /\ Held(i) \in Beliefs
  BY CardParts
<1> DEFINE S == {i \in LiveCards : Held(i).id = id}
<1>1. GetById(id) = FirstCard(S)
  BY DEF GetById, Held
<1>2. S # {} /\ S \subseteq DOMAIN beliefCards
  BY <1>0, <1>1 DEF FirstCard
<1>3. PICK i \in S : /\ FirstCard(S) = Held(i)
                     /\ \A j \in S : At(j) < At(i) \/ (At(j) = At(i) /\ i <= j)
  BY <1>2, FirstOf
<1>4. Held(i).status = "stale"
  <2> SUFFICES ASSUME Held(i).status # "stale" PROVE FALSE
    OBVIOUS
  <2>1. PICK m \in LiveCards : Held(m).id = Held(i).id /\ At(m) > At(i)
    BY <1>3 DEF Current
  <2> QED
    BY <1>0, <1>3, <2>1
<1> QED
  BY <1>0, <1>1, <1>3, <1>4

-----------------------------------------------------------------------------
\* A card more.
Put1(b) == beliefCards' = Append(beliefCards, CardOf(b))

LEMMA AfterPut ==
  ASSUME BeliefInv, NEW b \in Beliefs, Put1(b), b.reviewed = second, b.id <= observed',
         observed' \in Nat, observed <= observed', second' = second,
         NEW n, n = Len(beliefCards)
  PROVE  /\ beliefCards' \in Seq(Cards) /\ CardsFit'
         /\ \A i \in 1 .. n : At(i)' = At(i) /\ Held(i)' = Held(i)
         /\ At(n + 1)' = second /\ Held(n + 1)' = b
         /\ n + 1 \notin LiveCards
         /\ LiveCards' = IF b.status = "retracted" THEN LiveCards ELSE LiveCards \cup {n + 1}
<1>0. CardOf(b) \in Cards /\ CardOf(b).at = second /\ CardOf(b).belief = b
      /\ (CardOf(b).retracts <=> b.status = "retracted")
  BY DEF CardOf, Cards, Beliefs
<1>1. /\ beliefCards' \in Seq(Cards) /\ DOMAIN beliefCards' = 1 .. n + 1 /\ n \in Nat
      /\ \A i \in 1 .. n : beliefCards'[i] = beliefCards[i]
      /\ beliefCards'[n + 1] = CardOf(b)
  BY <1>0, CardParts DEF Put1
<1>2. /\ \A i \in 1 .. n : At(i)' = At(i) /\ Held(i)' = Held(i)
      /\ At(n + 1)' = second /\ Held(n + 1)' = b
  BY <1>0, <1>1 DEF At, Held
<1>3. LiveCards' = IF b.status = "retracted" THEN LiveCards ELSE LiveCards \cup {n + 1}
  <2>1. LiveCards = {i \in 1 .. n : ~beliefCards[i].retracts}
    BY CardParts DEF LiveCards
  <2>2. LiveCards' = {i \in 1 .. n + 1 : ~beliefCards'[i].retracts}
    BY <1>1 DEF LiveCards
  <2>3. /\ \A i \in 1 .. n : ~beliefCards'[i].retracts <=> ~beliefCards[i].retracts
        /\ ~beliefCards'[n + 1].retracts <=> b.status # "retracted"
    BY <1>0, <1>1
  <2>4. 1 .. n + 1 = (1 .. n) \cup {n + 1}
    BY <1>1
  <2> QED
    BY <2>1, <2>2, <2>3, <2>4
<1>4. CardsFit'
  <2> SUFFICES ASSUME NEW i \in 1 .. n + 1
               PROVE  /\ beliefCards'[i] = CardOf(Held(i)')
                      /\ At(i)' <= second' /\ Held(i)'.id <= observed'
    BY <1>1 DEF CardsFit
  <2>1. CASE i \in 1 .. n
    <3>1. beliefCards[i] = CardOf(Held(i)) /\ At(i) <= second /\ Held(i).id <= observed
      BY <2>1, CardParts DEF BeliefInv, CardsFit
    <3>2. Held(i).id \in Nat
      BY <2>1, CardParts DEF Beliefs
    <3> QED
      BY <1>1, <1>2, <2>1, <3>1, <3>2, CardParts
  <2>2. CASE i = n + 1
    BY <1>1, <1>2, <2>2, CardParts
  <2> QED
    BY <1>1, <2>1, <2>2
<1>5. n + 1 \notin LiveCards
  BY <1>1, CardParts
<1> QED
  BY <1>1, <1>2, <1>3, <1>4, <1>5

\* A second passed since the last card.
Fresher == \A i \in DOMAIN beliefCards : At(i) < second

\* A later version of the current belief becomes the current card.
LEMMA PutCurrent ==
  ASSUME BeliefInv, Fresher, NEW k, Current(k), NEW b \in Beliefs, Put1(b), b.reviewed = second,
         b.id = Held(k).id, b.status \notin {"stale", "retracted"},
         observed' \in Nat, observed <= observed', second' = second
  PROVE  beliefCards' \in Seq(Cards) /\ CardsFit' /\ \E m \in LiveCards' : Current(m)' /\ Held(m)' = b
<1> PICK n : n = Len(beliefCards)
  OBVIOUS
<1>0. /\ n \in Nat /\ LiveCards \subseteq 1 .. n /\ k \in LiveCards
      /\ \A i \in 1 .. n : At(i) \in Nat /\ At(i) < second
      /\ b.id <= observed' /\ b.id \in Nat /\ second \in Nat
  <2>1. n \in Nat /\ LiveCards \subseteq 1 .. n /\ k \in LiveCards /\ second \in Nat
    BY CardParts DEF Current
  <2>2. \A i \in 1 .. n : At(i) \in Nat /\ At(i) < second
    BY CardParts DEF Fresher
  <2>3. b.id \in Nat
    BY DEF Beliefs
  <2>4. Held(k).id <= observed /\ observed \in Nat
    BY <2>1, CardParts
  <2> QED
    BY <2>1, <2>2, <2>3, <2>4
<1>1. /\ beliefCards' \in Seq(Cards) /\ CardsFit'
      /\ \A i \in 1 .. n : At(i)' = At(i) /\ Held(i)' = Held(i)
      /\ At(n + 1)' = second /\ Held(n + 1)' = b
      /\ LiveCards' = LiveCards \cup {n + 1}
  BY <1>0, AfterPut
<1>2. Current(n + 1)'
  <2> SUFFICES ASSUME NEW j \in LiveCards'
               PROVE  /\ j # n + 1 /\ Held(j)'.status # "stale" => At(j)' < At(n + 1)'
                      /\ Held(j)'.status = "stale" => Held(j)'.id # Held(n + 1)'.id
                      /\ Held(j)'.id # Held(n + 1)'.id /\ Held(j)'.status # "stale" =>
                           \E m \in LiveCards' : /\ Held(m)'.id = Held(j)'.id
                                                 /\ Held(m)'.status = "stale" /\ At(m)' > At(j)'
    BY <1>1 DEF Current
  <2>1. CASE j = n + 1
    BY <1>1, <2>1
  <2>2. CASE j \in LiveCards
    <3>1. At(j)' = At(j) /\ Held(j)' = Held(j) /\ At(j) < second
      BY <1>0, <1>1, <2>2
    <3>2. Held(j).status = "stale" => Held(j).id # b.id
      BY <2>2 DEF Current
    <3>3. ASSUME Held(j).id # b.id, Held(j).status # "stale"
          PROVE  \E m \in LiveCards' : /\ Held(m)'.id = Held(j)'.id
                                       /\ Held(m)'.status = "stale" /\ At(m)' > At(j)'
      <4>1. PICK m \in LiveCards : Held(m).id = Held(j).id /\ Held(m).status = "stale" /\ At(m) > At(j)
        BY <2>2, <3>3 DEF Current
      <4> QED
        BY <1>0, <1>1, <3>1, <4>1
    <3> QED
      BY <1>1, <3>1, <3>2, <3>3
  <2> QED
    BY <1>1, <2>1, <2>2
<1> QED
  BY <1>1, <1>2

\* A retraction and a later version of a replaced belief leave it current.
LEMMA PutAside ==
  ASSUME BeliefInv, Fresher, NEW k, Current(k), NEW b \in Beliefs, Put1(b), b.reviewed = second,
         b.status = "retracted" \/ (b.status = "stale" /\ b.id # Held(k).id), b.id <= observed',
         observed' \in Nat, observed <= observed', second' = second
  PROVE  beliefCards' \in Seq(Cards) /\ CardsFit' /\ Current(k)' /\ Held(k)' = Held(k)
<1> PICK n : n = Len(beliefCards)
  OBVIOUS
<1>0. /\ n \in Nat /\ LiveCards \subseteq 1 .. n /\ k \in LiveCards
      /\ \A i \in 1 .. n : At(i) \in Nat
  BY CardParts DEF Current
<1>1. /\ beliefCards' \in Seq(Cards) /\ CardsFit'
      /\ \A i \in 1 .. n : At(i)' = At(i) /\ Held(i)' = Held(i)
      /\ At(n + 1)' = second /\ Held(n + 1)' = b
      /\ LiveCards' = IF b.status = "retracted" THEN LiveCards ELSE LiveCards \cup {n + 1}
  BY AfterPut
<1>2. Current(k)'
  <2>0. k \in LiveCards' /\ Held(k)' = Held(k) /\ At(k)' = At(k) /\ Held(k).status # "stale"
    BY <1>0, <1>1 DEF Current
  <2> SUFFICES ASSUME NEW j \in LiveCards'
               PROVE  /\ j # k /\ Held(j)'.status # "stale" => At(j)' < At(k)'
                      /\ Held(j)'.status = "stale" => Held(j)'.id # Held(k)'.id
                      /\ Held(j)'.id # Held(k)'.id /\ Held(j)'.status # "stale" =>
                           \E m \in LiveCards' : /\ Held(m)'.id = Held(j)'.id
                                                 /\ Held(m)'.status = "stale" /\ At(m)' > At(j)'
    BY <2>0 DEF Current
  <2>1. CASE j = n + 1
    BY <1>0, <1>1, <2>0, <2>1
  <2>2. CASE j \in LiveCards
    <3>1. At(j)' = At(j) /\ Held(j)' = Held(j)
      BY <1>0, <1>1, <2>2
    <3>2. ASSUME Held(j).id # Held(k).id, Held(j).status # "stale"
          PROVE  \E m \in LiveCards' : /\ Held(m)'.id = Held(j)'.id
                                       /\ Held(m)'.status = "stale" /\ At(m)' > At(j)'
      <4>1. PICK m \in LiveCards : Held(m).id = Held(j).id /\ Held(m).status = "stale" /\ At(m) > At(j)
        BY <2>2, <3>2 DEF Current
      <4> QED
        BY <1>0, <1>1, <3>1, <4>1
    <3>3. /\ j # k /\ Held(j).status # "stale" => At(j) < At(k)
          /\ Held(j).status = "stale" => Held(j).id # Held(k).id
      BY <2>2 DEF Current
    <3> QED
      BY <2>0, <3>1, <3>2, <3>3
  <2> QED
    BY <1>1, <2>1, <2>2
<1> QED
  BY <1>0, <1>1, <1>2

-----------------------------------------------------------------------------
\* A new belief.
LEMMA FreshKind ==
  ASSUME NEW o \in Observations, NEW mid \in Nat \ {0}, NEW S \in SUBSET Nat, second \in Nat
  PROVE  /\ Fresh(o, mid, S) \in Beliefs /\ Fresh(o, mid, S).reviewed = second
         /\ Fresh(o, mid, S).id = mid
         /\ Fresh(o, mid, S).status = IF o.retract THEN "retracted" ELSE "active"
<1>1. /\ o.value \in Said /\ o.retract \in BOOLEAN /\ o.source \in SourceTypes
      /\ o.trust \in Percent /\ o.conf \in Percent
  BY BeliefAssumption
<1>2. WeightOf(o) \in [SourceTypes -> Percent]
  BY <1>1 DEF WeightOf, Percent
<1> QED
  BY <1>1, <1>2 DEF Fresh, Beliefs

\* The belief that is revised, and what it is revised to.
VersionOf(b, x) == x \in Beliefs /\ x.reviewed = second /\ x.id = b.id /\ x.value = b.value

LEMMA Revised ==
  ASSUME NEW b \in Beliefs, NEW o \in Observations, NEW mid \in Nat \ {0}, second \in Nat
  PROVE  /\ b.support \in SUBSET Nat
         /\ VersionOf(b, Retracted(b, mid)) /\ VersionOf(b, Reinforced(b, o, mid))
         /\ VersionOf(b, Disputed(b, mid)) /\ VersionOf(b, Stale(b, mid))
         /\ Retracted(b, mid).status = "retracted" /\ Disputed(b, mid).status = "disputed"
         /\ Stale(b, mid).status = "stale"
         /\ b.status \notin {"stale", "retracted"} =>
              Reinforced(b, o, mid).status \notin {"stale", "retracted"}
<1>1. /\ o.value \in Said /\ o.retract \in BOOLEAN /\ o.source \in SourceTypes
      /\ o.trust \in Percent /\ o.conf \in Percent
  BY BeliefAssumption
<1>3. b.support \in SUBSET Nat
  BY DEF Beliefs
<1>4. VersionOf(b, Retracted(b, mid)) /\ VersionOf(b, Stale(b, mid))
  BY DEF Beliefs, Retracted, Stale, VersionOf
<1>5. VersionOf(b, Disputed(b, mid))
  <2>1. (IF mid \in b.oppose THEN b.contradictions ELSE b.contradictions + 1) \in Nat
    BY DEF Beliefs
  <2>2. PICK n \in Nat : n = IF mid \in b.oppose THEN b.contradictions ELSE b.contradictions + 1
    BY <2>1
  <2>3. Disputed(b, mid) = [b EXCEPT !.status = "disputed", !.reviewed = second,
                               !.oppose = @ \cup {mid}, !.contradictions = n, !.contested = TRUE]
    BY <2>2 DEF Disputed
  <2>4. VersionOf(b, [b EXCEPT !.status = "disputed", !.reviewed = second,
                         !.oppose = @ \cup {mid}, !.contradictions = n, !.contested = TRUE])
    BY DEF Beliefs, VersionOf
  <2> QED
    BY <2>3, <2>4
<1>6. /\ Retracted(b, mid).status = "retracted" /\ Disputed(b, mid).status = "disputed"
      /\ Stale(b, mid).status = "stale"
  BY DEF Beliefs, Retracted, Disputed, Stale
<1>7. VersionOf(b, Reinforced(b, o, mid))
  <2> DEFINE conf == IF b.conf > o.conf THEN b.conf ELSE o.conf
             weights == [b.weights EXCEPT ![o.source] = o.trust]
             status == IF b.status = "disputed" THEN "active" ELSE b.status
             contested == b.contested /\ b.status # "disputed"
             support == b.support \cup {mid}
  <2>1. conf \in Percent
    BY <1>1 DEF Beliefs
  <2>2. weights \in [SourceTypes -> Percent] /\ support \in SUBSET Nat
    BY <1>1 DEF Beliefs
  <2>3. status \in {"active", "disputed", "stale", "retracted"} /\ contested \in BOOLEAN
    BY DEF Beliefs
  <2>4. Reinforced(b, o, mid) =
          [b EXCEPT !.conf = conf, !.reviewed = second, !.support = support, !.weights = weights,
                    !.status = status, !.contested = contested]
    BY DEF Reinforced
  <2> HIDE DEF conf, weights, status, contested, support
  <2>5. VersionOf(b, [b EXCEPT !.conf = conf, !.reviewed = second, !.support = support, !.weights = weights,
                               !.status = status, !.contested = contested])
    BY <2>1, <2>2, <2>3 DEF Beliefs, VersionOf
  <2> QED
    BY <2>4, <2>5
<1>8. b.status \notin {"stale", "retracted"} =>
        Reinforced(b, o, mid).status \notin {"stale", "retracted"}
  BY DEF Beliefs, Reinforced
<1> QED
  BY <1>3, <1>4, <1>5, <1>6, <1>7, <1>8

\* What a rating makes of a belief.
LEMMA Rated ==
  ASSUME NEW b \in Beliefs, NEW good \in BOOLEAN, second \in Nat
  PROVE  LET x == WithFeedback(b, good, second) IN
         /\ x \in Beliefs /\ x.reviewed = second /\ x.id = b.id /\ x.value = b.value
         /\ x.status = b.status
<1> DEFINE Version(x) == /\ x \in Beliefs /\ x.reviewed = second /\ x.id = b.id /\ x.value = b.value
                         /\ x.status = b.status
<1>1. \A m, n \in Nat : Version([b EXCEPT !.good = m, !.bad = n, !.reviewed = second])
  BY DEF Beliefs
<1>2. b.good \in Nat /\ b.bad \in Nat
  BY DEF Beliefs
<1>3. PICK m \in Nat : m = IF good THEN b.good + 1 ELSE b.good
  BY <1>2
<1>4. PICK n \in Nat : n = IF good THEN b.bad ELSE b.bad + 1
  BY <1>2
<1>5. WithFeedback(b, good, second) = [b EXCEPT !.good = m, !.bad = n, !.reviewed = second]
  BY <1>3, <1>4 DEF WithFeedback
<1>6. Version([b EXCEPT !.good = m, !.bad = n, !.reviewed = second])
  BY <1>1
<1>7. Version(WithFeedback(b, good, second))
  <2> HIDE DEF Version
  <2> QED
    BY <1>5, <1>6
<1> QED
  BY <1>7

\* A new belief carries the trust of its one source.
LEMMA FreshTrust ==
  ASSUME NEW o \in Observations, NEW mid, NEW S
  PROVE  Strongest(Fresh(o, mid, S)) = o.trust
<1>1. o.source \in SourceTypes /\ o.trust \in Percent
  BY BeliefAssumption
<1> DEFINE W == {WeightOf(o)[s] : s \in SourceTypes} \cup {0}
<1>2. Strongest(Fresh(o, mid, S)) = MaxNat(W)
  BY DEF Strongest, Fresh
<1>3. o.trust \in W /\ W \subseteq {0, o.trust}
  BY <1>1 DEF WeightOf
<1>4. MaxNat(W) \in W /\ \A y \in W : y <= MaxNat(W)
  <2>1. \A y \in W : y <= o.trust
    BY <1>1, <1>3 DEF Percent
  <2> QED
    BY <1>3, <2>1 DEF MaxNat
<1> HIDE DEF W
<1>5. MaxNat(W) \in {0, o.trust} /\ o.trust <= MaxNat(W)
  BY <1>3, <1>4
<1>6. MaxNat(W) = o.trust
  BY <1>1, <1>5 DEF Percent
<1> QED
  BY <1>2, <1>6

\* What one save appends, and what two do.
LEMMA Saves ==
  ASSUME beliefCards \in Seq(Cards), NEW x \in Beliefs, NEW y \in Beliefs
  PROVE  /\ WithSaved(<<x>>) = Append(beliefCards, CardOf(x))
         /\ WithSaved(<<x, y>>) = Append(Append(beliefCards, CardOf(x)), CardOf(y))
<1>1. CardOf(x) \in Cards /\ CardOf(y) \in Cards
  BY DEF CardOf, Cards, Beliefs
<1>2. DOMAIN <<x>> = {1} /\ DOMAIN <<x, y>> = {1, 2}
  OBVIOUS
<1>3. [i \in DOMAIN <<x>> |-> CardOf(<<x>>[i])] = <<CardOf(x)>>
  BY <1>2
<1>4. [i \in DOMAIN <<x, y>> |-> CardOf(<<x, y>>[i])] = <<CardOf(x), CardOf(y)>>
  BY <1>2
<1> QED
  BY <1>1, <1>3, <1>4 DEF WithSaved

\* The first live card of the slot.
LEMMA PutFirst ==
  ASSUME BeliefInv, LiveCards = {}, NEW b \in Beliefs, Put1(b), b.reviewed = second,
         b.status # "stale", b.id <= observed', observed' \in Nat, observed <= observed',
         second' = second
  PROVE  /\ beliefCards' \in Seq(Cards) /\ CardsFit'
         /\ b.status = "retracted" => LiveCards' = {}
         /\ b.status # "retracted" => \E m \in LiveCards' : Current(m)' /\ Held(m)' = b
<1> PICK n : n = Len(beliefCards)
  OBVIOUS
<1>1. /\ beliefCards' \in Seq(Cards) /\ CardsFit'
      /\ At(n + 1)' = second /\ Held(n + 1)' = b
      /\ LiveCards' = IF b.status = "retracted" THEN {} ELSE {n + 1}
  BY AfterPut
<1>2. b.status # "retracted" => Current(n + 1)'
  BY <1>1 DEF Current
<1> QED
  BY <1>1, <1>2

\* A new belief replaces the current one.
LEMMA PutSuccessor ==
  ASSUME BeliefInv, Fresher, NEW k, Current(k), NEW x \in Beliefs, NEW y \in Beliefs,
         beliefCards' = Append(Append(beliefCards, CardOf(x)), CardOf(y)),
         x.reviewed = second, x.id = Held(k).id, x.status = "stale",
         y.reviewed = second, y.id = observed', y.status \notin {"stale", "retracted"},
         observed' = observed + 1, second' = second
  PROVE  beliefCards' \in Seq(Cards) /\ CardsFit' /\ \E m \in LiveCards' : Current(m)' /\ Held(m)' = y
<1> PICK n : n = Len(beliefCards)
  OBVIOUS
<1>0. /\ n \in Nat /\ DOMAIN beliefCards = 1 .. n /\ LiveCards \subseteq 1 .. n /\ k \in LiveCards
      /\ beliefCards \in Seq(Cards) /\ second \in Nat /\ observed \in Nat
  BY CardParts DEF Current
<1>1. \A i \in 1 .. n : /\ At(i) \in Nat /\ At(i) < second /\ Held(i) \in Beliefs
                        /\ Held(i).id \in Nat /\ Held(i).id <= observed
  <2>1. \A i \in 1 .. n : Held(i) \in Beliefs
    BY CardParts
  <2> QED
    BY <2>1, CardParts DEF Fresher, Beliefs
<1>2. /\ CardOf(x) \in Cards /\ CardOf(x).at = second /\ CardOf(x).belief = x /\ ~CardOf(x).retracts
      /\ CardOf(y) \in Cards /\ CardOf(y).at = second /\ CardOf(y).belief = y /\ ~CardOf(y).retracts
  BY DEF CardOf, Cards, Beliefs
<1>3. /\ beliefCards' \in Seq(Cards) /\ DOMAIN beliefCards' = 1 .. n + 2
      /\ \A i \in 1 .. n : beliefCards'[i] = beliefCards[i]
      /\ beliefCards'[n + 1] = CardOf(x) /\ beliefCards'[n + 2] = CardOf(y)
  BY <1>0, <1>2
<1>4. /\ \A i \in 1 .. n : At(i)' = At(i) /\ Held(i)' = Held(i)
      /\ At(n + 1)' = second /\ Held(n + 1)' = x
      /\ At(n + 2)' = second /\ Held(n + 2)' = y
  BY <1>2, <1>3 DEF At, Held
<1>5. 1 .. n + 2 = (1 .. n) \cup {n + 1, n + 2}
  <2>0. n \in Nat
    BY <1>0
  <2>1. \A i : i \in 1 .. n + 2 <=> i \in 1 .. n \/ i = n + 1 \/ i = n + 2
    BY <2>0
  <2> QED
    BY <2>1
<1>6. LiveCards' = LiveCards \cup {n + 1, n + 2}
  <2>1. LiveCards = {i \in 1 .. n : ~beliefCards[i].retracts}
    BY <1>0 DEF LiveCards
  <2>2. LiveCards' = {i \in 1 .. n + 2 : ~beliefCards'[i].retracts}
    BY <1>3 DEF LiveCards
  <2>3. \A i \in 1 .. n : ~beliefCards'[i].retracts <=> ~beliefCards[i].retracts
    BY <1>3
  <2>4. ~beliefCards'[n + 1].retracts /\ ~beliefCards'[n + 2].retracts
    BY <1>2, <1>3
  <2> QED
    BY <1>5, <2>1, <2>2, <2>3, <2>4
<1>7. CardsFit'
  <2> SUFFICES ASSUME NEW i \in 1 .. n + 2
               PROVE  /\ beliefCards'[i] = CardOf(Held(i)')
                      /\ At(i)' <= second' /\ Held(i)'.id <= observed'
    BY <1>3 DEF CardsFit
  <2>1. CASE i \in 1 .. n
    <3>1. beliefCards[i] = CardOf(Held(i))
      BY <1>0, <2>1 DEF BeliefInv, CardsFit
    <3> QED
      BY <1>0, <1>1, <1>3, <1>4, <2>1, <3>1
  <2>2. CASE i = n + 1
    <3>1. Held(k).id <= observed
      BY <1>0, <1>1
    <3>2. Held(k).id \in Nat
      BY <1>0, <1>1
    <3> QED
      BY <1>0, <1>3, <1>4, <2>2, <3>1, <3>2
  <2>3. CASE i = n + 2
    BY <1>0, <1>3, <1>4, <2>3
  <2> QED
    BY <1>5, <2>1, <2>2, <2>3
<1>8. Held(k).id # y.id
  BY <1>0, <1>1
<1>9. Current(n + 2)'
  <2> SUFFICES ASSUME NEW j \in LiveCards'
               PROVE  /\ j # n + 2 /\ Held(j)'.status # "stale" => At(j)' < At(n + 2)'
                      /\ Held(j)'.status = "stale" => Held(j)'.id # Held(n + 2)'.id
                      /\ Held(j)'.id # Held(n + 2)'.id /\ Held(j)'.status # "stale" =>
                           \E m \in LiveCards' : /\ Held(m)'.id = Held(j)'.id
                                                 /\ Held(m)'.status = "stale" /\ At(m)' > At(j)'
    BY <1>4, <1>6 DEF Current
  <2>1. CASE j = n + 2
    BY <1>4, <2>1
  <2>2. CASE j = n + 1
    BY <1>4, <1>8, <2>2
  <2>3. CASE j \in LiveCards
    <3>1. At(j)' = At(j) /\ Held(j)' = Held(j) /\ At(j) < second /\ At(j) \in Nat
      BY <1>0, <1>1, <1>4, <2>3
    <3>2. Held(j).id # y.id
      BY <1>0, <1>1, <2>3
    <3>3. ASSUME Held(j).status # "stale"
          PROVE  \E m \in LiveCards' : /\ Held(m)'.id = Held(j)'.id
                                       /\ Held(m)'.status = "stale" /\ At(m)' > At(j)'
      <4>1. CASE Held(j).id = Held(k).id
        BY <1>0, <1>4, <1>6, <3>1, <4>1
      <4>2. CASE Held(j).id # Held(k).id
        <5>1. PICK m \in LiveCards : Held(m).id = Held(j).id /\ Held(m).status = "stale" /\ At(m) > At(j)
          BY <2>3, <3>3, <4>2 DEF Current
        <5> QED
          BY <1>0, <1>4, <1>6, <3>1, <5>1
      <4> QED
        BY <4>1, <4>2
    <3> QED
      BY <1>4, <3>1, <3>2, <3>3
  <2> QED
    BY <1>6, <2>1, <2>2, <2>3
<1> QED
  BY <1>3, <1>4, <1>6, <1>7, <1>9

-----------------------------------------------------------------------------
\* The current belief, in this state and in the next.
LEMMA CurrentIs == BeliefInv => \A k : Current(k) => GetCurrent = Held(k)
BY CurrentCard

LEMMA NoneIs == LiveCards = {} => GetCurrent = NoBelief
BY NoCurrent

LEMMA NextCurrent ==
  /\ BeliefInv' => \A k : Current(k)' => GetCurrent' = Held(k)'
  /\ LiveCards' = {} => GetCurrent' = NoBelief
<1>1. (BeliefInv => \A k : Current(k) => GetCurrent = Held(k))'
  BY CurrentIs, PTL
<1>2. (LiveCards = {} => GetCurrent = NoBelief)'
  BY NoneIs, PTL
<1> QED
  BY <1>1, <1>2

\* The version that a revision leaves.
Outcome(b, o, mid) == Apply(b, o, mid)[Len(Apply(b, o, mid))]

LEMMA Outcomes ==
  ASSUME NEW b \in Beliefs \cup {NoBelief}, NEW o \in Observations, NEW mid \in Nat \ {0}, second \in Nat
  PROVE  Outcome(b, o, mid) \in Beliefs
<1>1. \A x, y : <<x>>[Len(<<x>>)] = x /\ <<x, y>>[Len(<<x, y>>)] = y
  OBVIOUS
<1>2. CASE b = NoBelief
  <2>1. Fresh(o, mid, {}) \in Beliefs
    BY FreshKind
  <2> QED
    BY <1>1, <1>2, <2>1 DEF Outcome, Apply
<1>3. CASE b # NoBelief
  <2>1. /\ Retracted(b, mid) \in Beliefs /\ Reinforced(b, o, mid) \in Beliefs
        /\ Disputed(b, mid) \in Beliefs /\ b.support \in SUBSET Nat
    BY <1>3, Revised DEF VersionOf
  <2>2. Fresh(o, mid, b.support) \in Beliefs
    BY <2>1, FreshKind
  <2> QED
    BY <1>1, <1>3, <2>1, <2>2 DEF Outcome, Apply
<1> QED
  BY <1>2, <1>3

\* What an observation does to the cards.
LEMMA ObserveStep ==
  ASSUME BeliefInv, OncePerSecond, NEW o \in Observations, Observe(o)
  PROVE  /\ BeliefInv'
         /\ o.retract => GetCurrent' = GetCurrent
         /\ ~o.retract => GetCurrent' = Outcome(GetCurrent, o, observed + 1)
<1> PICK mid : mid = observed + 1
  OBVIOUS
<1>0. /\ beliefCards \in Seq(Cards) /\ second \in Nat /\ observed \in Nat /\ mid \in Nat \ {0}
      /\ saved \in Beliefs \cup {NoBelief} /\ feedbacks \in Nat
  BY DEF BeliefInv, BeliefTypeOK
<1>1. /\ beliefCards' = WithSaved(Apply(GetCurrent, o, mid)) /\ saved' = Outcome(saved, o, mid)
      /\ observed' = mid /\ second' = second /\ feedbacks' = feedbacks
  BY DEF Observe, Outcome
<1>2. saved' \in Beliefs
  BY <1>0, <1>1, Outcomes
<1>3. Fresher
  BY DEF Observe, Settled, Fresher, At
<1>4. ASSUME beliefCards' \in Seq(Cards), CardsFit', LiveCards' = {} \/ \E m \in LiveCards' : Current(m)'
      PROVE  BeliefInv'
  BY <1>0, <1>1, <1>2, <1>4 DEF BeliefInv, BeliefTypeOK
<1>5. CASE LiveCards = {}
  <2>1. GetCurrent = NoBelief
    BY <1>5, NoneIs
  <2>2. PICK b \in Beliefs : b = Fresh(o, mid, {})
    BY <1>0, FreshKind
  <2>3. /\ b.reviewed = second /\ b.id = mid
        /\ b.status = IF o.retract THEN "retracted" ELSE "active"
    BY <1>0, <2>2, FreshKind
  <2>4. Put1(b) /\ Outcome(GetCurrent, o, mid) = b
    BY <1>0, <1>1, <2>1, <2>2, Saves DEF Put1, Apply, Outcome
  <2>5. /\ beliefCards' \in Seq(Cards) /\ CardsFit'
        /\ b.status = "retracted" => LiveCards' = {}
        /\ b.status # "retracted" => \E m \in LiveCards' : Current(m)' /\ Held(m)' = b
    BY <1>0, <1>1, <1>5, <2>3, <2>4, PutFirst
  <2>6. BeliefInv'
    BY <1>4, <2>5
  <2> QED
    BY <1>1, <2>1, <2>3, <2>4, <2>5, <2>6, NextCurrent
<1>6. CASE LiveCards # {}
  <2>1. PICK k \in LiveCards : Current(k)
    BY <1>6 DEF BeliefInv
  <2>2. PICK h \in Beliefs : h = Held(k) /\ h = GetCurrent
    BY <2>1, CurrentCard
  <2>3. h # NoBelief /\ h.status # "stale" /\ h.id <= observed /\ h.id \in Nat
    BY <1>0, <2>1, <2>2, BeliefKinds, CardParts DEF Current, Beliefs
  <2>4. h.status # "retracted"
    <3>1. beliefCards[k] = CardOf(h)
      BY <2>1, <2>2 DEF LiveCards, BeliefInv, CardsFit
    <3>2. ~beliefCards[k].retracts
      BY <2>1 DEF LiveCards
    <3>3. CardOf(h).retracts <=> h.status = "retracted"
      BY DEF CardOf
    <3> QED
      BY <3>1, <3>2, <3>3
  <2>5. CASE o.retract
    <3>1. PICK b \in Beliefs : b = Retracted(h, mid)
      BY <1>0, Revised DEF VersionOf
    <3>2. b.reviewed = second /\ b.id = h.id /\ b.status = "retracted"
      <4>1. VersionOf(h, b) /\ b.status = "retracted"
        BY <1>0, <3>1, Revised
      <4> QED
        BY <4>1 DEF VersionOf
    <3>3. Put1(b)
      BY <1>0, <1>1, <2>2, <2>3, <2>5, <3>1, Saves DEF Put1, Apply
    <3>4. beliefCards' \in Seq(Cards) /\ CardsFit' /\ Current(k)' /\ Held(k)' = Held(k)
      BY <1>0, <1>1, <1>3, <2>1, <2>3, <3>2, <3>3, PutAside
    <3>5. BeliefInv' /\ k \in LiveCards'
      BY <1>4, <3>4 DEF Current
    <3> QED
      BY <2>2, <2>5, <3>4, <3>5, NextCurrent
  <2>6. ASSUME ~o.retract, NEW b \in Beliefs, b.reviewed = second, b.id = h.id,
               b.status \notin {"stale", "retracted"}, Apply(h, o, mid) = <<b>>
        PROVE  BeliefInv' /\ GetCurrent' = Outcome(GetCurrent, o, mid)
    <3>1. Put1(b) /\ Outcome(h, o, mid) = b
      <4>1. WithSaved(<<b>>) = Append(beliefCards, CardOf(b))
        BY <1>0, Saves
      <4>2. <<b>>[Len(<<b>>)] = b
        OBVIOUS
      <4> QED
        BY <1>1, <2>2, <2>6, <4>1, <4>2 DEF Put1, Outcome
    <3>2. beliefCards' \in Seq(Cards) /\ CardsFit' /\ \E m \in LiveCards' : Current(m)' /\ Held(m)' = b
      <4>1. observed' \in Nat /\ observed <= observed' /\ b.id = Held(k).id
        BY <1>0, <1>1, <2>2, <2>6
      <4> QED
        BY <1>1, <1>3, <2>1, <2>6, <3>1, <4>1, PutCurrent
    <3>3. BeliefInv'
      BY <1>4, <3>2
    <3> QED
      BY <2>2, <3>1, <3>2, <3>3, NextCurrent
  <2>7. CASE ~o.retract /\ h.value = o.value
    <3>1. PICK b \in Beliefs : b = Reinforced(h, o, mid)
      BY <1>0, Revised DEF VersionOf
    <3>2. b.reviewed = second /\ b.id = h.id /\ b.status \notin {"stale", "retracted"}
      <4>1. VersionOf(h, b) /\ b.status \notin {"stale", "retracted"}
        BY <1>0, <2>3, <2>4, <3>1, Revised
      <4> QED
        BY <4>1 DEF VersionOf
    <3>3. Apply(h, o, mid) = <<b>>
      BY <2>3, <2>7, <3>1 DEF Apply
    <3> QED
      BY <1>1, <2>6, <2>7, <3>2, <3>3
  <2>8. CASE ~o.retract /\ h.value # o.value /\ ~Replaces(h, o)
    <3>1. PICK b \in Beliefs : b = Disputed(h, mid)
      BY <1>0, Revised DEF VersionOf
    <3>2. b.reviewed = second /\ b.id = h.id /\ b.status \notin {"stale", "retracted"}
      <4>1. VersionOf(h, b) /\ b.status = "disputed"
        BY <1>0, <3>1, Revised
      <4> QED
        BY <4>1 DEF VersionOf
    <3>3. Apply(h, o, mid) = <<b>>
      BY <2>3, <2>8, <3>1 DEF Apply
    <3> QED
      BY <1>1, <2>6, <2>8, <3>2, <3>3
  <2>9. CASE ~o.retract /\ h.value # o.value /\ Replaces(h, o)
    <3>1. PICK x \in Beliefs : x = Stale(h, mid)
      BY <1>0, Revised DEF VersionOf
    <3>2. x.reviewed = second /\ x.id = h.id /\ x.status = "stale" /\ h.support \in SUBSET Nat
      <4>1. VersionOf(h, x) /\ x.status = "stale" /\ h.support \in SUBSET Nat
        BY <1>0, <3>1, Revised
      <4> QED
        BY <4>1 DEF VersionOf
    <3>3. PICK y \in Beliefs : y = Fresh(o, mid, h.support)
      BY <1>0, <3>2, FreshKind
    <3>4. y.reviewed = second /\ y.id = mid /\ y.status = "active"
      BY <1>0, <2>9, <3>2, <3>3, FreshKind
    <3>5. Apply(h, o, mid) = <<x, y>>
      BY <2>3, <2>9, <3>1, <3>3 DEF Apply
    <3>6. /\ beliefCards' = Append(Append(beliefCards, CardOf(x)), CardOf(y))
          /\ Outcome(h, o, mid) = y
      <4>1. WithSaved(<<x, y>>) = Append(Append(beliefCards, CardOf(x)), CardOf(y))
        BY <1>0, Saves
      <4>2. <<x, y>>[Len(<<x, y>>)] = y
        OBVIOUS
      <4> QED
        BY <1>1, <2>2, <3>5, <4>1, <4>2 DEF Outcome
    <3>7. beliefCards' \in Seq(Cards) /\ CardsFit' /\ \E m \in LiveCards' : Current(m)' /\ Held(m)' = y
      BY <1>1, <1>3, <2>1, <2>2, <3>2, <3>4, <3>6, PutSuccessor
    <3>8. BeliefInv'
      BY <1>4, <3>7
    <3> QED
      BY <2>2, <2>9, <3>6, <3>7, <3>8, NextCurrent
  <2> QED
    BY <2>5, <2>7, <2>8, <2>9
<1> QED
  BY <1>5, <1>6

-----------------------------------------------------------------------------
\* Time passes, or nothing is put.
LEMMA SameCards ==
  ASSUME BeliefInv, beliefCards' = beliefCards, second' \in Nat, second <= second',
         observed' = observed
  PROVE  /\ beliefCards' \in Seq(Cards) /\ CardsFit'
         /\ LiveCards' = {} \/ \E m \in LiveCards' : Current(m)'
         /\ GetCurrent' = GetCurrent
<1>1. LiveCards' = LiveCards /\ GetCurrent' = GetCurrent
  BY DEF LiveCards, GetCurrent, FirstCard
<1>2. \A m : At(m)' = At(m) /\ Held(m)' = Held(m)
  BY DEF At, Held
<1>3. \A m : Current(m) => Current(m)'
  BY <1>1, <1>2 DEF Current
<1>4. CardsFit'
  <2> SUFFICES ASSUME NEW i \in DOMAIN beliefCards
               PROVE  /\ beliefCards[i] = CardOf(Held(i))
                      /\ At(i) <= second' /\ Held(i).id <= observed
    BY <1>2 DEF CardsFit
  <2>1. beliefCards[i] = CardOf(Held(i)) /\ At(i) <= second /\ Held(i).id <= observed
    BY DEF BeliefInv, CardsFit
  <2>2. At(i) \in Nat /\ second \in Nat
    BY CardParts
  <2> QED
    BY <2>1, <2>2
<1>5. beliefCards \in Seq(Cards) /\ (LiveCards = {} \/ \E m \in LiveCards : Current(m))
  BY DEF BeliefInv, BeliefTypeOK
<1> QED
  BY <1>1, <1>3, <1>4, <1>5

\* What a rating does to the cards.
LEMMA RateStep ==
  ASSUME BeliefInv, OncePerSecond, NEW id \in 1 .. MaxObs, NEW good \in BOOLEAN, Rate(id, good)
  PROVE  /\ BeliefInv'
         /\ \/ /\ GetCurrent \in Beliefs /\ GetCurrent.id = id
               /\ GetCurrent' = WithFeedback(GetCurrent, good, second)
            \/ GetCurrent.id # id /\ GetCurrent' = GetCurrent
<1>0. /\ beliefCards \in Seq(Cards) /\ second \in Nat /\ observed \in Nat
      /\ saved \in Beliefs \cup {NoBelief} /\ feedbacks \in Nat /\ id \in Nat /\ id # 0
  BY BeliefAssumption DEF BeliefInv, BeliefTypeOK
<1>1. /\ observed' = observed /\ second' = second /\ feedbacks' = feedbacks + 1
      /\ beliefCards' = IF GetById(id) = NoBelief THEN beliefCards
                        ELSE WithSaved(<<WithFeedback(GetById(id), good, second)>>)
  BY DEF Rate
<1>2. saved' \in Beliefs \cup {NoBelief}
  <2>1. CASE saved.id = id
    <3>1. saved \in Beliefs
      BY <1>0, <2>1 DEF NoBelief
    <3>2. WithFeedback(saved, good, second) \in Beliefs
      BY <1>0, <3>1, Rated
    <3> QED
      BY <2>1, <3>2 DEF Rate
  <2>2. CASE saved.id # id
    BY <1>0, <2>2 DEF Rate
  <2> QED
    BY <2>1, <2>2
<1>3. Fresher
  BY DEF Rate, Settled, Fresher, At
<1>4. ASSUME beliefCards' \in Seq(Cards), CardsFit', LiveCards' = {} \/ \E m \in LiveCards' : Current(m)'
      PROVE  BeliefInv'
  BY <1>0, <1>1, <1>2, <1>4 DEF BeliefInv, BeliefTypeOK
<1>5. CASE GetById(id) = NoBelief
  <2>1. second' \in Nat /\ second <= second' /\ beliefCards' = beliefCards
    BY <1>0, <1>1, <1>5
  <2>2. BeliefInv' /\ GetCurrent' = GetCurrent
    BY <1>1, <1>4, <2>1, SameCards
  <2>3. GetCurrent.id # id
    <3>1. CASE LiveCards = {}
      BY <1>0, <3>1, NoneIs DEF NoBelief
    <3>2. CASE LiveCards # {}
      <4>1. PICK k \in LiveCards : Current(k)
        BY <3>2 DEF BeliefInv
      <4>2. GetCurrent = Held(k) /\ Held(k) \in Beliefs /\ GetById(Held(k).id) = Held(k)
        BY <4>1, CurrentCard
      <4> QED
        BY <1>5, <4>2, BeliefKinds
    <3> QED
      BY <3>1, <3>2
  <2> QED
    BY <2>2, <2>3
<1>6. CASE GetById(id) # NoBelief
  <2>1. LiveCards # {}
    BY <1>6, NoCurrent
  <2>2. PICK k \in LiveCards : Current(k)
    BY <2>1 DEF BeliefInv
  <2>3. GetCurrent = Held(k) /\ Held(k) \in Beliefs /\ GetById(Held(k).id) = Held(k)
    BY <2>2, CurrentCard
  <2>4. ASSUME GetById(id) \in Beliefs
        PROVE  \E b \in Beliefs :
                 /\ b = WithFeedback(GetById(id), good, second) /\ Put1(b)
                 /\ b.reviewed = second /\ b.id = GetById(id).id /\ b.status = GetById(id).status
    <3>1. PICK h \in Beliefs : h = GetById(id)
      BY <2>4
    <3>2. PICK b \in Beliefs : b = WithFeedback(h, good, second)
      BY <1>0, Rated
    <3>3. b.reviewed = second /\ b.id = h.id /\ b.status = h.status
      BY <1>0, <3>2, Rated
    <3>4. WithSaved(<<b>>) = Append(beliefCards, CardOf(b))
      BY <1>0, Saves
    <3>5. Put1(b)
      BY <1>1, <1>6, <3>1, <3>2, <3>4 DEF Put1
    <3> QED
      BY <3>1, <3>2, <3>3, <3>5
  <2>5. CASE id = Held(k).id
    <3>1. PICK b \in Beliefs : /\ b = WithFeedback(Held(k), good, second) /\ Put1(b)
                               /\ b.reviewed = second /\ b.id = Held(k).id /\ b.status = Held(k).status
      BY <2>3, <2>4, <2>5
    <3>2. Held(k).status \notin {"stale", "retracted"}
      <4>1. beliefCards[k] = CardOf(Held(k)) /\ ~beliefCards[k].retracts
        BY <2>2 DEF LiveCards, BeliefInv, CardsFit
      <4>2. CardOf(Held(k)).retracts <=> Held(k).status = "retracted"
        BY DEF CardOf
      <4> QED
        BY <2>2, <4>1, <4>2 DEF Current
    <3>3. observed' \in Nat /\ observed <= observed'
      BY <1>0, <1>1
    <3>4. beliefCards' \in Seq(Cards) /\ CardsFit' /\ \E m \in LiveCards' : Current(m)' /\ Held(m)' = b
      BY <1>1, <1>3, <2>2, <3>1, <3>2, <3>3, PutCurrent
    <3>5. BeliefInv'
      BY <1>4, <3>4
    <3>6. GetCurrent' = b
      BY <3>4, <3>5, NextCurrent
    <3> QED
      BY <2>3, <2>5, <3>1, <3>5, <3>6
  <2>6. CASE id # Held(k).id
    <3>1. GetById(id) \in Beliefs /\ GetById(id).status = "stale" /\ GetById(id).id = id
      BY <1>6, <2>2, <2>6, OtherStale
    <3>2. PICK b \in Beliefs : /\ Put1(b)
                               /\ b.reviewed = second /\ b.id = id /\ b.status = "stale"
      BY <2>4, <3>1
    <3>3. observed' \in Nat /\ observed <= observed' /\ b.id <= observed'
      <4>1. \E i \in LiveCards : Held(i).id = id
        BY <1>6 DEF GetById, FirstCard, Held
      <4>2. id <= observed
        BY <4>1, CardParts
      <4> QED
        BY <1>0, <1>1, <3>2, <4>2
    <3>4. beliefCards' \in Seq(Cards) /\ CardsFit' /\ Current(k)' /\ Held(k)' = Held(k)
      BY <1>1, <1>3, <2>2, <2>6, <3>2, <3>3, PutAside
    <3>5. BeliefInv' /\ k \in LiveCards'
      BY <1>4, <3>4 DEF Current
    <3>6. GetCurrent' = GetCurrent
      BY <2>3, <3>4, <3>5, NextCurrent
    <3> QED
      BY <2>3, <2>6, <3>5, <3>6
  <2> QED
    BY <2>5, <2>6
<1> QED
  BY <1>5, <1>6

\* A second passes.
LEMMA SecondStep ==
  ASSUME BeliefInv, NextSecond PROVE BeliefInv' /\ GetCurrent' = GetCurrent /\ saved' = saved
<1>1. second \in Nat /\ second' = second + 1 /\ UNCHANGED <<beliefCards, saved, observed, feedbacks>>
  BY DEF NextSecond, BeliefInv, BeliefTypeOK
<1>2. second' \in Nat /\ second <= second'
  BY <1>1
<1>3. /\ beliefCards' \in Seq(Cards) /\ CardsFit' /\ GetCurrent' = GetCurrent
      /\ LiveCards' = {} \/ \E m \in LiveCards' : Current(m)'
  BY <1>1, <1>2, SameCards
<1> QED
  BY <1>1, <1>2, <1>3 DEF BeliefInv, BeliefTypeOK

LEMMA IdleStep ==
  ASSUME BeliefInv, UNCHANGED beliefVars PROVE BeliefInv' /\ GetCurrent' = GetCurrent /\ saved' = saved
<1>1. UNCHANGED <<beliefCards, saved, observed, feedbacks, second>>
  BY DEF beliefVars
<1>2. second' \in Nat /\ second <= second'
  BY <1>1 DEF BeliefInv, BeliefTypeOK
<1>3. /\ beliefCards' \in Seq(Cards) /\ CardsFit' /\ GetCurrent' = GetCurrent
      /\ LiveCards' = {} \/ \E m \in LiveCards' : Current(m)'
  BY <1>1, <1>2, SameCards
<1> QED
  BY <1>1, <1>2, <1>3 DEF BeliefInv, BeliefTypeOK

LEMMA BeliefInitHolds == ASSUME BeliefInit PROVE BeliefInv /\ GetCurrent = NoBelief
<1>1. beliefCards = <<>> /\ saved = NoBelief /\ observed = 0 /\ feedbacks = 0 /\ second = 1
  BY DEF BeliefInit
<1>2. LiveCards = {} /\ DOMAIN beliefCards = {}
  BY <1>1 DEF LiveCards
<1> QED
  BY <1>1, <1>2, NoneIs DEF BeliefInv, BeliefTypeOK, CardsFit

LEMMA BeliefStep ==
  ASSUME BeliefInv, OncePerSecond, [BeliefNext]_beliefVars PROVE BeliefInv'
<1>1. ASSUME NEW o \in Observations, Observe(o) PROVE BeliefInv'
  BY <1>1, ObserveStep
<1>2. ASSUME NEW id \in 1 .. MaxObs, NEW good \in BOOLEAN, Rate(id, good) PROVE BeliefInv'
  BY <1>2, RateStep
<1> QED
  BY <1>1, <1>2, SecondStep, IdleStep DEF BeliefNext

-----------------------------------------------------------------------------
\* With a second between the saves of a belief, one card is current: the last
\* live one that was not replaced, and the versions replaced stay behind it
\* (belief_updater.rs apply, memvid_store.rs update_belief).
THEOREM BeliefInvariant == OncePerSecond => (BeliefSpec => []BeliefInv)
<1> SUFFICES ASSUME OncePerSecond PROVE BeliefSpec => []BeliefInv
  OBVIOUS
<1>1. BeliefInit => BeliefInv
  BY BeliefInitHolds
<1>2. BeliefInv /\ [BeliefNext]_beliefVars => BeliefInv'
  BY BeliefStep
<1> QED
  BY <1>1, <1>2, PTL DEF BeliefSpec

\* A current value is followed only by a value of a source trusted more than any
\* that supports it, whatever is observed, retracted and rated (belief_updater.rs
\* should_replace).
LEMMA SucceedsStep ==
  ASSUME BeliefInv, OncePerSecond, [BeliefNext]_beliefVars PROVE Succeeds
<1> SUFFICES ASSUME GetCurrent # NoBelief, GetCurrent' # NoBelief,
                    GetCurrent'.value # GetCurrent.value
             PROVE  Strongest(GetCurrent') > Strongest(GetCurrent)
  BY DEF Succeeds
<1>0. PICK h \in Beliefs : h = GetCurrent
  <2>1. PICK k \in LiveCards : Current(k)
    BY NoneIs DEF BeliefInv
  <2> QED
    BY <2>1, CurrentCard
<1>1. second \in Nat /\ observed + 1 \in Nat \ {0}
  BY DEF BeliefInv, BeliefTypeOK
<1>2. ASSUME NEW o \in Observations, Observe(o)
      PROVE  Strongest(GetCurrent') > Strongest(GetCurrent)
  <2> PICK mid : mid = observed + 1
    OBVIOUS
  <2>1. ~o.retract /\ GetCurrent' = Outcome(h, o, mid)
    BY <1>0, <1>2, ObserveStep
  <2>2. VersionOf(h, Reinforced(h, o, mid)) /\ VersionOf(h, Disputed(h, mid))
    BY <1>1, Revised
  <2>3. \A x, y : <<x>>[Len(<<x>>)] = x /\ <<x, y>>[Len(<<x, y>>)] = y
    OBVIOUS
  <2>4. Replaces(h, o) /\ GetCurrent' = Fresh(o, mid, h.support)
    <3>1. \/ Outcome(h, o, mid) = Reinforced(h, o, mid) \/ Outcome(h, o, mid) = Disputed(h, mid)
          \/ Replaces(h, o) /\ Outcome(h, o, mid) = Fresh(o, mid, h.support)
      BY <1>0, <2>1, <2>3 DEF Outcome, Apply
    <3>2. Reinforced(h, o, mid).value = h.value /\ Disputed(h, mid).value = h.value
      BY <2>2 DEF VersionOf
    <3> QED
      BY <1>0, <2>1, <3>1, <3>2
  <2>5. Strongest(GetCurrent') = o.trust
    BY <2>4, FreshTrust
  <2> QED
    BY <1>0, <2>4, <2>5 DEF Replaces
<1>3. ASSUME NEW id \in 1 .. MaxObs, NEW good \in BOOLEAN, Rate(id, good) PROVE FALSE
  <2>1. GetCurrent' = WithFeedback(h, good, second)
    BY <1>0, <1>3, RateStep
  <2>2. WithFeedback(h, good, second).value = h.value
    BY <1>1, Rated
  <2> QED
    BY <1>0, <2>1, <2>2
<1> QED
  BY <1>2, <1>3, SecondStep, IdleStep DEF BeliefNext

THEOREM BeliefsSucceed == OncePerSecond => (BeliefSpec => NoSilentReplacement)
<1> SUFFICES ASSUME OncePerSecond PROVE BeliefSpec => NoSilentReplacement
  OBVIOUS
<1>1. BeliefInv /\ [BeliefNext]_beliefVars => [Succeeds]_beliefVars
  BY SucceedsStep
<1>2. BeliefSpec => []BeliefInv
  BY BeliefInvariant
<1> QED
  BY <1>1, <1>2, PTL DEF BeliefSpec, NoSilentReplacement

\* While nothing is retracted the store of cards answers as the store in memory,
\* which keeps the last version alone (memvid_store.rs get_current_belief, get_active_belief,
\* memory_store.rs InMemoryMemoryStore).
THEOREM StoresAgreeHolds ==
  OncePerSecond /\ (\A o \in Observations : ~o.retract) => (BeliefSpec => []StoresAgree)
<1> SUFFICES ASSUME OncePerSecond, \A o \in Observations : ~o.retract
             PROVE  BeliefSpec => []StoresAgree
  OBVIOUS
<1> DEFINE Agreed == BeliefInv /\ GetCurrent = saved
<1>1. BeliefInit => Agreed
  BY BeliefInitHolds DEF BeliefInit
<1>2. Agreed /\ [BeliefNext]_beliefVars => Agreed'
  <2> SUFFICES ASSUME BeliefInv, GetCurrent = saved, [BeliefNext]_beliefVars
               PROVE  BeliefInv' /\ GetCurrent' = saved'
    OBVIOUS
  <2>1. ASSUME NEW o \in Observations, Observe(o) PROVE BeliefInv' /\ GetCurrent' = saved'
    <3>1. BeliefInv' /\ GetCurrent' = Outcome(GetCurrent, o, observed + 1)
      BY <2>1, ObserveStep
    <3>2. saved' = Outcome(saved, o, observed + 1)
      BY <2>1 DEF Observe, Outcome
    <3> QED
      BY <3>1, <3>2
  <2>2. ASSUME NEW id \in 1 .. MaxObs, NEW good \in BOOLEAN, Rate(id, good)
        PROVE  BeliefInv' /\ GetCurrent' = saved'
    <3>1. saved' = IF saved.id = id THEN WithFeedback(saved, good, second) ELSE saved
      BY <2>2 DEF Rate
    <3> QED
      BY <2>2, <3>1, RateStep
  <2> QED
    BY <2>1, <2>2, SecondStep, IdleStep DEF BeliefNext
<1>3. Agreed => StoresAgree
  BY DEF StoresAgree, GetActive, LastActive
<1> QED
  BY <1>1, <1>2, <1>3, PTL DEF BeliefSpec

-----------------------------------------------------------------------------
(* The active belief outranks what is found with it (MemoryRetrieval). *)

CONSTANTS Worlds, TopKs, Today
VARIABLES recallAsk, recallGot

Recall == INSTANCE MemoryRetrieval

\* What is kept with a memory about how sure and how close it is are shares.
Share(x) == x \in Int /\ 0 <= x /\ x <= 100
Measured(m) ==
  /\ Share(m.lex) /\ Share(m.confidence) /\ Share(m.salience) /\ Share(m.success) /\ Share(m.raw)
  /\ m.day \in Int

\* recency_signal stays between nothing and the height it falls from.
LEMMA FallBounded ==
  ASSUME NEW age \in Nat, NEW top \in Nat, NEW days \in Nat, days > 0
  PROVE  /\ Recall!Fall(top, days, age) \in Int
         /\ 0 <= Recall!Fall(top, days, age) /\ Recall!Fall(top, days, age) <= top
<1>1. \A d \in Nat : Recall!Most(0, top - d) \in 0 .. top
  BY DEF Recall!Most
<1>2. (age * 1000) \div days \in Nat
  OBVIOUS
<1> QED
  BY <1>1, <1>2 DEF Recall!Fall

LEMMA FreshBounded ==
  ASSUME NEW h, h.day \in Int, Today \in Int
  PROVE  Recall!Fresh(h) \in Int /\ 0 <= Recall!Fresh(h) /\ Recall!Fresh(h) <= 1100
<1> DEFINE age == Recall!Age(h)
<1>1. age \in Nat
  BY DEF Recall!Age, Recall!Most
<1>2. \/ Recall!Fresh(h) = Recall!Fall(1100, 21, age) \/ Recall!Fresh(h) = Recall!Fall(1000, 14, age)
      \/ Recall!Fresh(h) = Recall!Fall(250, 120, age) \/ Recall!Fresh(h) = Recall!Fall(180, 240, age)
      \/ Recall!Fresh(h) = Recall!Fall(120, 365, age) \/ Recall!Fresh(h) = 0
  BY DEF Recall!Fresh
<1> HIDE DEF age
<1>3. CASE Recall!Fresh(h) = Recall!Fall(1100, 21, age)
  <2>1. /\ Recall!Fall(1100, 21, age) \in Int
        /\ 0 <= Recall!Fall(1100, 21, age) /\ Recall!Fall(1100, 21, age) <= 1100
    BY <1>1, FallBounded
  <2> QED
    BY <1>3, <2>1
<1>4. CASE Recall!Fresh(h) = Recall!Fall(1000, 14, age)
  <2>1. /\ Recall!Fall(1000, 14, age) \in Int
        /\ 0 <= Recall!Fall(1000, 14, age) /\ Recall!Fall(1000, 14, age) <= 1000
    BY <1>1, FallBounded
  <2> QED
    BY <1>4, <2>1
<1>5. CASE Recall!Fresh(h) = Recall!Fall(250, 120, age)
  <2>1. /\ Recall!Fall(250, 120, age) \in Int
        /\ 0 <= Recall!Fall(250, 120, age) /\ Recall!Fall(250, 120, age) <= 250
    BY <1>1, FallBounded
  <2> QED
    BY <1>5, <2>1
<1>6. CASE Recall!Fresh(h) = Recall!Fall(180, 240, age)
  <2>1. /\ Recall!Fall(180, 240, age) \in Int
        /\ 0 <= Recall!Fall(180, 240, age) /\ Recall!Fall(180, 240, age) <= 180
    BY <1>1, FallBounded
  <2> QED
    BY <1>6, <2>1
<1>7. CASE Recall!Fresh(h) = Recall!Fall(120, 365, age)
  <2>1. /\ Recall!Fall(120, 365, age) \in Int
        /\ 0 <= Recall!Fall(120, 365, age) /\ Recall!Fall(120, 365, age) <= 120
    BY <1>1, FallBounded
  <2> QED
    BY <1>7, <2>1
<1> QED
  BY <1>2, <1>3, <1>4, <1>5, <1>6, <1>7

\* The share of a number that a share is.
LEMMA Hundredths ==
  ASSUME NEW n \in Nat, NEW x \in Int, 0 <= x
  PROVE  /\ (n * x) \div 100 \in Int /\ 0 <= (n * x) \div 100
         /\ \A t \in Int : n * x < 100 * (t + 1) => (n * x) \div 100 <= t
<1> DEFINE y == n * x
<1>1. y \in Nat
  OBVIOUS
<1> HIDE DEF y
<1>2. /\ y \div 100 \in Int /\ 0 <= y \div 100
      /\ \A t \in Int : y < 100 * (t + 1) => y \div 100 <= t
  BY <1>1
<1> QED
  BY <1>2 DEF y

LEMMA SignalsBounded ==
  ASSUME NEW h, h.day \in Int, Today \in Int, h.goal = 0, h.self = 0, h.against = 0,
         h.content \in Int, 0 <= h.content, h.content <= 165, Share(h.salience), Share(h.evidence), Share(h.success)
  PROVE  /\ Recall!Signals(h) \in Int /\ Recall!Signals(h) >= 9 * h.content
         /\ Recall!Signals(h) <= 3305
<1> DEFINE fresh == (45 * Recall!Fresh(h)) \div 100
           salient == (225 * h.salience) \div 100
<1>1. fresh \in Int /\ 0 <= fresh /\ fresh <= 495
  <2>1. Recall!Fresh(h) \in Int /\ 0 <= Recall!Fresh(h) /\ Recall!Fresh(h) <= 1100
    BY FreshBounded
  <2>2. 45 * Recall!Fresh(h) < 100 * (495 + 1)
    BY <2>1
  <2> QED
    BY <2>1, <2>2, Hundredths
<1>2. salient \in Int /\ 0 <= salient /\ salient <= 225
  <2>1. h.salience \in Int /\ 0 <= h.salience /\ 225 * h.salience < 100 * (225 + 1)
    BY DEF Share
  <2> QED
    BY <2>1, Hundredths
<1>3. Recall!Signals(h) = 9 * h.content + 4 * 0 + 4 * 0 + salient + 5 * h.evidence - 10 * 0 + fresh + 6 * h.success
  BY DEF Recall!Signals
<1> HIDE DEF fresh, salient
<1> QED
  BY <1>1, <1>2, <1>3 DEF Share

LEMMA HeldScore ==
  ASSUME NEW q, q.intent = "current_fact", q.slot # "none", Today \in Int,
         NEW b, Measured(b), b.slot = q.slot, b.status = "active"
  PROVE  Recall!Score(q, Recall!HeldHit(q, b)) \in Int /\ Recall!Score(q, Recall!HeldHit(q, b)) >= 5285
<1> DEFINE h == Recall!HeldHit(q, b)
<1>1. /\ h.layer = "belief" /\ h.held /\ h.role = "direct" /\ h.expired = FALSE /\ h.status = "active"
      /\ h.content = b.lex + 65 /\ h.goal = 0 /\ h.self = 0 /\ h.salience = 0 /\ h.against = 0
      /\ h.evidence = b.confidence /\ h.success = b.success /\ h.day = b.day
  <2>1. Recall!Alignment(q, b) = b.lex + 65
    BY DEF Recall!Alignment, Measured, Share
  <2>2. Recall!GoalRelevance(q, b) = 0 /\ Recall!SelfRelevance(q, b, "direct") = 0
    BY DEF Recall!GoalRelevance, Recall!SelfRelevance
  <2> QED
    BY <2>1, <2>2 DEF Recall!HeldHit, Recall!Hit
<1>2. Recall!Fresh(h) \in Int /\ 0 <= Recall!Fresh(h)
  BY <1>1, FreshBounded DEF Measured
<1> HIDE DEF h
<1>3. /\ Recall!LayerBonus(q, h) = 2800 /\ Recall!RoleBonus(h) = 550
      /\ Recall!BeliefBonus(q, h) = 1350 /\ Recall!StatusBonus(h) = 0
  BY <1>1 DEF Recall!LayerBonus, Recall!LayerBonuses, Recall!RoleBonus, Recall!BeliefBonus, Recall!StatusBonus
<1>4. Recall!Signals(h) \in Int /\ Recall!Signals(h) >= 585
  BY <1>1, SignalsBounded DEF Measured, Share
<1>5. Recall!Score(q, h) = 4700 + Recall!Signals(h)
  BY <1>1, <1>3, <1>4 DEF Recall!Score
<1> QED
  BY <1>4, <1>5 DEF h

LEMMA OtherScore ==
  ASSUME NEW q, q.intent = "current_fact", Today \in Int,
         NEW h, ~h.held, h.role \in {"support", "archive"}, h.day \in Int,
         h.content \in Int, 0 <= h.content, h.content <= 165, h.goal = 0, h.self = 0, h.against = 0, Share(h.salience),
         Share(h.evidence), Share(h.success)
  PROVE  Recall!Score(q, h) \in Int /\ Recall!Score(q, h) <= 4805
<1>1. Recall!Fresh(h) \in Int /\ 0 <= Recall!Fresh(h) /\ Recall!Fresh(h) <= 1100
  BY FreshBounded
<1>2. Recall!RoleBonus(h) \in {150, -150} /\ Recall!BeliefBonus(q, h) = 0
  BY DEF Recall!RoleBonus, Recall!BeliefBonus
<1>3. /\ Recall!LayerBonus(q, h) \in {1350, 450, -800, -300, 0}
      /\ h.layer = "goal" => Recall!LayerBonus(q, h) = 0
  BY DEF Recall!LayerBonus, Recall!LayerBonuses
<1>4. /\ Recall!StatusBonus(h) \in {800, 350, -1200, -1500, -4000, 0}
      /\ h.layer # "goal" => Recall!StatusBonus(h) \in {-1500, -4000, 0}
  BY DEF Recall!StatusBonus
<1>5. Recall!Signals(h) \in Int /\ Recall!Signals(h) <= 3305
  BY SignalsBounded
<1>6. Recall!LayerBonus(q, h) + Recall!StatusBonus(h) <= 1350
  BY <1>3, <1>4
<1> QED
  BY <1>2, <1>3, <1>4, <1>5, <1>6 DEF Recall!Score

\* Whatever an agent memory holds with the active belief of a slot: a question
\* about what is now ranks the belief above every memory that supports the
\* answer, and above every one found in the archive by a score that is a share.
THEOREM BeliefOutranks ==
  ASSUME NEW q, q.intent = "current_fact", q.slot # "none", Today \in Int,
         NEW b, Measured(b), b.slot = q.slot, b.status = "active",
         NEW m, Measured(m)
  PROVE  /\ Recall!Score(q, Recall!Hit(q, m, "support")) < Recall!Score(q, Recall!HeldHit(q, b))
         /\ Recall!Score(q, Recall!ArchiveHit(q, m)) < Recall!Score(q, Recall!HeldHit(q, b))
<1>1. ASSUME NEW h, h \in {Recall!Hit(q, m, "support"), Recall!ArchiveHit(q, m)}
      PROVE  Recall!Score(q, h) \in Int /\ Recall!Score(q, h) <= 4805
  <2>1. /\ ~h.held /\ h.role \in {"support", "archive"}
        /\ h.day \in Int /\ h.goal = 0 /\ h.self = 0 /\ h.against = 0
        /\ Share(h.salience) /\ Share(h.evidence) /\ Share(h.success)
    BY <1>1 DEF Recall!Hit, Recall!ArchiveHit, Recall!GoalRelevance, Recall!SelfRelevance, Measured
  <2>2. Recall!Alignment(q, m) \in Int /\ 0 <= Recall!Alignment(q, m) /\ Recall!Alignment(q, m) <= 165
    BY DEF Recall!Alignment, Measured, Share
  <2>3. h.content \in Int /\ 0 <= h.content /\ h.content <= 165
    BY <1>1, <2>2 DEF Recall!Hit, Recall!ArchiveHit, Recall!Most, Measured, Share
  <2> QED
    BY <2>1, <2>3, OtherScore
<1>2. Recall!Score(q, Recall!HeldHit(q, b)) \in Int /\ Recall!Score(q, Recall!HeldHit(q, b)) >= 5285
  BY HeldScore
<1> QED
  BY <1>1, <1>2
=============================================================================
