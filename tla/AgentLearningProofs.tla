------------------------- MODULE AgentLearningProofs -------------------------
(***************************************************************************)
(* What an agent memory learns is kept, for any number of memories,        *)
(* operations, seeds and days: the outcomes and retrievals accepted for a  *)
(* memory are in the memory that is read back, though versions and touches *)
(* are written in two steps, cached and lost by crashes (AgentVersions);   *)
(* and a procedure counts no outcome that nobody reported                  *)
(* (AgentProcedures).                                                      *)
(***************************************************************************)
EXTENDS AgentVersions, AgentProcedures, FiniteSetTheorems, WellFoundedInduction, TLAPS

\* Finite sets of numbers.
LEMMA Minimum ==
  ASSUME NEW T, T \subseteq Nat, T # {} PROVE \E x \in T : \A y \in T : x <= y
<1> DEFINE R == OpToRel(<, Nat)
<1>1. IsWellFoundedOn(R, Nat)
  BY NatLessThanWellFounded
<1> HIDE DEF R
<1>2. PICK x \in T : \A y \in T : ~ (<<y, x>> \in R)
  BY <1>1, WFMin
<1>3. \A y \in T : ~ (y < x)
  BY <1>2 DEF R, OpToRel
<1> QED
  BY <1>3

LEMMA LastOf ==
  ASSUME NEW n \in Nat, NEW T \in SUBSET (1 .. n), T # {}
  PROVE  \E x \in T : \A y \in T : y <= x
<1> DEFINE U == {n - x : x \in T}
<1>0. \A x \in T : n - x \in Nat
  OBVIOUS
<1>1. U \subseteq Nat /\ U # {}
  BY <1>0
<1>2. PICK u \in U : \A v \in U : u <= v
  BY <1>1, Minimum
<1>3. PICK x \in T : u = n - x
  OBVIOUS
<1>4. \A y \in T : n - x <= n - y
  BY <1>2, <1>3
<1> QED
  BY <1>4

-----------------------------------------------------------------------------
(* Versions of memories. *)

Kinds == {"memory", "touch", "expiry"}
Frames == [kind : Kinds, id : Memories, at : Nat, stored : Nat, count : Nat, seen : Nat, rated : Nat]
Touches == [seen : Int, count : Nat]

VersionTypeOK ==
  /\ versions \in Seq(Frames)
  /\ carded \subseteq DOMAIN versions
  /\ writing \subseteq DOMAIN versions
  /\ touchCache \in [Memories -> Touches]
  /\ moment \in Nat \ {0}
  /\ accepted \in [Memories -> [rated : Nat, recalled : Nat]]

\* Frames of a kind about a memory are dated in the order they were written.
Ordered ==
  \A i, j \in DOMAIN versions :
    i < j /\ versions[i].kind = versions[j].kind /\ versions[i].id = versions[j].id =>
      versions[i].at < versions[j].at

\* Nothing was written or seen later than now.
Dated == \A i \in DOMAIN versions : versions[i].at < moment /\ versions[i].seen < moment

\* A cached touch is the one that is carded.
CacheTrue == \A id \in Memories : touchCache[id] # Unread => touchCache[id] = CardedTouch(id)

\* The frames under way are behind the carded ones, one for a memory.
Behind == \A i \in carded, j \in writing : i < j
OneEach == \A i, j \in writing : versions[i].id = versions[j].id => i = j

\* A memory as its cards have it.
NewestMemory(id) == NewestOf(CardedOf("memory", id))
CardedMemory(id) == WithTouch(NewestMemory(id), CardedTouch(id))

\* A stored memory has every outcome and retrieval accepted for it; of another
\* there is none.
Kept(id) ==
  IF Stored(id)
  THEN /\ CardedMemory(id).rated >= accepted[id].rated
       /\ CardedMemory(id).count = accepted[id].recalled
  ELSE CardedOf("touch", id) = {} /\ accepted[id] = [rated |-> 0, recalled |-> 0]

\* What the frame under way is made from is still what its memory says.
NextVersion(f) ==
  IF Stored(f.id)
  THEN /\ f.rated = CardedMemory(f.id).rated + 1
       /\ f.count = CardedMemory(f.id).count
       /\ f.seen >= CardedTouch(f.id).seen
  ELSE f.rated = 0 /\ f.count = 0 /\ f.seen = 0
NextTouch(f) ==
  /\ Stored(f.id)
  /\ f.count = CardedMemory(f.id).count + 1
  /\ f.seen > NewestMemory(f.id).seen
Follows(f) == (f.kind = "memory" => NextVersion(f)) /\ (f.kind = "touch" => NextTouch(f))

\* The inductive invariant of the versions.
VersionInv ==
  /\ VersionTypeOK /\ Ordered /\ Dated /\ CacheTrue /\ Behind /\ OneEach
  /\ \A id \in Memories : Kept(id)
  /\ \A i \in writing : Follows(versions[i])

\* The newest of some frames in the order of their dates is the last of them.
LEMMA NewestIsLast ==
  ASSUME NEW vs, NEW cards, NEW last \in cards, cards \subseteq Nat,
         \A i \in cards : vs[i].at \in Nat,
         \A i, j \in cards : i < j => vs[i].at < vs[j].at,
         \A i \in cards : i <= last
  PROVE  vs[CHOOSE i \in cards : \A j \in cards :
              /\ ~MemoryIsNewer(vs[j], vs[i])
              /\ j < i => MemoryIsNewer(vs[i], vs[j])] = vs[last]
<1> DEFINE Best(i) == \A j \in cards : /\ ~MemoryIsNewer(vs[j], vs[i])
                                       /\ j < i => MemoryIsNewer(vs[i], vs[j])
<1>1. Best(last)
  BY DEF MemoryIsNewer
<1>2. \A i \in cards : Best(i) => i = last
  <2> SUFFICES ASSUME NEW i \in cards, Best(i), i # last PROVE FALSE
    OBVIOUS
  <2>1. i < last
    OBVIOUS
  <2>2. vs[i].at < vs[last].at /\ vs[i].at \in Nat /\ vs[last].at \in Nat
    BY <2>1
  <2> QED
    BY <2>2 DEF MemoryIsNewer
<1> DEFINE chosen == CHOOSE i \in cards : Best(i)
<1>3. chosen \in cards /\ Best(chosen)
  BY <1>1
<1>4. chosen = last
  BY <1>2, <1>3
<1> QED
  BY <1>4

\* The cards of a kind about a memory, and the one that counts.
LEMMA CardsAre ==
  ASSUME VersionTypeOK, Ordered, NEW kind, NEW id
  PROVE  /\ CardedOf(kind, id) \subseteq 1 .. Len(versions)
         /\ \A last \in CardedOf(kind, id) :
              (\A i \in CardedOf(kind, id) : i <= last) => NewestOf(CardedOf(kind, id)) = versions[last]
         /\ CardedOf(kind, id) # {} =>
              \E last \in CardedOf(kind, id) : \A i \in CardedOf(kind, id) : i <= last
<1> DEFINE cards == CardedOf(kind, id)
<1>1. cards \subseteq 1 .. Len(versions) /\ Len(versions) \in Nat
  BY DEF VersionTypeOK, CardedOf
<1>2. \A i \in cards : versions[i] \in Frames /\ versions[i].kind = kind /\ versions[i].id = id
                       /\ i \in DOMAIN versions
  BY DEF VersionTypeOK, CardedOf
<1>3. \A i \in cards : versions[i].at \in Nat
  BY <1>2 DEF Frames
<1>4. \A i, j \in cards : i < j => versions[i].at < versions[j].at
  BY <1>2 DEF Ordered
<1>5. cards \subseteq Nat
  BY <1>1
<1> HIDE DEF cards
<1>6. ASSUME NEW last \in cards, \A i \in cards : i <= last
      PROVE  NewestOf(cards) = versions[last]
  <2> DEFINE vs == versions
  <2>1. /\ \A i \in cards : vs[i].at \in Nat
        /\ \A i, j \in cards : i < j => vs[i].at < vs[j].at
    BY <1>3, <1>4
  <2>2. NewestOf(cards) = vs[CHOOSE i \in cards : \A j \in cards :
              /\ ~MemoryIsNewer(vs[j], vs[i])
              /\ j < i => MemoryIsNewer(vs[i], vs[j])]
    BY DEF NewestOf
  <2> HIDE DEF vs
  <2>3. NewestOf(cards) = vs[last]
    BY <1>5, <1>6, <2>1, <2>2, NewestIsLast
  <2> QED
    BY <2>3 DEF vs
<1>7. cards # {} => \E last \in cards : \A i \in cards : i <= last
  BY <1>1, LastOf
<1> QED
  BY <1>1, <1>6, <1>7 DEF cards

LastCounts ==
  \A kind, id : \A last \in CardedOf(kind, id) :
    (\A i \in CardedOf(kind, id) : i <= last) => NewestOf(CardedOf(kind, id)) = versions[last]

LEMMA CardsLast == VersionTypeOK /\ Ordered => LastCounts
  BY CardsAre DEF LastCounts

LEMMA NewestFrame ==
  ASSUME VersionTypeOK, Ordered, NEW kind, NEW id, CardedOf(kind, id) # {}
  PROVE  NewestOf(CardedOf(kind, id)) \in Frames
<1>1. PICK last \in CardedOf(kind, id) : NewestOf(CardedOf(kind, id)) = versions[last]
  BY CardsAre
<1> QED
  BY <1>1 DEF VersionTypeOK, CardedOf

\* The touch that counts, and what it makes of a version.
LEMMA TouchFields ==
  ASSUME VersionTypeOK, Ordered, NEW id
  PROVE  CardedTouch(id) \in [seen : Nat, count : Nat]
<1>1. CASE CardedOf("touch", id) = {}
  BY <1>1 DEF CardedTouch, NoTouch
<1>2. CASE CardedOf("touch", id) # {}
  <2>1. NewestOf(CardedOf("touch", id)) \in Frames
    BY <1>2, NewestFrame
  <2> QED
    BY <1>2, <2>1 DEF CardedTouch, TouchOf, Frames
<1> QED
  BY <1>1, <1>2

LEMMA TouchedFields ==
  ASSUME NEW f \in Frames, NEW t \in [seen : Nat, count : Nat]
  PROVE  /\ WithTouch(f, t).rated = f.rated /\ WithTouch(f, t).stored = f.stored
         /\ WithTouch(f, t).count = (IF t.seen > f.seen THEN t.count ELSE f.count)
         /\ WithTouch(f, t).seen = (IF t.seen > f.seen THEN t.seen ELSE f.seen)
<1>1. CASE t.seen > f.seen
  <2> DEFINE at == Max({f.at, t.seen})
  <2>1. WithTouch(f, t) = [f EXCEPT !.count = t.count, !.seen = t.seen, !.at = at]
    BY <1>1 DEF WithTouch
  <2> HIDE DEF at
  <2> QED
    BY <1>1, <2>1 DEF Frames
<1>2. CASE ~(t.seen > f.seen)
  BY <1>2 DEF WithTouch
<1> QED
  BY <1>1, <1>2

\* A memory is read as its cards have it, whatever is cached.
LEMMA ReadAsCarded ==
  ASSUME CacheTrue, NEW id \in Memories
  PROVE  LatestTouch(id) = CardedTouch(id) /\ GetMemory(id) = CardedMemory(id)
  BY DEF CacheTrue, LatestTouch, GetMemory, CardedMemory, NewestMemory

LEMMA MemoryFields ==
  ASSUME VersionTypeOK, Ordered, Dated, NEW id \in Memories, Stored(id)
  PROVE  /\ CardedMemory(id).rated \in Nat /\ CardedMemory(id).count \in Nat
         /\ CardedMemory(id).stored \in Nat /\ CardedMemory(id).seen \in Nat
         /\ CardedMemory(id).seen >= CardedTouch(id).seen
         /\ CardedMemory(id).seen < moment
         /\ NewestMemory(id).seen < moment
         /\ NewestMemory(id) \in Frames /\ CardedTouch(id) \in [seen : Nat, count : Nat]
<1>1. PICK last \in CardedOf("memory", id) : NewestMemory(id) = versions[last]
  BY CardsAre DEF Stored, NewestMemory
<1>2. NewestMemory(id) \in Frames /\ NewestMemory(id).seen < moment
  BY <1>1 DEF VersionTypeOK, CardedOf, Dated
<1>3. CardedTouch(id) \in [seen : Nat, count : Nat]
  BY TouchFields
<1>4. CardedTouch(id).seen < moment
  <2>1. CASE CardedOf("touch", id) = {}
    BY <2>1 DEF CardedTouch, NoTouch, VersionTypeOK
  <2>2. CASE CardedOf("touch", id) # {}
    <3>1. PICK t \in CardedOf("touch", id) : NewestOf(CardedOf("touch", id)) = versions[t]
      BY <2>2, CardsAre
    <3>2. versions[t].seen < moment
      BY <3>1 DEF VersionTypeOK, CardedOf, Dated
    <3> QED
      BY <2>2, <3>1, <3>2 DEF CardedTouch, TouchOf
  <2> QED
    BY <2>1, <2>2
<1> DEFINE f == NewestMemory(id)
           t == CardedTouch(id)
<1>5. CardedMemory(id) = WithTouch(f, t)
  BY DEF CardedMemory
<1>6. f \in Frames /\ t \in [seen : Nat, count : Nat] /\ f.seen < moment /\ t.seen < moment
  BY <1>2, <1>3, <1>4
<1> HIDE DEF f, t
<1>7. /\ CardedMemory(id).rated = f.rated /\ CardedMemory(id).stored = f.stored
      /\ CardedMemory(id).count = (IF t.seen > f.seen THEN t.count ELSE f.count)
      /\ CardedMemory(id).seen = (IF t.seen > f.seen THEN t.seen ELSE f.seen)
  BY <1>5, <1>6, TouchedFields
<1>8. /\ f.rated \in Nat /\ f.stored \in Nat /\ f.count \in Nat /\ f.seen \in Nat
      /\ t.seen \in Nat /\ t.count \in Nat
  BY <1>6 DEF Frames
<1> QED
  BY <1>6, <1>7, <1>8 DEF f, t

-----------------------------------------------------------------------------
(* A step that only adds frames leaves the carded ones as they are. *)

\* What the cards say of a memory is what it was.
SameCards(id) ==
  /\ (Stored(id))' = Stored(id)
  /\ (CardedOf("touch", id))' = CardedOf("touch", id)
  /\ Stored(id) => (NewestMemory(id))' = NewestMemory(id)
  /\ (CardedTouch(id))' = CardedTouch(id)
  /\ Stored(id) => (CardedMemory(id))' = CardedMemory(id)

\* Frames are only added behind those there are.
FramesStay ==
  /\ DOMAIN versions \subseteq DOMAIN versions'
  /\ \A i \in DOMAIN versions : versions'[i] = versions[i]

LEMMA NewestStays ==
  ASSUME VersionTypeOK, Ordered, VersionTypeOK', Ordered', FramesStay, NEW kind, NEW id,
         CardedOf(kind, id)' = CardedOf(kind, id), CardedOf(kind, id) # {}
  PROVE  NewestOf(CardedOf(kind, id))' = NewestOf(CardedOf(kind, id))
<1>1. PICK last \in CardedOf(kind, id) : \A i \in CardedOf(kind, id) : i <= last
  BY CardsAre
<1>2. NewestOf(CardedOf(kind, id)) = versions[last]
  BY <1>1, CardsAre
<1>3. last \in CardedOf(kind, id)' /\ \A i \in CardedOf(kind, id)' : i <= last
  BY <1>1
<1>4. LastCounts'
  BY CardsLast, PTL
<1>5. NewestOf(CardedOf(kind, id))' = versions'[last]
  BY <1>3, <1>4 DEF LastCounts
<1>6. versions'[last] = versions[last]
  BY <1>1 DEF FramesStay, CardedOf, VersionTypeOK
<1> QED
  BY <1>2, <1>5, <1>6

LEMMA CardsStay ==
  ASSUME VersionTypeOK, Ordered, VersionTypeOK', Ordered', FramesStay, UNCHANGED carded, NEW id
  PROVE  SameCards(id)
<1>1. \A kind : CardedOf(kind, id)' = CardedOf(kind, id)
  BY DEF CardedOf, FramesStay, VersionTypeOK
<1>2. \A kind : CardedOf(kind, id) # {} =>
        NewestOf(CardedOf(kind, id))' = NewestOf(CardedOf(kind, id))
  BY <1>1, NewestStays
<1>3. (Stored(id))' = Stored(id)
  BY <1>1 DEF Stored
<1>4. Stored(id) => (NewestMemory(id))' = NewestMemory(id)
  BY <1>2 DEF Stored, NewestMemory
<1>5. (CardedTouch(id))' = CardedTouch(id)
  <2>1. CASE CardedOf("touch", id) = {}
    BY <2>1, <1>1 DEF CardedTouch
  <2>2. CASE CardedOf("touch", id) # {}
    <3>1. NewestOf(CardedOf("touch", id))' = NewestOf(CardedOf("touch", id))
      BY <2>2, <1>2
    <3> QED
      BY <2>2, <1>1, <3>1 DEF CardedTouch
  <2> QED
    BY <2>1, <2>2
<1>6. Stored(id) => (CardedMemory(id))' = CardedMemory(id)
  BY <1>4, <1>5 DEF CardedMemory
<1> QED
  BY <1>1, <1>3, <1>4, <1>5, <1>6 DEF SameCards

-----------------------------------------------------------------------------
(* Each step keeps the invariant. *)

\* A frame that a call may put: it follows from its memory and is dated now.
Fresh(f) == f \in Frames /\ f.at = moment /\ f.seen <= moment /\ Follows(f)

LEMMA InvParts ==
  ASSUME VersionInv
  PROVE  /\ VersionTypeOK /\ Ordered /\ Dated /\ CacheTrue /\ Behind /\ OneEach
         /\ \A id \in Memories : Kept(id)
         /\ \A i \in writing : Follows(versions[i])
         /\ versions \in Seq(Frames) /\ carded \subseteq DOMAIN versions
         /\ writing \subseteq DOMAIN versions /\ moment \in Nat /\ moment > 0
         /\ touchCache \in [Memories -> Touches]
         /\ accepted \in [Memories -> [rated : Nat, recalled : Nat]]
  BY DEF VersionInv, VersionTypeOK

\* What holds of a memory's cards goes on holding while they stay.
LEMMA KeptStays ==
  ASSUME NEW id, SameCards(id), accepted'[id] = accepted[id], Kept(id)
  PROVE  Kept(id)'
<1>1. CASE Stored(id)
  BY <1>1 DEF SameCards, Kept
<1>2. CASE ~Stored(id)
  BY <1>2 DEF SameCards, Kept
<1> QED
  BY <1>1, <1>2

LEMMA FollowsStays ==
  ASSUME NEW f, NEW i, versions'[i] = f, SameCards(f.id), Follows(f)
  PROVE  Follows(versions[i])'
<1>1. f.kind = "memory" => NextVersion(versions[i])'
  <2>1. CASE Stored(f.id)
    BY <2>1 DEF SameCards, Follows, NextVersion
  <2>2. CASE ~Stored(f.id)
    BY <2>2 DEF SameCards, Follows, NextVersion
  <2> QED
    BY <2>1, <2>2
<1>2. f.kind = "touch" => NextTouch(versions[i])'
  BY DEF SameCards, Follows, NextTouch
<1> QED
  BY <1>1, <1>2 DEF Follows

\* A call puts fresh frames, one for a memory.
LEMMA StartKeeps ==
  ASSUME VersionInv, Idle, NEW frames \in Seq(Frames), Started(frames),
         \A k \in DOMAIN frames : Fresh(frames[k]),
         \A k, l \in DOMAIN frames : frames[k].id = frames[l].id => k = l
  PROVE  VersionInv'
<1> DEFINE n == Len(versions)
<1>1. n \in Nat /\ Len(frames) \in Nat /\ DOMAIN versions = 1 .. n /\ DOMAIN frames = 1 .. Len(frames)
  BY InvParts
<1>2. /\ versions' \in Seq(Frames) /\ DOMAIN versions' = 1 .. (n + Len(frames))
      /\ \A i \in 1 .. n : versions'[i] = versions[i]
      /\ \A i \in n + 1 .. n + Len(frames) : i - n \in DOMAIN frames /\ versions'[i] = frames[i - n]
  BY <1>1, InvParts DEF Started
<1>3. /\ carded' = carded /\ touchCache' = touchCache /\ accepted' = accepted
      /\ moment' = moment + 1 /\ writing' = n + 1 .. n + Len(frames)
  BY DEF Started
<1> HIDE DEF n
<1>4. \A i \in writing' : /\ i \in DOMAIN versions' /\ i - n \in DOMAIN frames
                          /\ versions'[i] = frames[i - n] /\ Fresh(versions'[i])
  BY <1>1, <1>2, <1>3
<1>5. VersionTypeOK'
  <2>1. writing' \subseteq DOMAIN versions' /\ carded' \subseteq DOMAIN versions'
    BY <1>1, <1>2, <1>3, InvParts
  <2> QED
    BY <1>2, <1>3, <2>1, InvParts DEF VersionTypeOK
<1>6. Ordered'
  <2> SUFFICES ASSUME NEW i \in DOMAIN versions', NEW j \in DOMAIN versions', i < j,
                      versions'[i].kind = versions'[j].kind, versions'[i].id = versions'[j].id
               PROVE  versions'[i].at < versions'[j].at
    BY DEF Ordered
  <2>1. CASE j \in 1 .. n
    <3>1. i \in 1 .. n
      BY <1>1, <1>2, <2>1
    <3> QED
      BY <1>1, <1>2, <2>1, <3>1, InvParts DEF Ordered
  <2>2. CASE j \notin 1 .. n /\ i \in 1 .. n
    <3>1. j \in writing'
      BY <1>1, <1>2, <1>3, <2>2
    <3>2. versions'[j].at = moment
      BY <1>4, <3>1 DEF Fresh
    <3>3. versions'[i].at < moment
      BY <1>1, <1>2, <2>2, InvParts DEF Dated
    <3> QED
      BY <3>2, <3>3
  <2>3. CASE j \notin 1 .. n /\ i \notin 1 .. n
    <3>1. i \in writing' /\ j \in writing'
      BY <1>1, <1>2, <1>3, <2>3
    <3>2. i - n = j - n
      BY <1>4, <3>1
    <3>3. i = j
      BY <1>1, <1>2, <3>2
    <3> QED
      BY <3>3
  <2> QED
    BY <2>1, <2>2, <2>3
<1>7. Dated'
  <2> SUFFICES ASSUME NEW i \in DOMAIN versions'
               PROVE  versions'[i].at < moment' /\ versions'[i].seen < moment'
    BY DEF Dated
  <2>a. versions' \in Seq(Frames) /\ i \in DOMAIN versions'
    BY <1>2
  <2>b. versions'[i] \in Frames
    BY <2>a
  <2>0. versions'[i].at \in Nat /\ versions'[i].seen \in Nat /\ moment \in Nat
    BY <2>b, InvParts DEF Frames
  <2>1. CASE i \in 1 .. n
    <3>1. versions[i].at < moment /\ versions[i].seen < moment
      BY <1>1, <2>1, InvParts DEF Dated
    <3>2. versions'[i] = versions[i]
      BY <1>2, <2>1
    <3> QED
      BY <1>3, <2>0, <3>1, <3>2
  <2>2. CASE i \notin 1 .. n
    <3>1. Fresh(versions'[i])
      BY <1>1, <1>2, <1>3, <1>4, <2>2
    <3> QED
      BY <1>3, <2>0, <3>1 DEF Fresh
  <2> QED
    BY <2>1, <2>2
<1>8. FramesStay
  BY <1>1, <1>2 DEF FramesStay
<1>9. \A id : SameCards(id)
  BY <1>3, <1>5, <1>6, <1>8, CardsStay, InvParts
<1>10. CacheTrue'
  <2>1. \A id \in Memories : (CardedTouch(id))' = CardedTouch(id)
    BY <1>9 DEF SameCards
  <2> QED
    BY <1>3, <2>1, InvParts DEF CacheTrue
<1>11. Behind'
  BY <1>1, <1>3, InvParts DEF Behind
<1>12. OneEach'
  <2> SUFFICES ASSUME NEW i \in writing', NEW j \in writing', versions'[i].id = versions'[j].id
               PROVE  i = j
    BY DEF OneEach
  <2>1. i - n = j - n
    BY <1>4
  <2> QED
    BY <1>1, <1>2, <1>4, <2>1
<1>13. \A id \in Memories : Kept(id)'
  BY <1>3, <1>9, KeptStays, InvParts
<1>14. \A i \in writing' : Follows(versions[i])'
  <2> TAKE i \in writing'
  <2> DEFINE f == frames[i - n]
  <2>1. versions'[i] = f /\ Follows(f)
    BY <1>4 DEF Fresh
  <2> HIDE DEF f
  <2> QED
    BY <1>9, <2>1, FollowsStays
<1> QED
  BY <1>5, <1>6, <1>7, <1>10, <1>11, <1>12, <1>13, <1>14 DEF VersionInv

LEMMA StartOne ==
  ASSUME VersionInv, MayStart, NEW f, Fresh(f), Started(<<f>>)
  PROVE  VersionInv'
<1> DEFINE frames == <<f>>
<1>1. DOMAIN <<f>> = {1} /\ <<f>>[1] = f /\ f \in Frames
  BY DEF Fresh
<1>2. frames \in Seq(Frames) /\ DOMAIN frames = {1} /\ frames[1] = f
  BY <1>1
<1>3. Started(frames) /\ Idle
  BY DEF MayStart
<1> HIDE DEF frames
<1> QED
  BY <1>2, <1>3, StartKeeps

LEMMA PutStep ==
  ASSUME VersionInv, PutMemory PROVE VersionInv'
<1>1. PICK id \in Memories : /\ MayStart /\ ~Stored(id)
                             /\ Started(<<VersionFrame(id, moment, moment, 0, 0, 0)>>)
  BY DEF PutMemory
<1> DEFINE f == VersionFrame(id, moment, moment, 0, 0, 0)
<1>2. f \in Frames /\ f.at = moment /\ f.seen <= moment /\ f.id = id /\ f.kind = "memory"
      /\ f.rated = 0 /\ f.count = 0 /\ f.seen = 0
  BY InvParts DEF VersionFrame, Frames, Kinds
<1>3. Started(<<f>>)
  BY <1>1
<1> HIDE DEF f
<1>4. Fresh(f)
  BY <1>1, <1>2 DEF Fresh, Follows, NextVersion
<1> QED
  BY <1>1, <1>3, <1>4, StartOne

\* An outcome is dated now when nobody reports late.
LEMMA FeedbackStep ==
  ASSUME ~LateReports, VersionInv, GiveFeedback PROVE VersionInv'
<1>1. PICK id \in Memories, at \in 0 .. moment :
        /\ MayStart /\ Stored(id) /\ at = moment
        /\ LET f == GetMemory(id)
           IN  Started(<<VersionFrame(id, at, f.stored, f.count, f.seen, f.rated + 1)>>)
  BY DEF GiveFeedback
<1> DEFINE g == CardedMemory(id)
<1>2. GetMemory(id) = g
  BY InvParts, ReadAsCarded
<1> DEFINE f == VersionFrame(id, moment, g.stored, g.count, g.seen, g.rated + 1)
<1>3. Started(<<f>>)
  BY <1>1, <1>2
<1>4. /\ g.rated \in Nat /\ g.count \in Nat /\ g.stored \in Nat /\ g.seen \in Nat
      /\ g.seen >= CardedTouch(id).seen /\ g.seen < moment
  BY <1>1, InvParts, MemoryFields
<1> HIDE DEF g
<1>5. f \in Frames /\ f.at = moment /\ f.seen = g.seen /\ f.id = id /\ f.kind = "memory"
      /\ f.rated = g.rated + 1 /\ f.count = g.count
  BY <1>4, InvParts DEF VersionFrame, Frames, Kinds
<1> HIDE DEF f
<1>6. NextVersion(f)
  BY <1>1, <1>4, <1>5 DEF NextVersion, g
<1>7. f.seen <= moment
  BY <1>4, <1>5, InvParts
<1>8. Fresh(f)
  BY <1>5, <1>6, <1>7 DEF Fresh, Follows
<1> QED
  BY <1>1, <1>3, <1>8, StartOne

\* The elements of a finite set, each at one place.
LEMMA EachOnce ==
  ASSUME NEW S, IsFiniteSet(S)
  PROVE  /\ SetToSeq(S) \in Seq(S)
         /\ \A k, l \in DOMAIN SetToSeq(S) : SetToSeq(S)[k] = SetToSeq(S)[l] => k = l
<1>1. Cardinality(S) \in Nat /\ ExistsBijection(1 .. Cardinality(S), S)
  BY FS_CardinalityType
<1>2. \E f \in [1 .. Cardinality(S) -> S] : IsInjective(f)
  BY <1>1 DEF ExistsBijection, Bijection, Injection
<1>3. SetToSeq(S) \in [1 .. Cardinality(S) -> S] /\ IsInjective(SetToSeq(S))
  BY <1>2 DEF SetToSeq
<1> QED
  BY <1>1, <1>3 DEF IsInjective

LEMMA RetrievedStep ==
  ASSUME VersionInv, Retrieved PROVE VersionInv'
<1>1. PICK hits \in SUBSET Searched :
        LET touched == SetToSeq({id \in hits : Stored(id) /\ ~IsExpired(id)})
        IN  /\ MayStart
            /\ Started([i \in DOMAIN touched |->
                  TouchFrame(touched[i], moment, GetMemory(touched[i]).count + 1)])
  BY DEF Retrieved
<1> DEFINE S == {id \in hits : Stored(id) /\ ~IsExpired(id)}
           touched == SetToSeq(S)
           frames == [i \in DOMAIN touched |->
                        TouchFrame(touched[i], moment, GetMemory(touched[i]).count + 1)]
<1>2. S \subseteq Memories /\ \A id \in S : Stored(id)
  BY DEF Searched
<1>3. IsFiniteSet(S)
  BY <1>2, FS_Subset, VersionAssumption
<1>4. MayStart /\ Started(frames)
  BY <1>1
<1> HIDE DEF S
<1>5. /\ touched \in Seq(S)
      /\ \A k, l \in DOMAIN touched : touched[k] = touched[l] => k = l
  BY <1>3, EachOnce
<1> HIDE DEF touched
<1>6. ASSUME NEW k \in DOMAIN touched
      PROVE  frames[k] \in Frames /\ frames[k].id = touched[k] /\ Fresh(frames[k])
  <2> DEFINE id == touched[k]
             count == CardedMemory(id).count
             f == TouchFrame(id, moment, count + 1)
  <2>1. id \in Memories /\ Stored(id)
    BY <1>2, <1>5
  <2> HIDE DEF id
  <2>2. frames[k] = f
    BY <2>1, InvParts, ReadAsCarded DEF id
  <2>3. count \in Nat /\ NewestMemory(id).seen < moment /\ moment \in Nat
        /\ NewestMemory(id) \in Frames
    BY <2>1, InvParts, MemoryFields
  <2> HIDE DEF count
  <2>4. f \in Frames /\ f.at = moment /\ f.seen = moment /\ f.id = id /\ f.kind = "touch"
        /\ f.count = count + 1
    BY <2>1, <2>3 DEF TouchFrame, Frames, Kinds
  <2>5. NewestMemory(id).seen \in Nat
    BY <2>3 DEF Frames
  <2> HIDE DEF f
  <2>6. NextTouch(f)
    BY <2>1, <2>3, <2>4, <2>5 DEF NextTouch, count
  <2>7. Fresh(f)
    BY <2>3, <2>4, <2>6 DEF Fresh, Follows
  <2> QED
    BY <2>2, <2>4, <2>7 DEF id
<1>7. frames \in Seq(Frames) /\ DOMAIN frames = DOMAIN touched
  <2>1. DOMAIN frames = DOMAIN touched /\ \A k \in DOMAIN frames : frames[k] \in Frames
    BY <1>6
  <2>2. DOMAIN touched = 1 .. Len(touched) /\ Len(touched) \in Nat
    BY <1>5
  <2>3. frames = [k \in 1 .. Len(touched) |-> frames[k]]
    BY <2>2
  <2> HIDE DEF frames
  <2> QED
    BY <2>1, <2>2, <2>3
<1> HIDE DEF frames
<1> QED
  BY <1>4, <1>5, <1>6, <1>7, StartKeeps DEF MayStart

LEMMA MaintainedStep ==
  ASSUME VersionInv, Maintained PROVE VersionInv'
<1>1. PICK id \in Memories : MayStart /\ Started(<<ExpiryFrame(id, moment)>>)
  BY DEF Maintained
<1> DEFINE f == ExpiryFrame(id, moment)
<1>2. f \in Frames /\ f.at = moment /\ f.seen <= moment /\ f.kind = "expiry"
  BY InvParts DEF ExpiryFrame, Frames, Kinds
<1>3. Started(<<f>>)
  BY <1>1
<1> HIDE DEF f
<1>4. Fresh(f)
  BY <1>2 DEF Fresh, Follows
<1> QED
  BY <1>1, <1>3, <1>4, StartOne

\* While the cards and the frames stay, so does what they say.
LEMMA SameFrames ==
  ASSUME VersionInv, UNCHANGED <<versions, carded, moment, accepted>>,
         touchCache' \in [Memories -> Touches], writing' \subseteq writing,
         \A id \in Memories : touchCache'[id] # Unread => touchCache'[id] = CardedTouch(id)
  PROVE  VersionInv'
<1>1. VersionTypeOK' /\ Ordered' /\ Dated'
  BY InvParts DEF VersionTypeOK, Ordered, Dated
<1>2. FramesStay
  BY DEF FramesStay
<1>3. \A id : SameCards(id)
  BY <1>1, <1>2, CardsStay, InvParts
<1>7. CacheTrue'
  BY <1>3 DEF CacheTrue, SameCards
<1>4. \A id \in Memories : Kept(id)'
  BY <1>3, KeptStays, InvParts
<1>5. \A i \in writing' : Follows(versions[i])'
  <2> TAKE i \in writing'
  <2> DEFINE f == versions[i]
  <2>1. f = versions'[i] /\ Follows(f)
    BY InvParts
  <2>2. PICK g : g = f /\ versions'[i] = g /\ Follows(g)
    BY <2>1
  <2> QED
    BY <1>3, <2>2, FollowsStays
<1>6. Behind' /\ OneEach'
  BY InvParts DEF Behind, OneEach
<1> QED
  BY <1>1, <1>7, <1>4, <1>5, <1>6 DEF VersionInv

LEMMA ReadStep ==
  ASSUME VersionInv, ReadTouch PROVE VersionInv'
<1>1. PICK id \in Memories : touchCache' = [touchCache EXCEPT ![id] = LatestTouch(id)]
  BY DEF ReadTouch
<1>2. LatestTouch(id) = CardedTouch(id) /\ CardedTouch(id) \in [seen : Nat, count : Nat]
  BY InvParts, ReadAsCarded, TouchFields
<1>3. UNCHANGED <<versions, carded, writing, moment, accepted>>
  BY DEF ReadTouch
<1>4. touchCache' \in [Memories -> Touches]
  BY <1>1, <1>2, InvParts DEF Touches
<1>5. \A d \in Memories : touchCache'[d] # Unread => touchCache'[d] = CardedTouch(d)
  BY <1>1, <1>2, InvParts DEF CacheTrue
<1> QED
  BY <1>3, <1>4, <1>5, SameFrames

LEMMA StopStep ==
  ASSUME VersionInv, Stop PROVE VersionInv'
<1>1. /\ UNCHANGED <<versions, carded, moment, accepted>> /\ writing' = {}
      /\ touchCache' = [id \in Memories |-> Unread]
  BY DEF Stop
<1>2. touchCache' \in [Memories -> Touches] /\ \A id \in Memories : touchCache'[id] = Unread
  BY <1>1 DEF Touches, Unread
<1> QED
  BY <1>1, <1>2, SameFrames

\* The frames a memory has under way: at most one.
Wrote(kind, id) == {i \in writing : versions[i].kind = kind /\ versions[i].id = id}

LEMMA CardOne ==
  ASSUME VersionInv, WriteCards, VersionTypeOK', Ordered', NEW kind, NEW id
  PROVE  /\ Wrote(kind, id) = {} => /\ (CardedOf(kind, id))' = CardedOf(kind, id)
                                    /\ CardedOf(kind, id) # {} =>
                                         NewestOf(CardedOf(kind, id))' = NewestOf(CardedOf(kind, id))
         /\ \A i \in Wrote(kind, id) : /\ Wrote(kind, id) = {i} /\ versions[i] \in Frames
                                       /\ (CardedOf(kind, id))' # {}
                                       /\ NewestOf(CardedOf(kind, id))' = versions[i]
                                       /\ \A k : k # kind => Wrote(k, id) = {}
                                       /\ versions[i].id = id /\ versions[i].kind = kind
                                       /\ Follows(versions[i])
<1>1. carded' = carded \cup writing /\ versions' = versions
  BY DEF WriteCards
<1>2. (CardedOf(kind, id))' = CardedOf(kind, id) \cup Wrote(kind, id)
  BY <1>1 DEF CardedOf, Wrote
<1>3. ASSUME Wrote(kind, id) = {}
      PROVE  /\ (CardedOf(kind, id))' = CardedOf(kind, id)
             /\ CardedOf(kind, id) # {} =>
                  NewestOf(CardedOf(kind, id))' = NewestOf(CardedOf(kind, id))
  <2>1. (CardedOf(kind, id))' = CardedOf(kind, id) /\ FramesStay
    BY <1>1, <1>2, <1>3 DEF FramesStay
  <2> QED
    BY <2>1, NewestStays, InvParts
<1>4. ASSUME NEW i \in Wrote(kind, id)
      PROVE  /\ Wrote(kind, id) = {i} /\ versions[i] \in Frames
             /\ (CardedOf(kind, id))' # {}
             /\ NewestOf(CardedOf(kind, id))' = versions[i]
             /\ \A k : k # kind => Wrote(k, id) = {}
             /\ versions[i].id = id /\ versions[i].kind = kind
             /\ Follows(versions[i])
  <2>1. \A k : \A j \in Wrote(k, id) : j = i
    BY InvParts DEF Wrote, OneEach
  <2>2. Wrote(kind, id) = {i} /\ \A k : k # kind => Wrote(k, id) = {}
    BY <2>1 DEF Wrote
  <2>3. versions[i] \in Frames /\ Follows(versions[i]) /\ i \in 1 .. Len(versions)
        /\ versions[i].id = id /\ versions[i].kind = kind
    BY InvParts DEF Wrote
  <2>4. \A j \in CardedOf(kind, id) : j < i /\ j \in Nat
    BY InvParts DEF CardedOf, Behind, Wrote
  <2>5. i \in (CardedOf(kind, id))' /\ \A j \in (CardedOf(kind, id))' : j <= i
    BY <1>2, <2>2, <2>3, <2>4
  <2>6. LastCounts'
    BY CardsLast, PTL
  <2>7. NewestOf(CardedOf(kind, id))' = versions'[i]
    BY <2>5, <2>6 DEF LastCounts
  <2> QED
    BY <1>1, <2>2, <2>3, <2>5, <2>7
<1> QED
  BY <1>3, <1>4

\* The three ways a step of cards concerns a memory.
LEMMA CardNothing ==
  ASSUME VersionInv, WriteCards, VersionTypeOK', Ordered', NEW id \in Memories,
         Wrote("memory", id) = {}, Wrote("touch", id) = {}
  PROVE  SameCards(id) /\ accepted'[id] = accepted[id] /\ touchCache'[id] = touchCache[id]
<1>1. \A kind \in {"memory", "touch"} :
        /\ (CardedOf(kind, id))' = CardedOf(kind, id)
        /\ CardedOf(kind, id) # {} => NewestOf(CardedOf(kind, id))' = NewestOf(CardedOf(kind, id))
  BY CardOne
<1>2. (Stored(id))' = Stored(id) /\ (Stored(id) => (NewestMemory(id))' = NewestMemory(id))
  BY <1>1 DEF Stored, NewestMemory
<1>3. (CardedTouch(id))' = CardedTouch(id)
  BY <1>1 DEF CardedTouch
<1>4. Stored(id) => (CardedMemory(id))' = CardedMemory(id)
  BY <1>2, <1>3 DEF CardedMemory
<1>5. accepted'[id] = accepted[id] /\ touchCache'[id] = touchCache[id]
  <2>1. accepted[id] = [rated |-> accepted[id].rated + 0, recalled |-> accepted[id].recalled + 0]
    BY InvParts
  <2>2. accepted'[id] = [rated |-> accepted[id].rated + 0, recalled |-> accepted[id].recalled + 0]
    BY DEF WriteCards, Wrote
  <2> QED
    BY <2>1, <2>2 DEF WriteCards, Wrote
<1> QED
  BY <1>1, <1>2, <1>3, <1>4, <1>5 DEF SameCards

LEMMA CardMemory ==
  ASSUME VersionInv, WriteCards, VersionTypeOK', Ordered', NEW id \in Memories,
         Wrote("memory", id) # {}
  PROVE  /\ Kept(id)' /\ (CardedTouch(id))' = CardedTouch(id)
         /\ touchCache'[id] = touchCache[id]
<1>1. PICK i : i \in Wrote("memory", id)
  OBVIOUS
<1> DEFINE f == versions[i]
<1>2. /\ f \in Frames /\ f.id = id /\ f.kind = "memory" /\ Follows(f)
      /\ Wrote("memory", id) = {i} /\ Wrote("touch", id) = {}
      /\ (Stored(id))' /\ (NewestMemory(id))' = f
  BY <1>1, CardOne DEF Stored, NewestMemory
<1>3. (CardedTouch(id))' = CardedTouch(id)
  BY <1>2, CardOne DEF CardedTouch
<1>4. touchCache'[id] = touchCache[id] /\ accepted'[id].recalled = accepted[id].recalled
      /\ accepted'[id].rated = accepted[id].rated + (IF f.rated > 0 THEN 1 ELSE 0)
  BY <1>2, InvParts DEF WriteCards, Wrote
<1>5. /\ (CardedMemory(id))'.rated = f.rated
      /\ (CardedMemory(id))'.count =
           (IF CardedTouch(id).seen > f.seen THEN CardedTouch(id).count ELSE f.count)
  <2>1. (CardedMemory(id))' = WithTouch(f, CardedTouch(id))
    BY <1>2, <1>3 DEF CardedMemory
  <2>2. CardedTouch(id) \in [seen : Nat, count : Nat]
    BY TouchFields, InvParts
  <2> HIDE DEF f
  <2> QED
    BY <1>2, <2>1, <2>2, TouchedFields
<1>6. /\ CardedTouch(id).seen \in Nat /\ f.seen \in Nat /\ f.rated \in Nat /\ f.count \in Nat
      /\ accepted[id].rated \in Nat /\ accepted[id].recalled \in Nat
  <2>1. CardedTouch(id) \in [seen : Nat, count : Nat]
    BY TouchFields, InvParts
  <2> HIDE DEF f
  <2> QED
    BY <1>2, <2>1, InvParts DEF Frames
<1>7. NextVersion(f) /\ Kept(id)
  BY <1>2, InvParts DEF Follows
<1> HIDE DEF f
<1>8. /\ (CardedMemory(id))'.rated >= accepted'[id].rated
      /\ (CardedMemory(id))'.count = accepted'[id].recalled
  <2>1. CASE Stored(id)
    <3>1. /\ f.rated = CardedMemory(id).rated + 1 /\ f.count = CardedMemory(id).count
          /\ f.seen >= CardedTouch(id).seen
          /\ CardedMemory(id).rated >= accepted[id].rated
          /\ CardedMemory(id).count = accepted[id].recalled
      BY <1>2, <1>7, <2>1 DEF NextVersion, Kept
    <3>2. CardedMemory(id).rated \in Nat
      BY <2>1, InvParts, MemoryFields
    <3> QED
      BY <1>4, <1>5, <1>6, <3>1, <3>2
  <2>2. CASE ~Stored(id)
    <3>1. f.rated = 0 /\ f.count = 0 /\ f.seen = 0
      BY <1>2, <1>7, <2>2 DEF NextVersion
    <3>2. accepted[id].rated = 0 /\ accepted[id].recalled = 0 /\ CardedTouch(id) = NoTouch
      BY <1>7, <2>2 DEF Kept, CardedTouch
    <3> QED
      BY <1>4, <1>5, <3>1, <3>2 DEF NoTouch
  <2> QED
    BY <2>1, <2>2
<1>9. Kept(id)'
  BY <1>2, <1>8 DEF Kept
<1> QED
  BY <1>3, <1>4, <1>9

LEMMA CardTouch ==
  ASSUME VersionInv, WriteCards, VersionTypeOK', Ordered', NEW id \in Memories,
         Wrote("touch", id) # {}
  PROVE  Kept(id)' /\ touchCache'[id] = (CardedTouch(id))'
<1>1. PICK i : i \in Wrote("touch", id)
  OBVIOUS
<1> DEFINE f == versions[i]
           t == TouchOf(f)
           m == NewestMemory(id)
<1>2. /\ f \in Frames /\ f.id = id /\ f.kind = "touch" /\ Follows(f)
      /\ Wrote("touch", id) = {i} /\ Wrote("memory", id) = {}
      /\ (CardedTouch(id))' = t
  BY <1>1, CardOne DEF CardedTouch
<1>3. NextTouch(f) /\ Kept(id)
  BY <1>2, InvParts DEF Follows
<1>4. Stored(id) /\ f.count = CardedMemory(id).count + 1 /\ f.seen > m.seen
      /\ CardedMemory(id).rated >= accepted[id].rated
      /\ CardedMemory(id).count = accepted[id].recalled
  BY <1>2, <1>3 DEF NextTouch, Kept
<1>5. (Stored(id))' /\ (NewestMemory(id))' = m
  BY <1>2, <1>4, CardOne DEF Stored, NewestMemory
<1>6. Max({i}) = i
  <2>1. i \in Nat
    BY <1>1, InvParts DEF Wrote
  <2> QED
    BY <2>1 DEF Max
<1>7. /\ touchCache'[id] = t
      /\ accepted'[id].recalled = accepted[id].recalled + 1
      /\ accepted'[id].rated = accepted[id].rated
  <2>1. touchCache'[id] = t
    BY <1>2, <1>6, InvParts DEF WriteCards, Wrote
  <2>2. accepted'[id] = [rated |-> accepted[id].rated + 0, recalled |-> accepted[id].recalled + 1]
    BY <1>2, InvParts DEF WriteCards, Wrote
  <2>3. accepted[id].rated \in Nat
    BY InvParts
  <2> QED
    BY <2>1, <2>2, <2>3
<1>8. /\ m \in Frames /\ t \in [seen : Nat, count : Nat] /\ t.seen = f.seen /\ t.count = f.count
      /\ CardedMemory(id).count \in Nat /\ CardedTouch(id) \in [seen : Nat, count : Nat]
  BY <1>2, <1>4, InvParts, MemoryFields DEF TouchOf, Frames
<1>9. (CardedMemory(id))' = WithTouch(m, t) /\ CardedMemory(id) = WithTouch(m, CardedTouch(id))
  BY <1>2, <1>5 DEF CardedMemory
<1> HIDE DEF f, t, m
<1>10. (CardedMemory(id))'.rated = CardedMemory(id).rated /\ (CardedMemory(id))'.count = t.count
  BY <1>4, <1>8, <1>9, TouchedFields
<1>11. Kept(id)'
  BY <1>4, <1>5, <1>7, <1>8, <1>10 DEF Kept
<1> QED
  BY <1>2, <1>7, <1>11

LEMMA CardsStep ==
  ASSUME VersionInv, WriteCards PROVE VersionInv'
<1>1. /\ versions' = versions /\ moment' = moment /\ carded' = carded \cup writing /\ writing' = {}
  BY DEF WriteCards
<1>2. Ordered' /\ Dated' /\ Behind' /\ OneEach'
  BY <1>1, InvParts DEF Ordered, Dated, Behind, OneEach
<1>3. VersionTypeOK'
  <2>1. accepted' \in [Memories -> [rated : Nat, recalled : Nat]]
    BY InvParts DEF WriteCards
  <2>2. touchCache' \in [Memories -> Touches]
    <3> SUFFICES ASSUME NEW id \in Memories
                 PROVE  touchCache'[id] \in Touches
      BY DEF WriteCards
    <3>1. CASE Wrote("touch", id) = {}
      BY <3>1, InvParts DEF WriteCards, Wrote
    <3>2. CASE Wrote("touch", id) # {}
      <4>1. PICK i \in Wrote("touch", id) : TRUE
        BY <3>2
      <4>2. Wrote("touch", id) = {i} /\ i \in Nat /\ versions[i] \in Frames
        BY <4>1, InvParts DEF Wrote, OneEach
      <4>3. Max({i}) = i
        BY <4>2 DEF Max
      <4>4. touchCache'[id] = TouchOf(versions[i])
        BY <3>2, <4>2, <4>3 DEF WriteCards, Wrote
      <4> QED
        BY <4>2, <4>4 DEF TouchOf, Frames, Touches
    <3> QED
      BY <3>1, <3>2
  <2> QED
    BY <1>1, <2>1, <2>2, InvParts DEF VersionTypeOK
<1>4. ASSUME NEW id \in Memories
      PROVE  Kept(id)' /\ (touchCache'[id] # Unread => touchCache'[id] = (CardedTouch(id))')
  <2>1. CASE Wrote("memory", id) = {} /\ Wrote("touch", id) = {}
    <3>1. SameCards(id) /\ accepted'[id] = accepted[id] /\ touchCache'[id] = touchCache[id]
      BY <1>2, <1>3, <2>1, CardNothing
    <3>2. Kept(id)'
      BY <3>1, KeptStays, InvParts
    <3> QED
      BY <3>1, <3>2, InvParts DEF SameCards, CacheTrue
  <2>2. CASE Wrote("memory", id) # {}
    BY <1>2, <1>3, <2>2, CardMemory, InvParts DEF CacheTrue
  <2>3. CASE Wrote("touch", id) # {}
    BY <1>2, <1>3, <2>3, CardTouch
  <2> QED
    BY <2>1, <2>2, <2>3
<1>5. CacheTrue' /\ \A id \in Memories : Kept(id)'
  BY <1>4 DEF CacheTrue
<1> QED
  BY <1>1, <1>2, <1>3, <1>5 DEF VersionInv

-----------------------------------------------------------------------------
LEMMA VersionInitial == VersionInit => VersionInv
<1> SUFFICES ASSUME VersionInit PROVE VersionInv
  OBVIOUS
<1>1. versions = <<>> /\ carded = {} /\ writing = {} /\ moment = 1
      /\ touchCache = [id \in Memories |-> Unread]
      /\ accepted = [id \in Memories |-> [rated |-> 0, recalled |-> 0]]
  BY DEF VersionInit
<1>2. VersionTypeOK
  BY <1>1 DEF VersionTypeOK, Touches, Unread
<1>3. Ordered /\ Dated /\ CacheTrue /\ Behind /\ OneEach
  BY <1>1 DEF Ordered, Dated, CacheTrue, Behind, OneEach
<1>4. \A id \in Memories : Kept(id)
  BY <1>1 DEF Kept, Stored, CardedOf
<1> QED
  BY <1>1, <1>2, <1>3, <1>4 DEF VersionInv

LEMMA VersionStep ==
  ASSUME ~LateReports PROVE VersionInv /\ [VersionNext]_versionVars => VersionInv'
<1> SUFFICES ASSUME VersionInv, [VersionNext]_versionVars PROVE VersionInv'
  OBVIOUS
<1>1. CASE PutMemory
  BY <1>1, PutStep
<1>2. CASE GiveFeedback
  BY <1>2, FeedbackStep
<1>3. CASE Retrieved
  BY <1>3, RetrievedStep
<1>4. CASE Maintained
  BY <1>4, MaintainedStep
<1>5. CASE WriteCards
  BY <1>5, CardsStep
<1>6. CASE ReadTouch
  BY <1>6, ReadStep
<1>7. CASE Stop
  BY <1>7, StopStep
<1>8. CASE UNCHANGED versionVars
  <2>1. UNCHANGED <<versions, carded, moment, accepted, touchCache, writing>>
    BY <1>8 DEF versionVars
  <2>2. touchCache' \in [Memories -> Touches]
    BY <2>1, InvParts
  <2>3. \A id \in Memories : touchCache'[id] # Unread => touchCache'[id] = CardedTouch(id)
    BY <2>1, InvParts DEF CacheTrue
  <2> QED
    BY <2>1, <2>2, <2>3, SameFrames
<1> QED
  BY <1>1, <1>2, <1>3, <1>4, <1>5, <1>6, <1>7, <1>8 DEF VersionNext

LEMMA KeptIsKept == VersionInv => FeedbackKept
<1> SUFFICES ASSUME VersionInv, NEW id \in Memories, Stored(id)
             PROVE  /\ GetMemory(id).rated >= accepted[id].rated
                    /\ GetMemory(id).count = accepted[id].recalled
  BY DEF FeedbackKept, OutcomesKept, AccessCounted
<1>1. GetMemory(id) = CardedMemory(id) /\ Kept(id)
  BY InvParts, ReadAsCarded
<1> QED
  BY <1>1 DEF Kept

(* When outcomes are reported as they happen, what is written in two steps  *)
(* stays in order: the cards name one newest version and one newest touch,   *)
(* the cache repeats them, and the frames under way follow from them         *)
(* (memvid_store.rs, put_memory, touch_memory_access).                       *)
THEOREM VersionInvariant == ASSUME ~LateReports PROVE VersionSpec => []VersionInv
<1>1. VersionInv /\ [VersionNext]_versionVars => VersionInv'
  BY VersionStep
<1> QED
  BY <1>1, VersionInitial, PTL DEF VersionSpec

(* Every outcome and every retrieval accepted for a memory is in the memory *)
(* that is read back (memory_controller.rs, record_outcome_feedback,         *)
(* touch_retrieved_memories).                                                *)
THEOREM FeedbackHolds == ASSUME ~LateReports PROVE VersionSpec => []FeedbackKept
  BY VersionInvariant, KeptIsKept, PTL

-----------------------------------------------------------------------------
(* Procedures. *)

Statuses == {"active", "cooling_down", "retired"}
Procs == [succ : Nat, fail : Nat, used : Nat, status : Statuses, recorded : Nat]

ProcTypeOK ==
  /\ proc \in Procs \cup {NoProc}
  /\ episodes \in Seq([day : Nat, good : BOOLEAN])
  /\ phase \in {"idle", "seed", "consolidate", "record", "reconcile"}
  /\ phase = "seed" => stating.seed \in Seeds
  /\ credit \in [good : Nat, bad : Nat]
  /\ cut \in BOOLEAN /\ now \in Nat

\* Every good episode was reported.
GoodOnes == {i \in DOMAIN episodes : episodes[i].good}
EpisodesReported == IsFiniteSet(GoodOnes) /\ Cardinality(GoodOnes) <= credit.good

\* What the consolidation under way may still count, of the procedure in force
\* and of the one that is stated.
Open == phase = "consolidate" \/ (phase = "seed" /\ stating.named)
OpenGood == IF Open /\ episodes[Newest].good THEN 1 ELSE 0
OpenBad == IF Open /\ ~episodes[Newest].good THEN 1 ELSE 0
CountsLeft ==
  /\ Open => episodes # <<>>
  /\ proc # NoProc => /\ proc.succ + OpenGood <= credit.good
                      /\ proc.fail + OpenBad <= credit.bad
  /\ phase = "seed" => /\ stating.seed.succ + OpenGood <= credit.good
                       /\ stating.seed.fail + OpenBad <= credit.bad

\* A procedure is active beyond its due only until it is reconciled.
KindLeft ==
  proc # NoProc /\ proc.status = "active" =>
    Judged(proc.succ, proc.fail) = "active" \/ phase # "idle" \/ cut

\* The inductive invariant of the procedure.
ProcInv == ProcTypeOK /\ EpisodesReported /\ CountsLeft /\ KindLeft

LEMMA JudgedType == \A succ, fail : Judged(succ, fail) \in Statuses
  BY DEF Judged, Statuses

LEMMA BuiltFields ==
  ASSUME ProcTypeOK, NEW succ \in Nat, NEW fail \in Nat
  PROVE  /\ Built(proc, succ, fail) \in Procs /\ Built(proc, succ, fail) # NoProc
         /\ Built(proc, succ, fail).succ = succ /\ Built(proc, succ, fail).fail = fail
         /\ Built(proc, succ, fail).status = Judged(succ, fail)
<1> DEFINE at == IF proc = NoProc THEN now ELSE proc.recorded
           judged == Judged(succ, fail)
<1>1. at \in Nat /\ now \in Nat
  BY DEF ProcTypeOK, Procs
<1>2. judged \in Statuses
  BY JudgedType
<1>3. Built(proc, succ, fail) =
        [succ |-> succ, fail |-> fail, used |-> now, status |-> judged, recorded |-> at]
  BY DEF Built
<1> HIDE DEF at, judged
<1>4. Built(proc, succ, fail).status = judged
  BY <1>3
<1>5. judged # "none"
  BY <1>2 DEF Statuses
<1>6. Built(proc, succ, fail) \in Procs /\ Built(proc, succ, fail) # NoProc
  BY <1>1, <1>2, <1>3, <1>4, <1>5 DEF Procs, NoProc
<1> QED
  BY <1>3, <1>6 DEF judged

LEMMA ProcParts ==
  ASSUME ProcInv
  PROVE  /\ ProcTypeOK /\ EpisodesReported /\ CountsLeft /\ KindLeft
         /\ proc # NoProc => /\ proc \in Procs /\ proc.succ \in Nat /\ proc.fail \in Nat
                             /\ proc.status \in Statuses
         /\ proc # NoProc => /\ proc.succ <= credit.good /\ proc.fail <= credit.bad
                             /\ phase = "consolidate" /\ episodes[Newest].good =>
                                  proc.succ + 1 <= credit.good
                             /\ phase = "consolidate" /\ ~episodes[Newest].good =>
                                  proc.fail + 1 <= credit.bad
         /\ credit \in [good : Nat, bad : Nat] /\ credit.good \in Nat /\ credit.bad \in Nat
         /\ episodes \in Seq([day : Nat, good : BOOLEAN])
         /\ now \in Nat /\ cut \in BOOLEAN
<1>1. ProcTypeOK /\ EpisodesReported /\ CountsLeft /\ KindLeft
  BY DEF ProcInv
<1>2. /\ proc # NoProc => /\ proc \in Procs /\ proc.succ \in Nat /\ proc.fail \in Nat
                          /\ proc.status \in Statuses
      /\ credit \in [good : Nat, bad : Nat] /\ credit.good \in Nat /\ credit.bad \in Nat
      /\ episodes \in Seq([day : Nat, good : BOOLEAN])
      /\ now \in Nat /\ cut \in BOOLEAN
  BY <1>1 DEF ProcTypeOK, Procs
<1>3. ASSUME proc # NoProc
      PROVE  /\ proc.succ <= credit.good /\ proc.fail <= credit.bad
             /\ phase = "consolidate" /\ episodes[Newest].good => proc.succ + 1 <= credit.good
             /\ phase = "consolidate" /\ ~episodes[Newest].good => proc.fail + 1 <= credit.bad
  <2>1. proc.succ + OpenGood <= credit.good /\ proc.fail + OpenBad <= credit.bad
    BY <1>1, <1>3 DEF CountsLeft
  <2>2. CASE phase = "consolidate" /\ episodes[Newest].good
    <3>0. Open
      BY <2>2 DEF Open
    <3>1. OpenGood = 1 /\ OpenBad = 0
      BY <2>2, <3>0 DEF OpenGood, OpenBad
    <3> QED
      BY <1>2, <1>3, <2>1, <2>2, <3>1
  <2>3. CASE phase = "consolidate" /\ ~episodes[Newest].good
    <3>0. Open
      BY <2>3 DEF Open
    <3>1. OpenGood = 0 /\ OpenBad = 1
      BY <2>3, <3>0 DEF OpenGood, OpenBad
    <3> QED
      BY <1>2, <1>3, <2>1, <2>3, <3>1
  <2>4. CASE phase # "consolidate"
    <3>1. OpenGood \in {0, 1} /\ OpenBad \in {0, 1}
      BY DEF OpenGood, OpenBad
    <3> QED
      BY <1>2, <1>3, <2>1, <2>4, <3>1
  <2> QED
    BY <2>2, <2>3, <2>4
<1> QED
  BY <1>1, <1>2, <1>3

\* An episode is kept: what it reports may be counted once, by the procedure in
\* force or by the one that is stated with it.
LEMMA EpisodeStep ==
  ASSUME ProcInv, NEW good \in BOOLEAN, Episode(good), UNCHANGED <<proc, cut, now>>,
         credit' \in [good : Nat, bad : Nat],
         credit'.good >= credit.good + (IF good THEN 1 ELSE 0),
         credit'.bad >= credit.bad + (IF good THEN 0 ELSE 1),
         phase' \in {"seed", "consolidate", "reconcile"},
         phase' = "seed" => /\ stating'.seed \in Seeds
                            /\ stating'.seed.succ + (IF good THEN 1 ELSE 0) <= credit'.good
                            /\ stating'.seed.fail + (IF good THEN 0 ELSE 1) <= credit'.bad
  PROVE  ProcInv'
<1> DEFINE e == [day |-> now, good |-> good]
           n == Len(episodes)
           up == IF good THEN 1 ELSE 0
           down == IF good THEN 0 ELSE 1
<1>1. e \in [day : Nat, good : BOOLEAN] /\ n \in Nat /\ up \in {0, 1} /\ down \in {0, 1}
  BY ProcParts
<1>2. episodes' = Append(episodes, e)
  BY DEF Episode
<1>3. /\ episodes' \in Seq([day : Nat, good : BOOLEAN]) /\ Len(episodes') = n + 1
      /\ episodes'[n + 1] = e /\ \A i \in 1 .. n : episodes'[i] = episodes[i]
      /\ DOMAIN episodes' = 1 .. (n + 1) /\ DOMAIN episodes = 1 .. n
  BY <1>1, <1>2, ProcParts
<1>4. credit'.good \in Nat /\ credit'.bad \in Nat
  OBVIOUS
<1>5. ProcTypeOK'
  BY <1>3, ProcParts DEF ProcTypeOK
<1>6. EpisodesReported'
  <2>1. CASE good
    <3>1. GoodOnes' = GoodOnes \cup {n + 1} /\ n + 1 \notin GoodOnes
      BY <1>1, <1>3, <2>1 DEF GoodOnes
    <3>2. IsFiniteSet(GoodOnes') /\ Cardinality(GoodOnes') = Cardinality(GoodOnes) + 1
          /\ Cardinality(GoodOnes) \in Nat
      BY <3>1, FS_AddElement, FS_CardinalityType, ProcParts DEF EpisodesReported
    <3>3. credit'.good >= credit.good + 1
      BY <2>1
    <3> QED
      BY <1>4, <3>2, <3>3, ProcParts DEF EpisodesReported
  <2>2. CASE ~good
    <3>1. GoodOnes' = GoodOnes
      BY <1>1, <1>3, <2>2 DEF GoodOnes
    <3>2. credit'.good >= credit.good + 0
      BY <2>2
    <3>3. IsFiniteSet(GoodOnes) /\ Cardinality(GoodOnes) \in Nat /\ Cardinality(GoodOnes) <= credit.good
      BY FS_CardinalityType, ProcParts DEF EpisodesReported
    <3> QED
      BY <1>4, <3>1, <3>2, <3>3, ProcParts DEF EpisodesReported
  <2> QED
    BY <2>1, <2>2
<1>7. CountsLeft'
  <2>1. episodes' # <<>> /\ Newest' = n + 1 /\ episodes'[Newest'].good = good
    BY <1>1, <1>3 DEF Newest
  <2>2. OpenGood' \in {0, up} /\ OpenBad' \in {0, down}
    BY <2>1 DEF OpenGood, OpenBad
  <2>3. /\ OpenGood' <= up /\ OpenBad' <= down /\ OpenGood' \in Nat /\ OpenBad' \in Nat
        /\ up \in Nat /\ down \in Nat
    BY <2>2
  <2> HIDE DEF up, down
  <2>4. credit'.good >= credit.good + up /\ credit'.bad >= credit.bad + down
    BY DEF up, down
  <2>5. ASSUME proc # NoProc
        PROVE  proc.succ + OpenGood' <= credit'.good /\ proc.fail + OpenBad' <= credit'.bad
    <3>1. /\ proc.succ <= credit.good /\ proc.fail <= credit.bad
          /\ proc.succ \in Nat /\ proc.fail \in Nat /\ credit.good \in Nat /\ credit.bad \in Nat
      BY <2>5, ProcParts
    <3> QED
      BY <1>4, <2>3, <2>4, <3>1
  <2>6. ASSUME phase' = "seed"
        PROVE  /\ stating'.seed.succ + OpenGood' <= credit'.good
               /\ stating'.seed.fail + OpenBad' <= credit'.bad
    <3>1. stating'.seed.succ \in Nat /\ stating'.seed.fail \in Nat
      BY <2>6, ProcedureAssumption
    <3>2. stating'.seed.succ + up <= credit'.good /\ stating'.seed.fail + down <= credit'.bad
      BY <2>6 DEF up, down
    <3> QED
      BY <1>4, <2>3, <3>1, <3>2
  <2>7. proc'.succ = proc.succ /\ proc'.fail = proc.fail /\ (proc' # NoProc => proc # NoProc)
    BY DEF NoProc
  <2> QED
    BY <2>1, <2>5, <2>6, <2>7 DEF CountsLeft
<1>8. KindLeft'
  BY DEF KindLeft
<1> QED
  BY <1>5, <1>6, <1>7, <1>8 DEF ProcInv

LEMMA CreditedFields ==
  ASSUME ProcInv, NEW good \in BOOLEAN, credit' = Credited(good)
  PROVE  /\ credit' \in [good : Nat, bad : Nat]
         /\ credit'.good = credit.good + (IF good THEN 1 ELSE 0)
         /\ credit'.bad = credit.bad + (IF good THEN 0 ELSE 1)
  BY ProcParts DEF Credited

LEMMA ReportStep ==
  ASSUME ProcInv, NEW good \in BOOLEAN, Report(good) \/ Evidence(good) PROVE ProcInv'
<1>1. /\ Episode(good) /\ credit' = Credited(good) /\ phase' \in {"consolidate", "reconcile"}
      /\ UNCHANGED <<proc, cut, now>>
  BY DEF Report, Evidence
<1>2. /\ credit' \in [good : Nat, bad : Nat]
      /\ credit'.good = credit.good + (IF good THEN 1 ELSE 0)
      /\ credit'.bad = credit.bad + (IF good THEN 0 ELSE 1)
  BY <1>1, CreditedFields
<1>3. /\ credit'.good >= credit.good + (IF good THEN 1 ELSE 0)
      /\ credit'.bad >= credit.bad + (IF good THEN 0 ELSE 1)
  <2>1. credit'.good \in Nat /\ credit'.bad \in Nat
    BY <1>2
  <2> QED
    BY <1>2, <2>1
<1> QED
  BY <1>1, <1>2, <1>3, EpisodeStep

\* The credit grows while nothing else that counts changes.
LEMMA CreditStep ==
  ASSUME ProcInv, UNCHANGED <<proc, episodes, cut, now>>, credit' \in [good : Nat, bad : Nat],
         credit'.good >= credit.good, credit'.bad >= credit.bad,
         phase = "idle", ~Open', phase' \in {"idle", "seed"},
         phase' = "seed" => /\ stating'.seed \in Seeds
                            /\ stating'.seed.succ <= credit'.good
                            /\ stating'.seed.fail <= credit'.bad
  PROVE  ProcInv'
<1>1. ProcTypeOK'
  BY ProcParts DEF ProcTypeOK
<1>2. EpisodesReported'
  <2>1. Cardinality(GoodOnes) \in Nat /\ IsFiniteSet(GoodOnes) /\ Cardinality(GoodOnes) <= credit.good
    BY FS_CardinalityType, ProcParts DEF EpisodesReported
  <2>2. GoodOnes' = GoodOnes
    BY DEF GoodOnes
  <2> QED
    BY <2>1, <2>2, ProcParts DEF EpisodesReported
<1>3. CountsLeft'
  <2>1. OpenGood' = 0 /\ OpenBad' = 0
    BY DEF OpenGood, OpenBad
  <2>2. ASSUME proc # NoProc PROVE proc.succ + 0 <= credit'.good /\ proc.fail + 0 <= credit'.bad
    BY <2>2, ProcParts
  <2>3. ASSUME phase' = "seed"
        PROVE  stating'.seed.succ + 0 <= credit'.good /\ stating'.seed.fail + 0 <= credit'.bad
    BY <2>3, ProcedureAssumption
  <2>4. proc'.succ = proc.succ /\ proc'.fail = proc.fail /\ (proc' # NoProc => proc # NoProc)
    BY DEF NoProc
  <2> QED
    BY <2>1, <2>2, <2>3, <2>4 DEF CountsLeft
<1>4. KindLeft'
  BY ProcParts DEF KindLeft
<1> QED
  BY <1>1, <1>2, <1>3, <1>4 DEF ProcInv

\* The procedure is built anew from counts that were reported.
LEMMA BuiltKeeps ==
  ASSUME ProcInv, NEW succ \in Nat, NEW fail \in Nat, proc' = Built(proc, succ, fail),
         credit' \in [good : Nat, bad : Nat], credit'.good >= credit.good,
         succ <= credit'.good, fail <= credit'.bad,
         phase' \in {"idle", "record"}, UNCHANGED <<episodes, cut, now>>
  PROVE  ProcInv'
<1>1. /\ proc' \in Procs /\ proc' # NoProc /\ proc'.succ = succ /\ proc'.fail = fail
      /\ proc'.status = Judged(succ, fail)
  BY BuiltFields, ProcParts
<1>2. ProcTypeOK'
  BY <1>1, ProcParts DEF ProcTypeOK
<1>3. GoodOnes' = GoodOnes
  BY DEF GoodOnes
<1>4. EpisodesReported'
  <2>1. Cardinality(GoodOnes) \in Nat /\ IsFiniteSet(GoodOnes) /\ Cardinality(GoodOnes) <= credit.good
    BY FS_CardinalityType, ProcParts DEF EpisodesReported
  <2> QED
    BY <1>3, <2>1, ProcParts DEF EpisodesReported
<1>5. CountsLeft'
  BY <1>1 DEF CountsLeft, Open, OpenGood, OpenBad
<1>6. KindLeft'
  BY <1>1 DEF KindLeft
<1> QED
  BY <1>2, <1>4, <1>5, <1>6 DEF ProcInv

LEMMA LearnStep ==
  ASSUME ProcInv, Learn PROVE ProcInv'
<1>0. phase = "consolidate" /\ UNCHANGED <<episodes, credit, cut, now>>
  BY DEF Learn
<1>1. CASE proc' = proc /\ phase' = "reconcile"
  <2>1. ProcTypeOK' /\ EpisodesReported' /\ KindLeft'
    BY <1>0, <1>1, ProcParts DEF ProcTypeOK, EpisodesReported, GoodOnes, KindLeft
  <2>2. CountsLeft'
    BY <1>0, <1>1, ProcParts DEF CountsLeft, Open, OpenGood, OpenBad
  <2> QED
    BY <2>1, <2>2 DEF ProcInv
<1>2. CASE episodes[Newest].good /\ proc' = Learned /\ phase' = "record"
  <2>1. CASE proc = NoProc
    <3>1. InWindow \subseteq GoodOnes
      BY DEF InWindow, GoodOnes
    <3>2. Cardinality(InWindow) \in Nat /\ Cardinality(InWindow) <= credit.good
      <4>1. IsFiniteSet(InWindow) /\ Cardinality(InWindow) <= Cardinality(GoodOnes)
        BY <3>1, FS_Subset, ProcParts DEF EpisodesReported
      <4>2. Cardinality(InWindow) \in Nat /\ Cardinality(GoodOnes) \in Nat
        BY <4>1, FS_CardinalityType, ProcParts DEF EpisodesReported
      <4> QED
        BY <4>1, <4>2, ProcParts DEF EpisodesReported
    <3>3. proc' = Built(proc, Cardinality(InWindow), 0)
      BY <1>2, <2>1 DEF Learned
    <3> QED
      BY <1>0, <1>2, <3>2, <3>3, BuiltKeeps, ProcParts
  <2>2. CASE proc # NoProc
    <3>1. proc.succ + 1 <= credit.good /\ proc.fail <= credit.bad
      BY <1>0, <1>2, <2>2, ProcParts
    <3>2. proc' = Built(proc, proc.succ + 1, proc.fail)
      BY <1>2, <2>2 DEF Learned
    <3>3. proc.succ + 1 \in Nat /\ proc.fail \in Nat
      BY <2>2, ProcParts
    <3> QED
      BY <1>0, <1>2, <3>1, <3>2, <3>3, BuiltKeeps, ProcParts
  <2> QED
    BY <2>1, <2>2
<1>3. CASE ~episodes[Newest].good /\ proc # NoProc /\ proc' = Failed /\ phase' = "record"
  <2>1. proc.succ <= credit.good /\ proc.fail + 1 <= credit.bad
    BY <1>0, <1>3, ProcParts
  <2>2. proc' = Built(proc, proc.succ, proc.fail + 1)
    BY <1>3 DEF Failed
  <2>3. proc.succ \in Nat /\ proc.fail + 1 \in Nat
    BY <1>3, ProcParts
  <2> QED
    BY <1>0, <1>3, <2>1, <2>2, <2>3, BuiltKeeps, ProcParts
<1> QED
  BY <1>1, <1>2, <1>3 DEF Learn

\* The counts and the credit stay, and no consolidation begins.
LEMMA ReconcileStep ==
  ASSUME ProcInv, Reconcile PROVE ProcInv'
<1>0. phase' = "idle" /\ UNCHANGED <<episodes, credit, now>> /\ cut' = FALSE
  BY DEF Reconcile
<1>1. CASE proc = NoProc
  <2>1. proc' = NoProc
    BY <1>1 DEF Reconcile
  <2> QED
    BY <1>0, <1>1, <2>1, ProcParts
    DEF ProcInv, ProcTypeOK, EpisodesReported, GoodOnes, CountsLeft, Open, KindLeft
<1>2. CASE proc # NoProc
  <2>1. Effective(proc) \in Statuses
    BY <1>2, ProcParts, JudgedType DEF Effective
  <2>2. proc' = [proc EXCEPT !.status = Effective(proc)]
    BY <1>2, ProcParts DEF Reconcile, Procs
  <2>3. /\ proc' \in Procs /\ proc' # NoProc
        /\ proc'.succ = proc.succ /\ proc'.fail = proc.fail /\ proc'.status = Effective(proc)
    <3> DEFINE new == Effective(proc)
    <3>1. new \in Statuses /\ proc' = [proc EXCEPT !.status = new] /\ proc \in Procs
      BY <1>2, <2>1, <2>2, ProcParts
    <3> HIDE DEF new
    <3>2. proc' \in Procs /\ proc'.succ = proc.succ /\ proc'.fail = proc.fail /\ proc'.status = new
      BY <3>1 DEF Procs
    <3>3. proc' # NoProc
      BY <3>1, <3>2 DEF NoProc, Statuses
    <3> QED
      BY <3>2, <3>3 DEF new
  <2>4. Effective(proc) = "active" => Judged(proc.succ, proc.fail) = "active"
    BY DEF Effective
  <2>5. proc.succ <= credit.good /\ proc.fail <= credit.bad
    BY <1>2, ProcParts DEF CountsLeft, Open, OpenGood, OpenBad
  <2>6. ProcTypeOK'
    BY <1>0, <2>3, ProcParts DEF ProcTypeOK
  <2>7. EpisodesReported'
    BY <1>0, ProcParts DEF EpisodesReported, GoodOnes
  <2>8. CountsLeft'
    BY <1>0, <1>2, <2>3, <2>5, ProcParts DEF CountsLeft, Open, OpenGood, OpenBad
  <2>9. KindLeft'
    BY <2>3, <2>4 DEF KindLeft
  <2> QED
    BY <2>6, <2>7, <2>8, <2>9 DEF ProcInv
<1> QED
  BY <1>1, <1>2

LEMMA SeedFields ==
  ASSUME NEW s \in Seeds PROVE s.succ \in Nat /\ s.fail \in Nat /\ s.status \in Statuses
  BY ProcedureAssumption DEF Statuses

LEMMA SeedStep ==
  ASSUME ProcInv, NEW s \in Seeds, NEW outcome \in {"none", "success", "failure"}, Seed(s, outcome)
  PROVE  ProcInv'
<1> DEFINE up == IF outcome = "success" THEN 1 ELSE 0
           down == IF outcome = "failure" THEN 1 ELSE 0
<1>1. s.succ \in Nat /\ s.fail \in Nat /\ up \in Nat /\ down \in Nat
  BY SeedFields
<1>2. /\ phase = "idle" /\ phase' = "seed" /\ UNCHANGED <<proc, cut, now>>
      /\ stating' = [seed |-> s, named |-> outcome # "none"]
      /\ credit' = [good |-> credit.good + s.succ + up, bad |-> credit.bad + s.fail + down]
  BY DEF Seed
<1>3. stating'.seed = s
  BY <1>2
<1>4. /\ credit' \in [good : Nat, bad : Nat]
      /\ credit'.good = credit.good + s.succ + up /\ credit'.bad = credit.bad + s.fail + down
  <2> HIDE DEF up, down
  <2> QED
    BY <1>1, <1>2, ProcParts
<1>5. CASE outcome = "none"
  <2>1. ~Open' /\ UNCHANGED episodes
    <3>1. UNCHANGED episodes
      BY <1>5 DEF Seed
    <3>2. ~stating'.named /\ phase' # "consolidate"
      BY <1>2, <1>5
    <3> QED
      BY <3>1, <3>2 DEF Open
  <2>2. /\ credit'.good >= credit.good /\ credit'.bad >= credit.bad
        /\ s.succ <= credit'.good /\ s.fail <= credit'.bad
    <3>1. credit.good \in Nat /\ credit.bad \in Nat
      BY ProcParts
    <3> HIDE DEF up, down
    <3> QED
      BY <1>1, <1>4, <3>1
  <2> QED
    BY <1>2, <1>3, <1>4, <2>1, <2>2, CreditStep
<1>6. CASE outcome # "none"
  <2> DEFINE good == outcome = "success"
             win == IF good THEN 1 ELSE 0
             loss == IF good THEN 0 ELSE 1
  <2>1. Episode(good) /\ good \in BOOLEAN
    BY <1>6 DEF Seed
  <2>2. win = up /\ loss = down
    BY <1>6
  <2>3. /\ credit'.good >= credit.good + win /\ credit'.bad >= credit.bad + loss
        /\ s.succ + win <= credit'.good /\ s.fail + loss <= credit'.bad
    <3>1. credit.good \in Nat /\ credit.bad \in Nat
      BY ProcParts
    <3> HIDE DEF up, down, win, loss, good
    <3> QED
      BY <1>1, <1>4, <2>2, <3>1
  <2> HIDE DEF good
  <2> QED
    BY <1>2, <1>3, <1>4, <2>1, <2>3, EpisodeStep
<1> QED
  BY <1>5, <1>6

LEMMA SaveSeedStep ==
  ASSUME ProcInv, SaveSeed PROVE ProcInv'
<1> DEFINE s == stating.seed
           at == IF proc = NoProc THEN now ELSE proc.recorded
<1>1. /\ phase = "seed" /\ proc' = SeededAs(proc, s) /\ UNCHANGED <<episodes, credit, cut, now>>
      /\ phase' = (IF stating.named THEN "consolidate" ELSE "reconcile")
  BY DEF SaveSeed
<1>2. s \in Seeds /\ s.succ \in Nat /\ s.fail \in Nat /\ s.status \in Statuses
  BY <1>1, ProcParts, SeedFields DEF ProcTypeOK
<1>3. at \in Nat
  BY ProcParts DEF Procs
<1>4. proc' = [succ |-> s.succ, fail |-> s.fail, used |-> 0, status |-> s.status, recorded |-> at]
  BY <1>1 DEF SeededAs
<1>5. proc' \in Procs /\ proc'.succ = s.succ /\ proc'.fail = s.fail
  <2> HIDE DEF s, at
  <2> QED
    BY <1>2, <1>3, <1>4 DEF Procs
<1>6. ProcTypeOK'
  BY <1>1, <1>5, ProcParts DEF ProcTypeOK
<1>7. EpisodesReported'
  BY <1>1, ProcParts DEF EpisodesReported, GoodOnes
<1>8. CountsLeft'
  <2>1. /\ Open => episodes # <<>>
        /\ s.succ + OpenGood <= credit.good /\ s.fail + OpenBad <= credit.bad
    BY <1>1, ProcParts DEF CountsLeft
  <2>2. phase' # "seed" /\ (Open' => Open) /\ (Open => Open')
    <3>1. CASE stating.named
      <4>1. phase' = "consolidate"
        BY <1>1, <3>1
      <4>2. Open' /\ Open
        BY <1>1, <3>1, <4>1 DEF Open
      <4> QED
        BY <4>1, <4>2
    <3>2. CASE ~stating.named
      BY <1>1, <3>2 DEF Open
    <3> QED
      BY <3>1, <3>2
  <2>3. OpenGood' = OpenGood /\ OpenBad' = OpenBad
    BY <1>1, <2>2 DEF OpenGood, OpenBad, Newest
  <2> QED
    BY <1>1, <1>5, <2>1, <2>2, <2>3 DEF CountsLeft
<1>9. KindLeft'
  BY <1>1 DEF KindLeft
<1> QED
  BY <1>6, <1>7, <1>8, <1>9 DEF ProcInv

LEMMA OutcomeStep ==
  ASSUME ProcInv, NEW good \in BOOLEAN, NEW late \in BOOLEAN, Feedback(good, late) PROVE ProcInv'
<1>1. /\ phase = "idle" /\ phase' = phase /\ proc # NoProc /\ UNCHANGED <<episodes, cut, now>>
      /\ credit' = Credited(good)
  BY DEF Feedback
<1>2. proc.succ <= credit.good /\ proc.fail <= credit.bad /\ proc.succ \in Nat /\ proc.fail \in Nat
  BY <1>1, ProcParts
<1>3. /\ credit' \in [good : Nat, bad : Nat]
      /\ credit'.good = credit.good + (IF good THEN 1 ELSE 0)
      /\ credit'.bad = credit.bad + (IF good THEN 0 ELSE 1)
  BY <1>1, CreditedFields
<1>4. CASE good /\ ~late
  <2>1. proc' = Built(proc, proc.succ + 1, proc.fail)
    BY <1>4 DEF Feedback
  <2>2. proc.succ + 1 \in Nat /\ proc.succ + 1 <= credit'.good /\ proc.fail <= credit'.bad
    <3>1. credit'.good = credit.good + 1 /\ credit'.bad = credit.bad + 0
      BY <1>3, <1>4
    <3> QED
      BY <1>2, <3>1, ProcParts
  <2>3. credit'.good >= credit.good /\ phase' \in {"idle", "record"}
    BY <1>1, <1>3, <1>4, ProcParts
  <2> QED
    BY <1>1, <1>2, <1>3, <2>1, <2>2, <2>3, BuiltKeeps
<1>5. CASE ~good /\ ~late
  <2>1. proc' = Built(proc, proc.succ, proc.fail + 1)
    BY <1>5 DEF Feedback
  <2>2. proc.fail + 1 \in Nat /\ proc.succ <= credit'.good /\ proc.fail + 1 <= credit'.bad
    <3>1. credit'.good = credit.good + 0 /\ credit'.bad = credit.bad + 1
      BY <1>3, <1>5
    <3> QED
      BY <1>2, <3>1, ProcParts
  <2>3. credit'.good >= credit.good /\ phase' \in {"idle", "record"}
    BY <1>1, <1>3, <1>5, ProcParts
  <2> QED
    BY <1>1, <1>2, <1>3, <2>1, <2>2, <2>3, BuiltKeeps
<1>6. CASE late
  <2>1. proc' = proc /\ ~Open'
    BY <1>1, <1>6 DEF Feedback, Open
  <2>2. credit'.good >= credit.good /\ credit'.bad >= credit.bad
    BY <1>3, ProcParts
  <2> QED
    BY <1>1, <1>3, <2>1, <2>2, CreditStep
<1> QED
  BY <1>4, <1>5, <1>6

LEMMA ProcInitial == ProcInit => ProcInv
<1> SUFFICES ASSUME ProcInit PROVE ProcInv
  OBVIOUS
<1>1. GoodOnes = {}
  BY DEF ProcInit, GoodOnes
<1>2. EpisodesReported
  BY <1>1, FS_EmptySet DEF ProcInit, EpisodesReported
<1>3. proc = NoProc /\ episodes = <<>> /\ phase = "idle" /\ cut = FALSE /\ now = 1
      /\ credit = [good |-> 0, bad |-> 0]
  BY DEF ProcInit
<1>4. credit \in [good : Nat, bad : Nat]
  BY <1>3
<1>5. ProcTypeOK
  <2>1. episodes \in Seq([day : Nat, good : BOOLEAN])
    BY <1>3
  <2>2. proc \in Procs \cup {NoProc} /\ phase = "idle"
    BY <1>3
  <2>3. cut \in BOOLEAN /\ now \in Nat
    BY <1>3
  <2> QED
    BY <1>4, <2>1, <2>2, <2>3 DEF ProcTypeOK
<1>6. CountsLeft /\ KindLeft
  BY <1>3 DEF CountsLeft, Open, KindLeft
<1> QED
  BY <1>2, <1>5, <1>6 DEF ProcInv

LEMMA ProcStep == ProcInv /\ [ProcNext]_procVars => ProcInv'
<1> SUFFICES ASSUME ProcInv, [ProcNext]_procVars PROVE ProcInv'
  OBVIOUS
<1>1. CASE \E good \in BOOLEAN : Report(good) \/ Evidence(good)
  BY <1>1, ReportStep
<1>2. CASE \E good, late \in BOOLEAN : Feedback(good, late)
  BY <1>2, OutcomeStep
<1>3. CASE Learn
  BY <1>3, LearnStep
<1>4. CASE Reconcile
  BY <1>4, ReconcileStep
<1>5. CASE \E s \in Seeds, outcome \in {"none", "success", "failure"} : Seed(s, outcome)
  BY <1>5, SeedStep
<1>6. ASSUME UNCHANGED <<proc, episodes, credit>>, now' \in Nat,
             \/ UNCHANGED <<phase, stating>> /\ cut' = cut
             \/ phase \in {"record", "idle"} /\ phase' = "reconcile" /\ cut' = cut
             \/ phase' = "idle" /\ cut' = TRUE
      PROVE  ProcInv'
  <2>1. ProcTypeOK' /\ EpisodesReported'
    BY <1>6, ProcParts DEF ProcTypeOK, EpisodesReported, GoodOnes
  <2>2. CountsLeft'
    <3>1. CASE UNCHANGED <<phase, stating>>
      BY <1>6, <3>1, ProcParts DEF CountsLeft, Open, OpenGood, OpenBad, Newest
    <3>2. CASE phase' \in {"reconcile", "idle"}
      <4>1. ~Open' /\ phase' # "seed"
        BY <3>2 DEF Open
      <4>2. OpenGood' = 0 /\ OpenBad' = 0
        BY <4>1 DEF OpenGood, OpenBad
      <4>3. proc # NoProc => proc.succ + 0 <= credit.good /\ proc.fail + 0 <= credit.bad
        BY ProcParts
      <4> QED
        BY <1>6, <4>1, <4>2, <4>3 DEF CountsLeft
    <3> QED
      BY <1>6, <3>1, <3>2
  <2>3. KindLeft'
    BY <1>6, ProcParts DEF KindLeft
  <2> QED
    BY <2>1, <2>2, <2>3 DEF ProcInv
<1>7. CASE Record
  BY <1>6, <1>7, ProcParts DEF Record
<1>8. CASE Maintain
  BY <1>6, <1>8, ProcParts DEF Maintain
<1>9. CASE ProcCrash
  BY <1>6, <1>9, ProcParts DEF ProcCrash
<1>10. CASE \E days \in Pauses : Pass(days)
  BY <1>6, <1>10, ProcParts, ProcedureAssumption DEF Pass
<1>11. CASE UNCHANGED procVars
  BY <1>6, <1>11, ProcParts DEF procVars
<1>12. CASE Unrelated
  BY <1>6, <1>12, ProcParts DEF Unrelated
<1>13. CASE SaveSeed
  BY <1>13, SaveSeedStep
<1> QED
  BY <1>1, <1>2, <1>3, <1>4, <1>5, <1>7, <1>8, <1>9, <1>10, <1>11, <1>12, <1>13 DEF ProcNext

LEMMA CountsAreReported == ProcInv => CountsReported
<1> SUFFICES ASSUME ProcInv PROVE CountsReported
  OBVIOUS
<1>1. NeverOvercounts
  BY ProcParts DEF NeverOvercounts
<1>2. NeverTooKind
  BY ProcParts DEF KindLeft, NeverTooKind
<1> QED
  BY <1>1, <1>2 DEF CountsReported

(* A procedure counts no outcome that nobody reported, through crashes      *)
(* between the writes of an ingest, windows that move, expiries and seeds,   *)
(* and it is offered as active only while its counts allow it, but for a     *)
(* crash before it was reconciled (consolidation_engine.rs,                  *)
(* procedure_store.rs).                                                      *)
THEOREM CountsHold == ProcSpec => []CountsReported
  BY ProcInitial, ProcStep, CountsAreReported, PTL DEF ProcSpec
=============================================================================
