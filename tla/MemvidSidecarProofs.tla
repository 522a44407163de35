------------------------ MODULE MemvidSidecarProofs ------------------------
(***************************************************************************)
(* A deleted memory stays gone and an acknowledged one stays, over any     *)
(* number of restarts. Both follow from what the files of a user, the      *)
(* records and the vectors of an open store say of one memory.             *)
(***************************************************************************)
EXTENDS MemvidSidecar, TLAPS

FrameSet == [id : Memories, scope : Scopes, day : Days \cup {0}, vec : BOOLEAN]
RecordSet == [id : Memories, scope : Scopes, day : Days \cup {0}, expired : BOOLEAN]
StoreSet == [up : BOOLEAN, frames : SUBSET FrameSet, pending : SUBSET FrameSet,
             tombs : SUBSET Memories, records : SUBSET RecordSet,
             vectors : SUBSET Memories,
             doing : {Nothing} \cup [busy : {TRUE}, frame : FrameSet]]

SidecarTypeOK ==
  /\ stores \in [Users -> StoreSet]
  /\ today \in Days \cup {0}

Filed(s) == s.frames \cup s.pending

\* A memory has one frame, in the files of one user.
OneFrame ==
  \A u, v \in Users : \A f \in Filed(stores[u]), g \in Filed(stores[v]) :
    f.id = g.id => u = v /\ f = g

\* The ids in the files of deleted ids belong to deleted memories, and those
\* have a frame.
DeletedOnce ==
  /\ \A u \in Users : stores[u].tombs \subseteq gone
  /\ \A m \in gone : \E u \in Users : m \in Known(stores[u])

\* A deleted memory has no record, and its id is in the file beside its frame.
NoTrace ==
  \A u \in Users, m \in gone \ untold :
    /\ m \notin Ids(stores[u].records)
    /\ m \in Known(stores[u]) => m \in stores[u].tombs

\* While the commit of an ingestion runs, its memory is in the log only.
InHand ==
  \A u \in Users : stores[u].doing.busy =>
    /\ stores[u].doing.frame \in stores[u].pending
    /\ stores[u].doing.frame.id \notin gone \cup stores[u].vectors \cup Ids(stores[u].records)

\* A closed store holds nothing in memory.
Closed(s) == s.records = {} /\ s.vectors = {} /\ ~s.doing.busy

\* Records and vectors of an open store come from the frames that count.
Sourced(s, r) ==
  \E f \in Kept(s) : /\ r.id = f.id /\ r.scope = f.scope /\ r.day = f.day
                     /\ f.vec <=> f.id \in s.vectors

RecordsFollow ==
  \A u \in Users :
    /\ ~stores[u].up => Closed(stores[u])
    /\ stores[u].vectors \subseteq Known(stores[u])
    /\ \A r \in stores[u].records : Sourced(stores[u], r)

\* Each of these frames has its record, but for the one that is being ingested,
\* those whose ingestion was refused and those whose deletion was not written.
FramesRecorded ==
  \A u \in Users : stores[u].up =>
    \A f \in Kept(stores[u]) :
      \/ f.id \in Ids(stores[u].records) \cup refused \cup untold
      \/ stores[u].doing.busy /\ f = stores[u].doing.frame

\* A memory is where a restart finds it, and an open store answers with it.
Safe(u, m) == m \in Known(stores[u]) /\ (stores[u].up => m \in Ids(stores[u].records))

\* The inductive invariant of the service.
SidecarInv ==
  /\ SidecarTypeOK /\ OneFrame /\ DeletedOnce /\ NoTrace
  /\ InHand /\ RecordsFollow /\ FramesRecorded /\ AckedStays

-----------------------------------------------------------------------------
LEMMA InitHolds == SidecarInit => SidecarInv
<1> SUFFICES ASSUME SidecarInit PROVE SidecarInv
  OBVIOUS
<1> USE DEF SidecarInit, EmptyStore, Filed
<1>1. \A u \in Users : stores[u] = EmptyStore
  OBVIOUS
<1>2. SidecarTypeOK
  BY DEF SidecarTypeOK, StoreSet
<1>3. OneFrame
  BY <1>1 DEF OneFrame
<1>4. DeletedOnce /\ NoTrace /\ AckedStays
  BY <1>1 DEF DeletedOnce, NoTrace, AckedStays
<1>5. InHand /\ FramesRecorded
  BY <1>1 DEF InHand, FramesRecorded, Nothing
<1>6. RecordsFollow
  BY <1>1 DEF RecordsFollow, Closed, Nothing
<1> QED
  BY <1>2, <1>3, <1>4, <1>5, <1>6 DEF SidecarInv

LEMMA IdleHand == ASSUME NEW x, x = Nothing PROVE ~x.busy
BY DEF Nothing

\* What the parts of a store are.
LEMMA StoreParts ==
  ASSUME SidecarTypeOK, NEW u \in Users
  PROVE  /\ stores[u].frames \subseteq FrameSet /\ stores[u].pending \subseteq FrameSet
         /\ stores[u].tombs \subseteq Memories /\ stores[u].records \subseteq RecordSet
         /\ stores[u].vectors \subseteq Memories
         /\ stores[u].doing.busy => stores[u].doing.frame \in FrameSet
<1>1. stores[u] \in StoreSet
  BY DEF SidecarTypeOK
<1>2. CASE stores[u].doing = Nothing
  <2>1. ~stores[u].doing.busy
    BY <1>2, IdleHand
  <2> QED
    BY <1>1, <2>1 DEF StoreSet
<1>3. CASE stores[u].doing \in [busy : {TRUE}, frame : FrameSet]
  BY <1>1, <1>3 DEF StoreSet
<1> QED
  BY <1>1, <1>2, <1>3 DEF StoreSet

\* Marking a record leaves what it is rebuilt from alone.
LEMMA MarkedParts ==
  ASSUME NEW r \in RecordSet, NEW e
  PROVE  LET q == [r EXCEPT !.expired = e] IN
         /\ q.id = r.id /\ q.scope = r.scope /\ q.day = r.day
         /\ q = [id |-> r.id, scope |-> r.scope, day |-> r.day, expired |-> e]
BY DEF RecordSet

\* A store with some of its parts replaced by others of the same kind.
LEMMA StoreWith ==
  ASSUME NEW s \in StoreSet, NEW frames \in SUBSET FrameSet, NEW pending \in SUBSET FrameSet,
         NEW tombs \in SUBSET Memories, NEW records \in SUBSET RecordSet, NEW vectors \in SUBSET Memories,
         NEW doing \in {Nothing} \cup [busy : {TRUE}, frame : FrameSet]
  PROVE  /\ [s EXCEPT !.up = TRUE, !.frames = frames, !.pending = {}, !.records = records,
                      !.vectors = vectors] \in StoreSet
         /\ [s EXCEPT !.pending = pending, !.doing = doing] \in StoreSet
         /\ [s EXCEPT !.frames = frames, !.pending = {}, !.doing = Nothing, !.records = records,
                      !.vectors = vectors] \in StoreSet
         /\ [s EXCEPT !.doing = Nothing] \in StoreSet
         /\ [s EXCEPT !.records = records, !.tombs = tombs] \in StoreSet
         /\ [s EXCEPT !.records = records] \in StoreSet
<1> DEFINE Doings == {Nothing} \cup [busy : {TRUE}, frame : FrameSet]
           F == SUBSET FrameSet
           R == SUBSET RecordSet
           M == SUBSET Memories
           All == [up : BOOLEAN, frames : F, pending : F, tombs : M, records : R, vectors : M, doing : Doings]
<1>1. StoreSet = All
  BY DEF StoreSet
<1>2. frames \in F /\ pending \in F /\ {} \in F /\ tombs \in M /\ records \in R /\ vectors \in M
      /\ doing \in Doings /\ Nothing \in Doings
  OBVIOUS
<1>3. s \in All
  BY <1>1
<1> HIDE DEF Doings, F, R, M
<1>4. [s EXCEPT !.up = TRUE, !.frames = frames, !.pending = {}, !.records = records, !.vectors = vectors] \in All
  BY <1>2, <1>3
<1>5. [s EXCEPT !.pending = pending, !.doing = doing] \in All
  BY <1>2, <1>3
<1>6. [s EXCEPT !.frames = frames, !.pending = {}, !.doing = Nothing, !.records = records,
                !.vectors = vectors] \in All
  BY <1>2, <1>3
<1>7. [s EXCEPT !.doing = Nothing] \in All
  BY <1>2, <1>3
<1>8. [s EXCEPT !.records = records, !.tombs = tombs] \in All
  BY <1>2, <1>3
<1>9. [s EXCEPT !.records = records] \in All
  BY <1>2, <1>3
<1> QED
  BY <1>1, <1>4, <1>5, <1>6, <1>7, <1>8, <1>9

\* One store replaced by another.
LEMMA StoreReplaced ==
  ASSUME SidecarTypeOK, NEW u \in Users, NEW s \in StoreSet, stores' = [stores EXCEPT ![u] = s], today' = today
  PROVE  SidecarTypeOK'
<1> HIDE DEF StoreSet
<1> QED
  BY DEF SidecarTypeOK

\* Every step keeps the types.
LEMMA TypeStep == SidecarTypeOK /\ SidecarNext => SidecarTypeOK'
<1> SUFFICES ASSUME SidecarTypeOK, SidecarNext PROVE SidecarTypeOK'
  OBVIOUS
<1> USE DEF SidecarTypeOK
<1>1. CASE Crash
  <2>1. \A u \in Users : Down(stores[u]) \in StoreSet
    BY DEF StoreSet, Down
  <2> QED
    BY <1>1, <2>1 DEF Crash
<1>2. CASE NextDay
  BY <1>2 DEF NextDay
<1>a. \A u \in Users : stores[u] \in StoreSet
  OBVIOUS
<1>3. ASSUME NEW u \in Users, OpenStore(u) PROVE SidecarTypeOK'
  <2>1. \A f \in FrameSet : RecordOf(f) \in RecordSet
    BY DEF FrameSet, RecordSet, RecordOf
  <2>2. Kept(stores[u]) \subseteq FrameSet /\ VectorsOf(Kept(stores[u])) \subseteq Memories
    BY StoreParts DEF Kept, VectorsOf, FrameSet
  <2> DEFINE filed == stores[u].frames \cup stores[u].pending
             kept == {RecordOf(f) : f \in Kept(stores[u])}
             seen == VectorsOf(Kept(stores[u]))
             after == [stores[u] EXCEPT !.up = TRUE, !.frames = filed, !.pending = {},
                                        !.records = kept, !.vectors = seen]
  <2>3. kept \in SUBSET RecordSet /\ seen \in SUBSET Memories /\ filed \in SUBSET FrameSet
    BY <2>1, <2>2, StoreParts
  <2>4. stores' = [stores EXCEPT ![u] = after] /\ today' = today
    BY <1>3 DEF OpenStore, Opened
  <2> HIDE DEF filed, kept, seen
  <2>5. after \in StoreSet
    BY <1>a, <2>3, StoreWith
  <2> HIDE DEF after
  <2> QED
    BY <2>4, <2>5, StoreReplaced
<1>4. ASSUME NEW u \in Users, NEW m \in Memories, NEW scope \in Scopes, NEW vec \in BOOLEAN,
             IngestPut(u, m, scope, vec)
      PROVE  SidecarTypeOK'
  <2>1. Frame(m, scope, vec) \in FrameSet
    BY DEF Frame, FrameSet
  <2> DEFINE pending == stores[u].pending \cup {Frame(m, scope, vec)}
             doing == [busy |-> TRUE, frame |-> Frame(m, scope, vec)]
             after == [stores[u] EXCEPT !.pending = pending, !.doing = doing]
  <2>2. pending \in SUBSET FrameSet /\ doing \in [busy : {TRUE}, frame : FrameSet]
    BY <2>1, StoreParts
  <2>3. stores' = [stores EXCEPT ![u] = after] /\ today' = today
    BY <1>4 DEF IngestPut
  <2> HIDE DEF pending, doing
  <2>4. after \in StoreSet
    BY <1>a, <2>2, StoreWith
  <2> HIDE DEF after
  <2> QED
    BY <2>3, <2>4, StoreReplaced
<1>5. ASSUME NEW u \in Users, IngestCommit(u) PROVE SidecarTypeOK'
  <2>1. stores[u].doing.frame \in FrameSet
    BY <1>5, StoreParts DEF IngestCommit
  <2>2. RecordOf(stores[u].doing.frame) \in RecordSet /\ VectorsOf({stores[u].doing.frame}) \subseteq Memories
    BY <2>1 DEF FrameSet, RecordSet, RecordOf, VectorsOf
  <2> DEFINE filed == stores[u].frames \cup stores[u].pending
             known == stores[u].records \cup {RecordOf(stores[u].doing.frame)}
             seen == stores[u].vectors \cup VectorsOf({stores[u].doing.frame})
             after == [stores[u] EXCEPT !.frames = filed, !.pending = {}, !.doing = Nothing,
                                        !.records = known, !.vectors = seen]
  <2>3. filed \in SUBSET FrameSet /\ known \in SUBSET RecordSet /\ seen \in SUBSET Memories
    BY <2>2, StoreParts
  <2>4. stores' = [stores EXCEPT ![u] = after] /\ today' = today
    BY <1>5 DEF IngestCommit
  <2> HIDE DEF filed, known, seen
  <2>5. after \in StoreSet
    BY <1>a, <2>3, StoreWith
  <2> HIDE DEF after
  <2> QED
    BY <2>4, <2>5, StoreReplaced
<1>6. ASSUME NEW u \in Users, IngestFails(u) PROVE SidecarTypeOK'
  <2> DEFINE after == [stores[u] EXCEPT !.doing = Nothing]
  <2>1. stores' = [stores EXCEPT ![u] = after] /\ today' = today
    BY <1>6 DEF IngestFails
  <2>2. after \in StoreSet
    BY <1>a, StoreWith
  <2> HIDE DEF after
  <2> QED
    BY <2>1, <2>2, StoreReplaced
<1>7. ASSUME NEW u \in Users, NEW m \in Memories, NEW written \in BOOLEAN, Delete(u, m, written)
      PROVE  SidecarTypeOK'
  <2> DEFINE kept == {r \in stores[u].records : r.id # m}
             tombs == IF written THEN stores[u].tombs \cup {m} ELSE stores[u].tombs
             after == [stores[u] EXCEPT !.records = kept, !.tombs = tombs]
  <2>1. kept \in SUBSET RecordSet /\ tombs \in SUBSET Memories
    BY StoreParts
  <2>2. stores' = [stores EXCEPT ![u] = after] /\ today' = today
    BY <1>7 DEF Delete
  <2> HIDE DEF kept, tombs
  <2>3. after \in StoreSet
    BY <1>a, <2>1, StoreWith
  <2> HIDE DEF after
  <2> QED
    BY <2>2, <2>3, StoreReplaced
<1>8. ASSUME NEW u \in Users, Maintain(u) PROVE SidecarTypeOK'
  <2> DEFINE marked == {[r EXCEPT !.expired = @ \/ today - r.day > Ttl] : r \in stores[u].records}
             after == [stores[u] EXCEPT !.records = marked]
  <2>1. \A r \in RecordSet, e \in BOOLEAN : [r EXCEPT !.expired = e] \in RecordSet
    BY DEF RecordSet
  <2>2. \A r \in RecordSet : (r.expired \/ today - r.day > Ttl) \in BOOLEAN
    BY DEF RecordSet
  <2>3. marked \in SUBSET RecordSet
    BY <2>1, <2>2, StoreParts
  <2>4. stores' = [stores EXCEPT ![u] = after] /\ today' = today
    BY <1>8 DEF Maintain
  <2> HIDE DEF marked
  <2>5. after \in StoreSet
    BY <1>a, <2>3, StoreWith
  <2> HIDE DEF after
  <2> QED
    BY <2>4, <2>5, StoreReplaced
<1>9. ASSUME UNCHANGED <<stores, today>> PROVE SidecarTypeOK'
  BY <1>9
<1> QED
  BY <1>1, <1>2, <1>3, <1>4, <1>5, <1>6, <1>7, <1>8, <1>9 DEF SidecarNext, Retrieve, List

-----------------------------------------------------------------------------
\* The steps that take part in the argument.

LEMMA CrashStep == SidecarInv /\ Crash => SidecarInv'
<1> SUFFICES ASSUME SidecarInv, Crash PROVE SidecarInv'
  OBVIOUS
<1> USE DEF SidecarInv
<1>1. SidecarTypeOK'
  BY TypeStep DEF SidecarNext
<1>2. \A u \in Users :
         /\ stores'[u].frames = stores[u].frames /\ stores'[u].pending = stores[u].pending
         /\ stores'[u].tombs = stores[u].tombs /\ stores'[u].records = {}
         /\ stores'[u].vectors = {} /\ ~stores'[u].up /\ stores'[u].doing = Nothing
  BY DEF Crash, Down, SidecarTypeOK, StoreSet
<1>3. \A u \in Users : ~stores'[u].doing.busy
  BY <1>2, IdleHand
<1>4. UNCHANGED <<acked, refused, gone, untold>>
  BY DEF Crash
<1>5. OneFrame'
  BY <1>2 DEF OneFrame, Filed
<1>6. DeletedOnce' /\ NoTrace'
  BY <1>2, <1>4 DEF DeletedOnce, NoTrace, Known, Ids
<1>7. InHand' /\ FramesRecorded'
  BY <1>2, <1>3 DEF InHand, FramesRecorded
<1>8. RecordsFollow'
  BY <1>2, <1>3 DEF RecordsFollow, Closed
<1>9. AckedStays'
  BY <1>2, <1>4 DEF AckedStays, Known, Ids
<1> QED
  BY <1>1, <1>5, <1>6, <1>7, <1>8, <1>9

LEMMA OpenStep == ASSUME NEW u \in Users PROVE SidecarInv /\ OpenStore(u) => SidecarInv'
<1> SUFFICES ASSUME SidecarInv, OpenStore(u) PROVE SidecarInv'
  OBVIOUS
<1> USE DEF SidecarInv
<1>1. SidecarTypeOK'
  BY TypeStep DEF SidecarNext
<1>2. /\ stores'[u].frames = stores[u].frames \cup stores[u].pending /\ stores'[u].pending = {}
      /\ stores'[u].tombs = stores[u].tombs /\ stores'[u].doing = stores[u].doing
      /\ stores'[u].records = {RecordOf(f) : f \in Kept(stores[u])}
      /\ stores'[u].vectors = VectorsOf(Kept(stores[u])) /\ stores'[u].up
  BY DEF OpenStore, Opened, SidecarTypeOK, StoreSet
<1>3. \A v \in Users : v # u => stores'[v] = stores[v]
  BY DEF OpenStore, SidecarTypeOK
<1>4. UNCHANGED <<acked, refused, gone, untold>> /\ ~stores[u].up
  BY DEF OpenStore
<1>5. ~stores'[u].doing.busy
  BY <1>2, <1>4 DEF RecordsFollow, Closed
<1>6. \A v \in Users : Filed(stores'[v]) = Filed(stores[v]) /\ Known(stores'[v]) = Known(stores[v])
                       /\ Kept(stores'[v]) = Kept(stores[v])
  BY <1>2, <1>3 DEF Filed, Known, Kept
<1>7. /\ Kept(stores[u]) = {f \in Filed(stores[u]) : f.id \notin stores[u].tombs}
      /\ Ids(stores'[u].records) = Ids(Kept(stores[u]))
      /\ stores'[u].vectors \subseteq Ids(Kept(stores[u])) /\ Ids(Kept(stores[u])) \subseteq Known(stores[u])
  <2>1. Kept(stores[u]) = {f \in Filed(stores[u]) : f.id \notin stores[u].tombs}
    BY DEF Kept, Filed
  <2>2. \A f \in Kept(stores[u]) : RecordOf(f).id = f.id
    BY DEF RecordOf
  <2>3. Ids(stores'[u].records) = Ids(Kept(stores[u]))
    BY <1>2, <2>2 DEF Ids
  <2>4. stores'[u].vectors \subseteq Ids(Kept(stores[u]))
    BY <1>2 DEF Ids, VectorsOf
  <2>5. Ids(Kept(stores[u])) \subseteq Known(stores[u])
    BY <2>1 DEF Ids, Known, Filed
  <2> QED
    BY <2>1, <2>3, <2>4, <2>5
<1>8. OneFrame'
  BY <1>6 DEF OneFrame
<1>9. DeletedOnce'
  BY <1>2, <1>3, <1>4, <1>6 DEF DeletedOnce
<1>10. NoTrace'
  <2>1. \A m \in gone \ untold : m \notin Ids(stores'[u].records)
    BY <1>7 DEF NoTrace, Ids, Known, Kept
  <2> QED
    BY <2>1, <1>2, <1>3, <1>4, <1>6 DEF NoTrace
<1>11. InHand'
  BY <1>3, <1>4, <1>5 DEF InHand
<1>12. RecordsFollow'
  <2>1. \A r \in stores'[u].records : Sourced(stores'[u], r)
    <3> SUFFICES ASSUME NEW f \in Kept(stores[u])
                 PROVE  /\ RecordOf(f).id = f.id /\ RecordOf(f).scope = f.scope /\ RecordOf(f).day = f.day
                        /\ f.vec <=> f.id \in VectorsOf(Kept(stores[u]))
      BY <1>2, <1>6 DEF Sourced
    <3>1. \A g \in Kept(stores[u]) : g.id = f.id => g = f
      BY <1>7 DEF OneFrame
    <3> QED
      BY <3>1 DEF RecordOf, VectorsOf
  <2>2. stores'[u].vectors \subseteq Known(stores'[u])
    BY <1>6, <1>7
  <2> QED
    BY <2>1, <2>2, <1>2, <1>3 DEF RecordsFollow
<1>13. FramesRecorded'
  BY <1>3, <1>4, <1>6, <1>7 DEF FramesRecorded, Ids
<1>14. AckedStays'
  <2>1. \A m \in acked \ gone : m \in Known(stores[u]) => m \in Ids(Kept(stores[u]))
    BY DEF DeletedOnce, Known, Kept, Ids
  <2> QED
    BY <2>1, <1>3, <1>4, <1>6, <1>7 DEF AckedStays
<1> QED
  BY <1>1, <1>8, <1>9, <1>10, <1>11, <1>12, <1>13, <1>14

LEMMA PutStep ==
  ASSUME NEW u \in Users, NEW m \in Memories, NEW scope \in Scopes, NEW vec \in BOOLEAN
  PROVE  SidecarInv /\ IngestPut(u, m, scope, vec) => SidecarInv'
<1> SUFFICES ASSUME SidecarInv, IngestPut(u, m, scope, vec) PROVE SidecarInv'
  OBVIOUS
<1> USE DEF SidecarInv
<1> DEFINE fr == Frame(m, scope, vec)
<1>1. SidecarTypeOK'
  BY TypeStep DEF SidecarNext
<1>2. /\ stores'[u].frames = stores[u].frames /\ stores'[u].pending = stores[u].pending \cup {fr}
      /\ stores'[u].tombs = stores[u].tombs /\ stores'[u].doing = [busy |-> TRUE, frame |-> fr]
      /\ stores'[u].records = stores[u].records
      /\ stores'[u].vectors = stores[u].vectors /\ (stores'[u].up <=> stores[u].up)
  BY DEF IngestPut, SidecarTypeOK, StoreSet
<1>3. \A v \in Users : v # u => stores'[v] = stores[v]
  BY DEF IngestPut, SidecarTypeOK
<1>4. UNCHANGED <<acked, refused, gone, untold>> /\ stores[u].up /\ ~stores[u].doing.busy
  BY DEF IngestPut, Idle
<1>5. stores'[u].doing.frame = fr /\ fr.id = m /\ \A v \in Users : m \notin Known(stores[v])
  <2>1. fr.id = m
    BY DEF Frame
  <2>2. stores'[u].doing.frame = fr
    BY <1>2
  <2> QED
    BY <2>1, <2>2 DEF IngestPut, Fresh
<1> HIDE DEF fr
<1>6. /\ Filed(stores'[u]) = Filed(stores[u]) \cup {fr}
      /\ Known(stores'[u]) = Known(stores[u]) \cup {m}
  BY <1>2, <1>5 DEF Filed, Known, Ids
<1>7. m \notin gone /\ m \notin stores[u].tombs /\ m \notin Ids(stores[u].records) /\ m \notin stores[u].vectors
  BY <1>5 DEF DeletedOnce, RecordsFollow, Sourced, Kept, Known, Ids
<1>8. Kept(stores'[u]) = Kept(stores[u]) \cup {fr}
  BY <1>2, <1>5, <1>7 DEF Kept
<1>9. OneFrame'
  <2>1. \A v \in Users : \A f \in Filed(stores[v]) : f.id # m
    BY <1>5 DEF Filed, Known, Ids
  <2> QED
    BY <2>1, <1>3, <1>5, <1>6 DEF OneFrame
<1>10. DeletedOnce'
  BY <1>2, <1>3, <1>4, <1>6 DEF DeletedOnce
<1>11. NoTrace'
  BY <1>2, <1>3, <1>4, <1>6, <1>7 DEF NoTrace
<1>12. InHand'
  BY <1>2, <1>3, <1>4, <1>5, <1>7 DEF InHand
<1>13. RecordsFollow'
  <2>1. \A r \in stores'[u].records : Sourced(stores'[u], r)
    BY <1>2, <1>8 DEF RecordsFollow, Sourced
  <2>2. stores'[u].up /\ stores'[u].vectors \subseteq Known(stores'[u])
    BY <1>2, <1>4, <1>6 DEF RecordsFollow
  <2> QED
    BY <2>1, <2>2, <1>3 DEF RecordsFollow
<1>14. FramesRecorded'
  <2>1. stores'[u].doing.busy
    BY <1>2
  <2> QED
    BY <2>1, <1>2, <1>3, <1>4, <1>5, <1>8 DEF FramesRecorded
<1>15. AckedStays'
  BY <1>2, <1>3, <1>4, <1>6 DEF AckedStays
<1> QED
  BY <1>1, <1>9, <1>10, <1>11, <1>12, <1>13, <1>14, <1>15

LEMMA CommitStep == ASSUME NEW u \in Users PROVE SidecarInv /\ IngestCommit(u) => SidecarInv'
<1> SUFFICES ASSUME SidecarInv, IngestCommit(u) PROVE SidecarInv'
  OBVIOUS
<1> USE DEF SidecarInv
<1> DEFINE fr == stores[u].doing.frame
<1>1. SidecarTypeOK'
  BY TypeStep DEF SidecarNext
<1>2. /\ stores'[u].frames = stores[u].frames \cup stores[u].pending /\ stores'[u].pending = {}
      /\ stores'[u].tombs = stores[u].tombs /\ stores'[u].doing = Nothing
      /\ stores'[u].records = stores[u].records \cup {RecordOf(fr)}
      /\ stores'[u].vectors = stores[u].vectors \cup VectorsOf({fr}) /\ (stores'[u].up <=> stores[u].up)
  BY DEF IngestCommit, SidecarTypeOK, StoreSet
<1>3. \A v \in Users : v # u => stores'[v] = stores[v]
  BY DEF IngestCommit, SidecarTypeOK
<1>4. UNCHANGED <<refused, gone, untold>> /\ stores[u].doing.busy /\ acked' = acked \cup {fr.id}
  BY DEF IngestCommit
<1>5. ~stores'[u].doing.busy
  BY <1>2, IdleHand
<1>6. \A v \in Users : Filed(stores'[v]) = Filed(stores[v]) /\ Known(stores'[v]) = Known(stores[v])
                       /\ Kept(stores'[v]) = Kept(stores[v])
  BY <1>2, <1>3 DEF Filed, Known, Kept
<1>7. /\ fr \in stores[u].pending /\ fr.id \notin gone
      /\ fr.id \notin stores[u].vectors /\ fr.id \notin Ids(stores[u].records)
  BY <1>4 DEF InHand
<1>8. /\ RecordOf(fr).id = fr.id /\ RecordOf(fr).scope = fr.scope /\ RecordOf(fr).day = fr.day
      /\ VectorsOf({fr}) = IF fr.vec THEN {fr.id} ELSE {}
  BY DEF RecordOf, VectorsOf
<1> HIDE DEF fr
<1>9. /\ Ids(stores'[u].records) = Ids(stores[u].records) \cup {fr.id}
      /\ fr \in Kept(stores[u]) /\ fr.id \in Known(stores[u])
  BY <1>2, <1>7, <1>8 DEF Ids, Kept, Known, DeletedOnce
<1>10. OneFrame' /\ DeletedOnce'
  BY <1>2, <1>3, <1>4, <1>6 DEF OneFrame, DeletedOnce
<1>11. NoTrace'
  <2> SUFFICES ASSUME NEW v \in Users, NEW x \in gone \ untold
               PROVE  /\ x \notin Ids(stores'[v].records)
                      /\ x \in Known(stores[v]) => x \in stores'[v].tombs
    BY <1>4, <1>6 DEF NoTrace
  <2>1. x \notin Ids(stores[v].records) /\ (x \in Known(stores[v]) => x \in stores[v].tombs)
    BY DEF NoTrace
  <2>2. CASE v = u
    BY <2>1, <2>2, <1>2, <1>7, <1>9
  <2>3. CASE v # u
    BY <2>1, <2>3, <1>3
  <2> QED
    BY <2>2, <2>3
<1>12. InHand'
  BY <1>3, <1>4, <1>5 DEF InHand
<1>13. RecordsFollow'
  <2>1. ASSUME NEW r \in stores[u].records PROVE Sourced(stores'[u], r)
    <3>1. PICK f \in Kept(stores[u]) : /\ r.id = f.id /\ r.scope = f.scope /\ r.day = f.day
                                       /\ f.vec <=> f.id \in stores[u].vectors
      BY DEF RecordsFollow, Sourced
    <3>2. r.id \in Ids(stores[u].records)
      BY DEF Ids
    <3>3. f.id # fr.id
      BY <3>1, <3>2, <1>7
    <3>4. f.id \in stores[u].vectors <=> f.id \in stores'[u].vectors
      BY <3>3, <1>2, <1>8
    <3>5. f.vec <=> f.id \in stores'[u].vectors
      BY <3>1, <3>4, Zenon
    <3> QED
      BY <3>1, <3>5, <1>6 DEF Sourced
  <2>2. Sourced(stores'[u], RecordOf(fr))
    <3>1. fr.vec <=> fr.id \in stores'[u].vectors
      BY <1>2, <1>7, <1>8
    <3> QED
      BY <3>1, <1>6, <1>8, <1>9 DEF Sourced
  <2>3. stores'[u].up
    BY <1>2, <1>4 DEF RecordsFollow, Closed
  <2>4. stores'[u].vectors \subseteq Known(stores'[u])
    BY <1>2, <1>6, <1>8, <1>9 DEF RecordsFollow
  <2> QED
    BY <2>1, <2>2, <2>3, <2>4, <1>2, <1>3 DEF RecordsFollow
<1>14. FramesRecorded'
  <2>1. stores[u].up
    BY <1>4 DEF RecordsFollow, Closed
  <2>2. \A f \in Kept(stores[u]) : f.id \in Ids(stores'[u].records) \cup refused \cup untold
    BY <2>1, <1>9 DEF FramesRecorded, fr
  <2> QED
    BY <2>2, <1>3, <1>4, <1>6 DEF FramesRecorded
<1>15. AckedStays'
  <2>1. \A x \in acked \ gone : \E v \in Users : Safe(v, x)
    BY DEF AckedStays, Safe
  <2>2. ASSUME NEW v \in Users, NEW x, Safe(v, x) PROVE Safe(v, x)'
    BY <2>2, <1>2, <1>3, <1>6, <1>9 DEF Safe
  <2>3. ASSUME NEW x, x = fr.id PROVE Safe(u, x)'
    BY <2>3, <1>6, <1>9 DEF Safe
  <2>4. \A x \in acked' \ gone' : \E v \in Users : Safe(v, x)'
    BY <2>1, <2>2, <2>3, <1>4
  <2> QED
    BY <2>4 DEF AckedStays, Safe
<1> QED
  BY <1>1, <1>10, <1>11, <1>12, <1>13, <1>14, <1>15

LEMMA FailStep == ASSUME NEW u \in Users PROVE SidecarInv /\ IngestFails(u) => SidecarInv'
<1> SUFFICES ASSUME SidecarInv, IngestFails(u) PROVE SidecarInv'
  OBVIOUS
<1> USE DEF SidecarInv
<1>1. SidecarTypeOK'
  BY TypeStep DEF SidecarNext
<1>2. /\ stores'[u].frames = stores[u].frames /\ stores'[u].pending = stores[u].pending
      /\ stores'[u].tombs = stores[u].tombs /\ stores'[u].doing = Nothing
      /\ stores'[u].records = stores[u].records
      /\ stores'[u].vectors = stores[u].vectors /\ (stores'[u].up <=> stores[u].up)
  BY DEF IngestFails, SidecarTypeOK, StoreSet
<1>3. \A v \in Users : v # u => stores'[v] = stores[v]
  BY DEF IngestFails, SidecarTypeOK
<1>4. UNCHANGED <<acked, gone, untold>> /\ refused' = refused \cup {stores[u].doing.frame.id}
  BY DEF IngestFails
<1>5. ~stores'[u].doing.busy
  BY <1>2, IdleHand
<1>6. \A v \in Users : Filed(stores'[v]) = Filed(stores[v]) /\ Known(stores'[v]) = Known(stores[v])
                       /\ Kept(stores'[v]) = Kept(stores[v])
  BY <1>2, <1>3 DEF Filed, Known, Kept
<1>7. OneFrame' /\ DeletedOnce' /\ NoTrace'
  BY <1>2, <1>3, <1>4, <1>6 DEF OneFrame, DeletedOnce, NoTrace
<1>8. InHand'
  BY <1>3, <1>4, <1>5 DEF InHand
<1>9. RecordsFollow'
  <2>1. \A r \in stores'[u].records : Sourced(stores'[u], r)
    BY <1>2, <1>6 DEF RecordsFollow, Sourced
  <2>2. ~stores'[u].up => Closed(stores'[u])
    BY <1>2, <1>5 DEF RecordsFollow, Closed
  <2>3. stores'[u].vectors \subseteq Known(stores'[u])
    BY <1>2, <1>6 DEF RecordsFollow
  <2> QED
    BY <2>1, <2>2, <2>3, <1>3 DEF RecordsFollow
<1>10. FramesRecorded'
  BY <1>2, <1>3, <1>4, <1>6 DEF FramesRecorded
<1>11. AckedStays'
  BY <1>2, <1>3, <1>4, <1>6 DEF AckedStays
<1> QED
  BY <1>1, <1>7, <1>8, <1>9, <1>10, <1>11

LEMMA DeleteStep ==
  ASSUME NEW u \in Users, NEW m \in Memories, NEW written \in BOOLEAN
  PROVE  SidecarInv /\ Delete(u, m, written) => SidecarInv'
<1> SUFFICES ASSUME SidecarInv, Delete(u, m, written) PROVE SidecarInv'
  OBVIOUS
<1> USE DEF SidecarInv
<1>1. SidecarTypeOK'
  BY TypeStep DEF SidecarNext
<1>2. /\ stores'[u].frames = stores[u].frames /\ stores'[u].pending = stores[u].pending
      /\ stores'[u].doing = stores[u].doing
      /\ stores'[u].records = {r \in stores[u].records : r.id # m}
      /\ stores'[u].vectors = stores[u].vectors /\ (stores'[u].up <=> stores[u].up)
  BY DEF Delete, SidecarTypeOK, StoreSet
<1>3. \/ stores'[u].tombs = stores[u].tombs \cup {m} /\ untold' = untold
      \/ stores'[u].tombs = stores[u].tombs /\ untold' = untold \cup {m}
  BY DEF Delete, SidecarTypeOK, StoreSet
<1>4. \A v \in Users : v # u => stores'[v] = stores[v]
  BY DEF Delete, SidecarTypeOK
<1>5. /\ UNCHANGED <<acked, refused>> /\ gone' = gone \cup {m}
      /\ stores[u].up /\ ~stores[u].doing.busy /\ m \in Ids(stores[u].records)
  BY DEF Delete, Idle
<1>6. \A v \in Users : Filed(stores'[v]) = Filed(stores[v]) /\ Known(stores'[v]) = Known(stores[v])
  BY <1>2, <1>4 DEF Filed, Known
<1>7. Ids(stores'[u].records) = Ids(stores[u].records) \ {m}
  BY <1>2 DEF Ids
<1>8. m \in Known(stores[u]) /\ \A v \in Users : v # u => m \notin Known(stores[v])
  <2>1. m \in Known(stores[u])
    BY <1>5 DEF RecordsFollow, Sourced, Kept, Known, Ids
  <2>2. \A v \in Users : m \in Known(stores[v]) => \E f \in Filed(stores[v]) : f.id = m
    BY DEF Known, Ids, Filed
  <2> QED
    BY <2>1, <2>2 DEF OneFrame
<1>9. OneFrame'
  BY <1>6 DEF OneFrame
<1>10. DeletedOnce'
  <2>1. \A v \in Users : stores'[v].tombs \subseteq gone'
    BY <1>3, <1>4, <1>5 DEF DeletedOnce
  <2>2. \A n \in gone' : \E v \in Users : n \in Known(stores'[v])
    BY <1>5, <1>6, <1>8 DEF DeletedOnce
  <2> QED
    BY <2>1, <2>2 DEF DeletedOnce
<1>11. NoTrace'
  <2> SUFFICES ASSUME NEW v \in Users, NEW n \in gone' \ untold'
               PROVE  n \notin Ids(stores'[v].records) /\ (n \in Known(stores'[v]) => n \in stores'[v].tombs)
    BY DEF NoTrace
  <2>1. CASE n = m
    <3>1. v # u => m \notin Ids(stores[v].records)
      BY <1>8 DEF RecordsFollow, Sourced, Kept, Known, Ids
    <3> QED
      BY <3>1, <2>1, <1>3, <1>4, <1>6, <1>7, <1>8
  <2>2. CASE n # m
    BY <2>2, <1>3, <1>4, <1>5, <1>6, <1>7 DEF NoTrace
  <2> QED
    BY <2>1, <2>2
<1>12. InHand'
  <2> SUFFICES ASSUME NEW v \in Users, stores'[v].doing.busy
               PROVE  /\ stores'[v].doing.frame \in stores'[v].pending
                      /\ stores'[v].doing.frame.id \notin gone' \cup stores'[v].vectors \cup Ids(stores'[v].records)
    BY DEF InHand
  <2>1. v # u /\ stores'[v] = stores[v]
    BY <1>2, <1>4, <1>5
  <2>2. stores[v].doing.frame.id \in Known(stores[v])
    BY <2>1 DEF InHand, Known, Ids
  <2> QED
    BY <2>1, <2>2, <1>5, <1>8 DEF InHand
<1>13. RecordsFollow'
  <2>1. ASSUME NEW r \in stores'[u].records PROVE Sourced(stores'[u], r)
    <3>1. PICK f \in Kept(stores[u]) : /\ r.id = f.id /\ r.scope = f.scope /\ r.day = f.day
                                       /\ f.vec <=> f.id \in stores[u].vectors
      BY <1>2 DEF RecordsFollow, Sourced
    <3>2. r.id # m
      BY <1>2
    <3>3. f \in Kept(stores'[u])
      BY <3>1, <3>2, <1>2, <1>3 DEF Kept
    <3> QED
      BY <3>1, <3>3, <1>2 DEF Sourced
  <2>2. stores'[u].up /\ stores'[u].vectors \subseteq Known(stores'[u])
    BY <1>2, <1>5, <1>6 DEF RecordsFollow
  <2> QED
    BY <2>1, <2>2, <1>4 DEF RecordsFollow
<1>14. FramesRecorded'
  <2> SUFFICES ASSUME NEW f \in Kept(stores'[u])
               PROVE  f.id \in Ids(stores'[u].records) \cup refused' \cup untold'
    BY <1>3, <1>4, <1>5 DEF FramesRecorded
  <2>1. f \in Kept(stores[u])
    BY <1>2, <1>3 DEF Kept
  <2>2. f.id \in Ids(stores[u].records) \cup refused \cup untold
    BY <2>1, <1>5 DEF FramesRecorded
  <2>3. f.id = m => m \in untold'
    BY <1>2, <1>3 DEF Kept
  <2> QED
    BY <2>2, <2>3, <1>3, <1>5, <1>7
<1>15. AckedStays'
  BY <1>2, <1>4, <1>5, <1>6, <1>7 DEF AckedStays
<1> QED
  BY <1>1, <1>9, <1>10, <1>11, <1>12, <1>13, <1>14, <1>15

LEMMA MaintainStep == ASSUME NEW u \in Users PROVE SidecarInv /\ Maintain(u) => SidecarInv'
<1> SUFFICES ASSUME SidecarInv, Maintain(u) PROVE SidecarInv'
  OBVIOUS
<1> USE DEF SidecarInv
<1>1. SidecarTypeOK'
  BY TypeStep DEF SidecarNext
<1> DEFINE marked == {[r EXCEPT !.expired = @ \/ today - r.day > Ttl] : r \in stores[u].records}
<1>2. /\ stores'[u].frames = stores[u].frames /\ stores'[u].pending = stores[u].pending
      /\ stores'[u].tombs = stores[u].tombs /\ stores'[u].doing = stores[u].doing
      /\ stores'[u].records = marked
      /\ stores'[u].vectors = stores[u].vectors /\ (stores'[u].up <=> stores[u].up)
  BY DEF Maintain, SidecarTypeOK, StoreSet
<1>3. \A v \in Users : v # u => stores'[v] = stores[v]
  BY DEF Maintain, SidecarTypeOK
<1>4. UNCHANGED <<acked, refused, gone, untold>> /\ stores[u].up
  BY DEF Maintain, Idle
<1>5. /\ \A r \in stores[u].records : \E q \in marked : q.id = r.id
      /\ \A q \in marked : \E r \in stores[u].records : q.id = r.id /\ q.scope = r.scope /\ q.day = r.day
  <2>1. \A r \in stores[u].records : r \in RecordSet
    BY StoreParts
  <2> DEFINE mark(r) == [r EXCEPT !.expired = @ \/ today - r.day > Ttl]
  <2>2. \A r \in stores[u].records : mark(r).id = r.id /\ mark(r).scope = r.scope /\ mark(r).day = r.day
    BY <2>1, MarkedParts
  <2>3. marked = {mark(r) : r \in stores[u].records}
    OBVIOUS
  <2> HIDE DEF mark, marked
  <2> QED
    BY <2>2, <2>3
<1> HIDE DEF marked
<1>6. Ids(stores'[u].records) = Ids(stores[u].records)
  BY <1>2, <1>5 DEF Ids
<1>7. \A v \in Users : Filed(stores'[v]) = Filed(stores[v]) /\ Known(stores'[v]) = Known(stores[v])
                       /\ Kept(stores'[v]) = Kept(stores[v])
  BY <1>2, <1>3 DEF Filed, Known, Kept
<1>8. OneFrame' /\ DeletedOnce' /\ NoTrace'
  BY <1>2, <1>3, <1>4, <1>6, <1>7 DEF OneFrame, DeletedOnce, NoTrace
<1>9. InHand'
  BY <1>2, <1>3, <1>4, <1>6 DEF InHand
<1>10. RecordsFollow'
  <2>1. \A q \in stores'[u].records : Sourced(stores'[u], q)
    BY <1>2, <1>5, <1>7 DEF RecordsFollow, Sourced
  <2>2. stores'[u].up /\ stores'[u].vectors \subseteq Known(stores'[u])
    BY <1>2, <1>4, <1>7 DEF RecordsFollow
  <2> QED
    BY <2>1, <2>2, <1>3 DEF RecordsFollow
<1>11. FramesRecorded'
  BY <1>2, <1>3, <1>4, <1>6, <1>7 DEF FramesRecorded
<1>12. AckedStays'
  BY <1>2, <1>3, <1>4, <1>6, <1>7 DEF AckedStays
<1> QED
  BY <1>1, <1>8, <1>9, <1>10, <1>11, <1>12

-----------------------------------------------------------------------------
LEMMA StepHolds == SidecarInv /\ [SidecarNext]_sidecarVars => SidecarInv'
<1> SUFFICES ASSUME SidecarInv, [SidecarNext]_sidecarVars PROVE SidecarInv'
  OBVIOUS
<1>1. ASSUME UNCHANGED <<stores, today, acked, refused, gone, untold>> PROVE SidecarInv'
  <2> USE <1>1 DEF SidecarInv
  <2>1. SidecarTypeOK' /\ OneFrame'
    BY DEF SidecarTypeOK, OneFrame
  <2>2. DeletedOnce' /\ NoTrace' /\ InHand'
    BY DEF DeletedOnce, NoTrace, InHand
  <2>3. RecordsFollow'
    BY DEF RecordsFollow
  <2>4. FramesRecorded' /\ AckedStays'
    BY DEF FramesRecorded, AckedStays
  <2> QED
    BY <2>1, <2>2, <2>3, <2>4
<1>2. CASE NextDay
  <2> USE DEF SidecarInv
  <2>1. UNCHANGED <<stores, acked, refused, gone, untold>> /\ SidecarTypeOK'
    BY <1>2, TypeStep DEF SidecarNext, NextDay
  <2>2. OneFrame' /\ DeletedOnce' /\ NoTrace' /\ InHand'
    BY <2>1 DEF OneFrame, DeletedOnce, NoTrace, InHand
  <2>3. RecordsFollow'
    BY <2>1 DEF RecordsFollow
  <2>4. FramesRecorded' /\ AckedStays'
    BY <2>1 DEF FramesRecorded, AckedStays
  <2> QED
    BY <2>1, <2>2, <2>3, <2>4
<1>3. ASSUME NEW u \in Users, NEW scope, NEW withExpired, Retrieve(u, scope, withExpired) \/ List(u, scope, withExpired)
      PROVE  SidecarInv'
  BY <1>1, <1>3 DEF Retrieve, List
<1>4. CASE UNCHANGED sidecarVars
  BY <1>1, <1>4 DEF sidecarVars
<1> QED
  BY <1>2, <1>3, <1>4, CrashStep, OpenStep, PutStep, CommitStep, FailStep, DeleteStep, MaintainStep DEF SidecarNext

\* The files, the records and the vectors of the service agree about every
\* memory at every step, crash and restart (memvid_service/src/main.rs).
THEOREM ServiceInvariant == SidecarSpec => []SidecarInv
<1> QED
  BY InitHolds, StepHolds, PTL DEF SidecarSpec

\* An answer names memories that have a record.
LEMMA AnswersRecorded ==
  ASSUME NEW u \in Users, NEW scope, NEW withExpired,
         Retrieve(u, scope, withExpired) \/ List(u, scope, withExpired)
  PROVE  reply' \subseteq Ids(stores[u].records)
<1> DEFINE s == stores[u]
<1>1. \A S, k : \A x \in Best(S, k) : x \subseteq S
  BY DEF Best, kSubset
<1>2. \A proposed : Shown(s, proposed, scope, withExpired) \subseteq Ids(s.records)
  BY DEF Shown, Ids
<1>3. \A x \in ByText(s, scope, withExpired) : x \subseteq Ids(s.records)
  BY <1>1, <1>2 DEF ByText
<1>4. \A x \in ByVector(s, scope, withExpired) : x \subseteq Ids(s.records)
  BY <1>1, <1>2 DEF ByVector
<1>5. \A x \in ByBoth(s, scope, withExpired) : x \subseteq Ids(s.records)
  <2>1. ASSUME NEW x \in ByText(s, scope, withExpired), NEW y \in ByVector(s, scope, withExpired),
               NEW z \in Best(x \cup y, TopK)
        PROVE  z \subseteq Ids(s.records)
    <3>1. x \cup y \subseteq Ids(s.records)
      BY <1>3, <1>4
    <3> QED
      BY <3>1, <1>1
  <2>2. ASSUME NEW z \in ByBoth(s, scope, withExpired) PROVE z \subseteq Ids(s.records)
    <3> DEFINE texts == ByText(s, scope, withExpired)
               nears == ByVector(s, scope, withExpired)
               all == UNION {Best(x \cup y, TopK) : x \in texts, y \in nears}
    <3>1. z \in all
      BY DEF ByBoth
    <3>2. \A x \in texts, y \in nears : \A w \in Best(x \cup y, TopK) : w \subseteq Ids(s.records)
      BY <2>1
    <3> HIDE DEF texts, nears, s
    <3>3. \A w \in all : \E x \in texts, y \in nears : w \in Best(x \cup y, TopK)
      OBVIOUS
    <3> HIDE DEF all
    <3> QED
      BY <3>1, <3>2, <3>3
  <2> QED
    BY <2>2
<1>6. CASE Retrieve(u, scope, withExpired)
  BY <1>3, <1>4, <1>5, <1>6 DEF Retrieve
<1>7. CASE List(u, scope, withExpired)
  BY <1>7 DEF List, Ids
<1> QED
  BY <1>6, <1>7

\* No answer names a memory whose deletion was acknowledged and written before
\* it was given, whatever crashed and was reopened in between (main.rs delete).
THEOREM DeletedHolds == SidecarSpec => DeletedStaysGone
<1>1. SidecarInv /\ [SidecarNext]_sidecarVars => [reply' # reply => reply' \cap (gone \ untold) = {}]_sidecarVars
  <2> SUFFICES ASSUME SidecarInv, SidecarNext, reply' # reply PROVE reply' \cap (gone \ untold) = {}
    BY DEF sidecarVars
  <2>1. PICK u, scope, withExpired :
          u \in Users /\ (Retrieve(u, scope, withExpired) \/ List(u, scope, withExpired))
    BY DEF SidecarNext, Crash, NextDay, OpenStore, IngestPut, IngestCommit, IngestFails, Delete, Maintain
  <2>2. reply' \subseteq Ids(stores[u].records)
    BY <2>1, AnswersRecorded
  <2> QED
    BY <2>1, <2>2 DEF SidecarInv, NoTrace
<1> QED
  BY <1>1, ServiceInvariant, PTL DEF SidecarSpec, DeletedStaysGone

\* What a restart rebuilds is what the service had in memory, except what was
\* refused, unwritten or expired, and no acknowledged memory is lost but by its
\* deletion (main.rs new, ingest).
THEOREM RestartHolds == SidecarSpec => []RestartAgrees
<1>1. SidecarInv => Rebuilds
  <2> SUFFICES ASSUME SidecarInv, NEW u \in Users, Idle(u)
               PROVE  LET s == stores[u]
                          again == Opened(Down(s))
                          lasting == {[r EXCEPT !.expired = FALSE] : r \in s.records}
                      IN /\ lasting \subseteq again.records
                         /\ Ids(again.records) \subseteq Ids(lasting) \cup refused \cup untold
                         /\ (s.vectors \cap Ids(lasting)) = (again.vectors \cap Ids(lasting))
    BY DEF Rebuilds
  <2> USE DEF SidecarInv
  <2> DEFINE s == stores[u]
             again == Opened(Down(s))
             lasting == {[r EXCEPT !.expired = FALSE] : r \in s.records}
  <2>1. s \in StoreSet /\ s.records \subseteq RecordSet /\ s.up /\ ~s.doing.busy
    BY StoreParts DEF SidecarTypeOK, Idle
  <2>2. /\ Kept(Down(s)) = Kept(s)
        /\ again.records = {RecordOf(f) : f \in Kept(s)} /\ again.vectors = VectorsOf(Kept(s))
    BY <2>1 DEF Opened, Down, Kept, StoreSet
  <2>3. Kept(s) \subseteq Filed(s) /\ \A f, g \in Kept(s) : f.id = g.id => f = g
    BY DEF Kept, Filed, OneFrame
  <2>4. /\ \A f \in Kept(s) : RecordOf(f).id = f.id
        /\ Ids(again.records) = Ids(Kept(s))
    <3>1. \A f : RecordOf(f).id = f.id
      BY DEF RecordOf
    <3> HIDE DEF again
    <3> QED
      BY <2>2, <3>1 DEF Ids
  <2>5. Ids(lasting) = Ids(s.records)
    <3>1. \A r \in s.records : [r EXCEPT !.expired = FALSE].id = r.id
      BY <2>1, MarkedParts
    <3> QED
      BY <3>1 DEF Ids
  <2>6. lasting \subseteq again.records
    <3> SUFFICES ASSUME NEW r \in s.records PROVE [r EXCEPT !.expired = FALSE] \in again.records
      OBVIOUS
    <3>1. PICK f \in Kept(s) : r.id = f.id /\ r.scope = f.scope /\ r.day = f.day
      BY DEF RecordsFollow, Sourced
    <3>2. [r EXCEPT !.expired = FALSE] = RecordOf(f)
      <4>1. [r EXCEPT !.expired = FALSE] = [id |-> r.id, scope |-> r.scope, day |-> r.day, expired |-> FALSE]
        BY <2>1, MarkedParts
      <4> QED
        BY <4>1, <3>1 DEF RecordOf
    <3> QED
      BY <3>2, <2>2
  <2>7. Ids(again.records) \subseteq Ids(lasting) \cup refused \cup untold
    BY <2>1, <2>4, <2>5 DEF FramesRecorded, Ids
  <2>8. \A n \in Ids(s.records) : n \in s.vectors <=> n \in again.vectors
    <3> SUFFICES ASSUME NEW r \in s.records PROVE r.id \in s.vectors <=> r.id \in VectorsOf(Kept(s))
      BY <2>2 DEF Ids
    <3>1. PICK f \in Kept(s) : r.id = f.id /\ (f.vec <=> f.id \in s.vectors)
      BY DEF RecordsFollow, Sourced
    <3>2. f.id \in VectorsOf(Kept(s)) <=> f.vec
      BY <2>3 DEF VectorsOf
    <3> QED
      BY <3>1, <3>2
  <2> QED
    BY <2>5, <2>6, <2>7, <2>8
<1>2. SidecarInv => RestartAgrees
  BY <1>1 DEF SidecarInv, RestartAgrees
<1> QED
  BY <1>2, ServiceInvariant, PTL

=============================================================================
