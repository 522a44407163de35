---------------------------- MODULE AgentVersions ----------------------------
(* How durable memories live in a memvid file                                 *)
(* (agent_memory/adapters/memvid_store.rs MemvidStore): every version of a    *)
(* memory, every batch of access touches and every expiry is a frame put and  *)
(* committed first, and a memory card pointing at it put and committed        *)
(* afterwards.  A memory is what its newest carded version says, with the     *)
(* latest access touch applied on top; touches are cached per process.  The   *)
(* controller's calls are retrieve (touch_retrieved_memories), outcome        *)
(* feedback and maintenance.  The clock advances with every operation.        *)
EXTENDS Integers, FiniteSets, Sequences, SequencesExt, FiniteSetsExt

CONSTANTS Memories,      \* memory ids
          MaxOps,        \* bound on the operations
          MaxStops,      \* bound on process crashes
          MemoryTtl,     \* age from which retention calls a memory expired
          LateReports    \* TRUE when feedback may be about an earlier moment

ASSUME VersionAssumption == IsFiniteSet(Memories)

VARIABLES versions,     \* the committed frames, in frame order
          carded,       \* numbers of the frames a committed card points at
          touchCache,   \* access_touch_cache: a touch, NoTouch or Unread
          writing,      \* frames committed whose cards are not: the call under way
          moment,       \* the clock
          stops,        \* crashes so far
          accepted      \* outcomes and retrievals that returned Ok, per memory

versionVars == <<versions, carded, touchCache, writing, moment, stops, accepted>>

NoTouch == [seen |-> 0, count |-> 0]
Unread == [seen |-> -1, count |-> 0]
Idle == writing = {}

VersionFrame(id, at, stored, count, seen, rated) ==
  [kind |-> "memory", id |-> id, at |-> at, stored |-> stored, count |-> count, seen |-> seen,
   rated |-> rated]
\* Mutant: the frame carries the number of accesses of its batch.
TouchFrameBatch(id, at, total) ==
  [kind |-> "touch", id |-> id, at |-> at, stored |-> at, count |-> 1, seen |-> at, rated |-> 0]
\* The frame of an access touch carries the total, not an increment.
TouchFrame(id, at, total) ==
  [kind |-> "touch", id |-> id, at |-> at, stored |-> at, count |-> total, seen |-> at, rated |-> 0]
ExpiryFrame(id, at) ==
  [kind |-> "expiry", id |-> id, at |-> at, stored |-> at, count |-> 0, seen |-> 0, rated |-> 0]

------------------------------------------------------------------------------
(* Reads. *)

\* Cards are put in the order of their frames.
CardedOf(kind, id) == {i \in carded : versions[i].kind = kind /\ versions[i].id = id}
\* Mutant: versions are compared by the day the memory was ingested.
StoredLater(x, y) == x.stored > y.stored
\* memory_is_newer on versions of one memory: a tie keeps the earlier one.
MemoryIsNewer(x, y) == x.at > y.at
NewestOf(cards) ==
  versions[CHOOSE i \in cards : \A j \in cards :
             /\ ~MemoryIsNewer(versions[j], versions[i])
             /\ j < i => MemoryIsNewer(versions[i], versions[j])]
Stored(id) == CardedOf("memory", id) # {}

\* The cached touch, or else the carded one with the latest access time.
TouchOf(f) == [seen |-> f.seen, count |-> f.count]
CardedTouch(id) ==
  IF CardedOf("touch", id) = {} THEN NoTouch ELSE TouchOf(NewestOf(CardedOf("touch", id)))
LatestTouch(id) == IF touchCache[id] # Unread THEN touchCache[id] ELSE CardedTouch(id)
\* A touch counts only when it is later than the access the version records.
WithTouch(f, touch) ==
  IF touch.seen > f.seen
  THEN [f EXCEPT !.count = touch.count, !.seen = touch.seen, !.at = Max({@, touch.seen})]
  ELSE f
GetMemory(id) == WithTouch(NewestOf(CardedOf("memory", id)), LatestTouch(id))

IsExpired(id) == CardedOf("expiry", id) # {}
\* search: memories whose text matches, found through their cards or through
\* the engine's index, which knows the frame as soon as it is committed.
Searched == {id \in Memories : \E i \in DOMAIN versions :
               versions[i].kind = "memory" /\ versions[i].id = id}
Listed == {id \in Memories : Stored(id)}

------------------------------------------------------------------------------
(* Writes: first the frames, then their cards. *)

Started(frames) ==
  /\ Len(versions) + Len(frames) <= 2 * MaxOps
  /\ versions' = versions \o frames
  /\ writing' = (Len(versions) + 1) .. (Len(versions) + Len(frames))
  /\ moment' = moment + 1
  /\ UNCHANGED <<carded, touchCache, stops, accepted>>
MayStart == Idle /\ moment < MaxOps

\* A new memory, or a candidate stored again under its id: the candidate has
\* no access or outcome history of its own.
PutMemory == \E id \in Memories :
  MayStart /\ ~Stored(id) /\ Started(<<VersionFrame(id, moment, moment, 0, 0, 0)>>)

\* record_outcome_feedback: the memory as get_memory returns it, with one more
\* outcome, as a version dated by the caller.
GiveFeedback == \E id \in Memories, at \in 0..moment :
  /\ MayStart /\ Stored(id) /\ (at = moment \/ LateReports)
  /\ LET f == GetMemory(id)
     IN Started(<<VersionFrame(id, at, f.stored, f.count, f.seen, f.rated + 1)>>)

\* retrieve with touches on: every found memory that is stored and not expired,
\* once; the new total is the current count and one more.
Retrieved == \E hits \in (SUBSET Searched) \ {{}} :
  LET touched == SetToSeq({id \in hits : Stored(id) /\ ~IsExpired(id)})
  IN /\ MayStart /\ touched # <<>>
     /\ Started([i \in DOMAIN touched |->
                   TouchFrame(touched[i], moment, GetMemory(touched[i]).count + 1)])

\* run_maintenance expires what retention calls expired, and does so again each
\* time it runs.
Due(id) == Stored(id) /\ GetMemory(id).stored + MemoryTtl <= moment
Maintained == \E id \in Memories : MayStart /\ Due(id) /\ Started(<<ExpiryFrame(id, moment)>>)

\* The cards; the cache learns a touch only now.
WriteCards ==
  /\ ~Idle
  /\ carded' = carded \cup writing
  /\ LET wrote(kind, id) == {i \in writing : versions[i].kind = kind /\ versions[i].id = id}
         rated(id) == \E i \in wrote("memory", id) : versions[i].rated > 0
     IN /\ touchCache' = [id \in Memories |->
             IF wrote("touch", id) = {} THEN touchCache[id]
             ELSE TouchOf(versions[Max(wrote("touch", id))])]
        /\ accepted' = [id \in Memories |->
             [rated |-> accepted[id].rated + (IF rated(id) THEN 1 ELSE 0),
              recalled |-> accepted[id].recalled + (IF wrote("touch", id) # {} THEN 1 ELSE 0)]]
  /\ writing' = {}
  /\ UNCHANGED <<versions, moment, stops>>

\* Reading caches what it read.
ReadTouch == \E id \in Memories :
  /\ Idle /\ Stored(id) /\ touchCache[id] = Unread
  /\ touchCache' = [touchCache EXCEPT ![id] = LatestTouch(id)]
  /\ UNCHANGED <<versions, carded, writing, moment, stops, accepted>>

Stop ==
  /\ stops < MaxStops
  /\ stops' = stops + 1
  /\ writing' = {}
  /\ touchCache' = [id \in Memories |-> Unread]
  /\ UNCHANGED <<versions, carded, moment, accepted>>

VersionInit ==
  /\ versions = <<>> /\ carded = {} /\ writing = {} /\ moment = 1 /\ stops = 0
  /\ touchCache = [id \in Memories |-> Unread]
  /\ accepted = [id \in Memories |-> [rated |-> 0, recalled |-> 0]]
VersionNext == \/ PutMemory \/ GiveFeedback \/ Retrieved \/ Maintained \/ WriteCards \/ ReadTouch \/ Stop
VersionSpec == VersionInit /\ [][VersionNext]_versionVars

------------------------------------------------------------------------------
\* Every outcome accepted for a memory is in its counts.  With reports about an
\* earlier moment it is not: the version that carries the outcome is dated by
\* the report, so an older version stays the memory.
OutcomesKept == \A id \in Memories : Stored(id) => GetMemory(id).rated >= accepted[id].rated

\* The number of retrievals a memory reports is the number there were: also
\* when feedback writes a new version of it, and when a restart drops the cache
\* and the touches are read back from their frames.
AccessCounted == \A id \in Memories : Stored(id) => GetMemory(id).count = accepted[id].recalled

\* Feedback and accesses survive later versions, maintenance and crashes
\* between a frame and its card (agent_memory/adapters/memvid_store.rs).
FeedbackKept == OutcomesKept /\ AccessCounted
=============================================================================
