--------------------------- MODULE MemvidSidecar ---------------------------
(****************************************************************************)
(* The HTTP service beside the engine (memvid_service/src/main.rs): one      *)
(* store per user, each a memory file, a file of deleted ids, and what the   *)
(* process rebuilds from both when it opens the store: records and an index  *)
(* of vectors.  A store is used under its lock, so a handler is one step     *)
(* except where the process can die or the engine can fail within it; the    *)
(* engine is sound: it reads back every frame that it committed or logged.   *)
(****************************************************************************)
EXTENDS Integers, FiniteSets, FiniteSetsExt

CONSTANTS
  Users,
  Default,    \* the user whose store is opened first
  Memories,   \* ids a new memory may get
  Scopes,
  Days,       \* bound: days on which something happens
  TopK        \* hits of an answer

VARIABLES
  stores,     \* user -> files and open store
  today,
  acked,      \* ghost: memories whose ingestion was acknowledged
  refused,    \* ghost: memories whose ingestion was answered by an error
  gone,       \* ghost: memories that were deleted
  untold,     \* ghost: those of them whose id could not be written
  reply       \* memories named by the last answer

sidecarVars == <<stores, today, acked, refused, gone, untold, reply>>

Ttl == 7
AnyScope == "any"
Nothing == [busy |-> FALSE]

\* A frame carries what a record is rebuilt from.
Frame(m, scope, vec) == [id |-> m, scope |-> scope, day |-> today, vec |-> vec]
RecordOf(f) == [id |-> f.id, scope |-> f.scope, day |-> f.day, expired |-> FALSE]
Ids(S) == {x.id : x \in S}

Known(s) == Ids(s.frames \cup s.pending)
Fresh(m) == \A u \in Users : m \notin Known(stores[u])

-----------------------------------------------------------------------------
\* Opening: the log of the memory is applied, then every frame is a record and
\* perhaps a vector, unless its id is among the deleted ones.
\* A mutant: the deleted ids are read and not looked at.
KeptUnchecked(s) == s.frames \cup s.pending
Kept(s) == {f \in s.frames \cup s.pending : f.id \notin s.tombs}
VectorsOf(frames) == {f.id : f \in {g \in frames : g.vec}}

\* A mutant: the vectors are not rebuilt.
OpenForgetful(s) ==
  [s EXCEPT !.up = TRUE, !.frames = s.frames \cup s.pending, !.pending = {},
            !.records = {RecordOf(f) : f \in Kept(s)}]

Opened(s) ==
  [s EXCEPT !.up = TRUE, !.frames = s.frames \cup s.pending, !.pending = {},
            !.records = {RecordOf(f) : f \in Kept(s)}, !.vectors = VectorsOf(Kept(s))]

\* The default store is opened before the service listens, the others by the
\* first request of their user.
OpenStore(u) ==
  /\ ~stores[u].up
  /\ u = Default \/ stores[Default].up
  /\ stores' = [stores EXCEPT ![u] = Opened(@)]
  /\ UNCHANGED <<today, acked, refused, gone, untold, reply>>

Down(s) == [s EXCEPT !.up = FALSE, !.records = {}, !.vectors = {}, !.doing = Nothing]
Crash ==
  /\ \E u \in Users : stores[u].up
  /\ stores' = [u \in Users |-> Down(stores[u])]
  /\ UNCHANGED <<today, acked, refused, gone, untold, reply>>

Idle(u) == stores[u].up /\ ~stores[u].doing.busy

-----------------------------------------------------------------------------
\* ingest: the put reaches the log of the memory, then the commit its file; only
\* then the vector and the record are added and the id is answered.
IngestPut(u, m, scope, vec) ==
  /\ Idle(u)
  /\ Fresh(m)
  /\ stores' = [stores EXCEPT ![u].pending = @ \cup {Frame(m, scope, vec)},
                              ![u].doing = [busy |-> TRUE, frame |-> Frame(m, scope, vec)]]
  /\ UNCHANGED <<today, acked, refused, gone, untold, reply>>

IngestCommit(u) ==
  LET s == stores[u] IN
  /\ s.doing.busy
  /\ stores' = [stores EXCEPT ![u] =
       [s EXCEPT !.frames = @ \cup s.pending, !.pending = {}, !.doing = Nothing,
                 !.records = @ \cup {RecordOf(s.doing.frame)},
                 !.vectors = @ \cup VectorsOf({s.doing.frame})]]
  /\ acked' = acked \cup {s.doing.frame.id}
  /\ UNCHANGED <<today, refused, gone, untold, reply>>

\* The commit fails, or the put behind its log: an error is answered, and the log
\* still has the frame.
IngestFails(u) ==
  LET s == stores[u] IN
  /\ s.doing.busy
  /\ stores' = [stores EXCEPT ![u].doing = Nothing]
  /\ refused' = refused \cup {s.doing.frame.id}
  /\ UNCHANGED <<today, acked, gone, untold, reply>>

\* delete forgets the record and appends the id to the file; a failure to do so
\* is not reported. The frame and the vector stay. (A process that dies behind
\* the write leaves what it leaves when it dies behind the answer.)
Delete(u, m, written) ==
  /\ Idle(u)
  /\ m \in Ids(stores[u].records)
  /\ stores' = [stores EXCEPT ![u].records = {r \in @ : r.id # m},
                              ![u].tombs = IF written THEN @ \cup {m} ELSE @]
  /\ gone' = gone \cup {m}
  /\ untold' = IF written THEN untold ELSE untold \cup {m}
  /\ UNCHANGED <<today, acked, refused, reply>>

\* maintain marks records that are older than a week, in memory only.
Maintain(u) ==
  /\ Idle(u)
  /\ stores' = [stores EXCEPT ![u].records =
       {[r EXCEPT !.expired = @ \/ today - r.day > Ttl] : r \in @}]
  /\ UNCHANGED <<today, acked, refused, gone, untold, reply>>

-----------------------------------------------------------------------------
\* Answers.

Passes(r, scope, withExpired) ==
  /\ withExpired \/ ~r.expired
  /\ scope \in {AnyScope, r.scope}

\* The best of S: scores may order it in every way.
Best(S, k) == kSubset(IF Cardinality(S) < k THEN Cardinality(S) ELSE k, S)

\* Of the ids an index proposes, those with a record that may be shown.
Shown(s, proposed, scope, withExpired) ==
  Ids({r \in s.records : r.id \in proposed /\ Passes(r, scope, withExpired)})

\* The full text index proposes the frames with the words of the query, the
\* vectors their nearest four times TopK, those of deleted memories included.
ByText(s, scope, withExpired) ==
  UNION {Best(Shown(s, matching, scope, withExpired), TopK) : matching \in SUBSET Ids(s.frames)}
ByVector(s, scope, withExpired) ==
  UNION {Best(Shown(s, near, scope, withExpired), TopK) : near \in Best(s.vectors, 4 * TopK)}
ByBoth(s, scope, withExpired) ==
  UNION {Best(x \cup y, TopK) : x \in ByText(s, scope, withExpired),
                                y \in ByVector(s, scope, withExpired)}

Retrieve(u, scope, withExpired) ==
  LET s == stores[u] IN
  /\ Idle(u)
  /\ reply' \in UNION {ByText(s, scope, withExpired), ByVector(s, scope, withExpired),
                       ByBoth(s, scope, withExpired)}
  /\ UNCHANGED <<stores, today, acked, refused, gone, untold>>

\* A page of the records, or of those of a kind.
List(u, scope, withExpired) ==
  /\ Idle(u)
  /\ reply' \in SUBSET {r.id : r \in {q \in stores[u].records : Passes(q, scope, withExpired)}}
  /\ UNCHANGED <<stores, today, acked, refused, gone, untold>>

NextDay ==
  /\ \E d \in Days : d > today /\ today' = d
  /\ UNCHANGED <<stores, acked, refused, gone, untold, reply>>

-----------------------------------------------------------------------------
EmptyStore ==
  [up |-> FALSE, frames |-> {}, pending |-> {}, tombs |-> {}, records |-> {},
   vectors |-> {}, doing |-> Nothing]

SidecarInit ==
  /\ stores = [u \in Users |-> EmptyStore]
  /\ today = 0
  /\ acked = {} /\ refused = {} /\ gone = {} /\ untold = {} /\ reply = {}

SidecarNext ==
  \/ Crash
  \/ NextDay
  \/ \E u \in Users :
       \/ OpenStore(u)
       \/ \E m \in Memories, scope \in Scopes, vec \in BOOLEAN : IngestPut(u, m, scope, vec)
       \/ IngestCommit(u)
       \/ IngestFails(u)
       \/ \E m \in Memories, written \in BOOLEAN : Delete(u, m, written)
       \/ Maintain(u)
       \/ \E scope \in Scopes \cup {AnyScope}, withExpired \in BOOLEAN :
            Retrieve(u, scope, withExpired)
       \/ \E scope \in Scopes \cup {AnyScope}, withExpired \in BOOLEAN :
            List(u, scope, withExpired)

SidecarSpec == SidecarInit /\ [][SidecarNext]_sidecarVars

-----------------------------------------------------------------------------
\* No answer names a memory that was deleted before the answer was given,
\* restarts included, except one whose id could not be written to the file of
\* deleted ids (main.rs delete).
DeletedStaysGone == [][reply' # reply => reply' \cap (gone \ untold) = {}]_sidecarVars

\* What a restart rebuilds of the records an open store has.
Rebuilds ==
  \A u \in Users : Idle(u) =>
    LET s == stores[u]
        again == Opened(Down(s))
        lasting == {[r EXCEPT !.expired = FALSE] : r \in s.records}
    IN /\ lasting \subseteq again.records
       /\ Ids(again.records) \subseteq Ids(lasting) \cup refused \cup untold
       /\ (s.vectors \cap Ids(lasting)) = (again.vectors \cap Ids(lasting))

\* What was acknowledged and not deleted is in the files of its user, and among
\* the records whenever the store is open.
AckedStays ==
  \A m \in acked \ gone : \E u \in Users :
    /\ m \in Known(stores[u])
    /\ stores[u].up => m \in Ids(stores[u].records)

\* A restart rebuilds the records an open store has, with their scope and day,
\* and their vectors; it adds only memories whose ingestion was answered by an
\* error and deletions that were not written, and it forgets what had expired.
\* No acknowledged memory is lost (main.rs new, ingest, maintain).
RestartAgrees == Rebuilds /\ AckedStays
=============================================================================
