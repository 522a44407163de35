-------------------------- MODULE ParallelSegments --------------------------
(***************************************************************************)
(* commit_parallel of the memory engine (feature parallel_segments).  The  *)
(* frames that wait in the log are grouped into plans (memvid/planner.rs), *)
(* a pool of threads builds a segment of each kind for every plan          *)
(* (memvid/workers.rs), and the committing thread appends the segments to  *)
(* the catalog and to a manifest log beside the file (memvid/builder.rs,   *)
(* io/manifest_wal.rs).                                                    *)
(*                                                                         *)
(* The commit works on a copy of the file and of the table of contents,    *)
(* the value of staged, and gives both up when it fails.  Plans and        *)
(* results go through bounded channels: a sender waits while one is full.  *)
(* Frames are numbered from 1; a segment is the set of its frames.         *)
(***************************************************************************)
EXTENDS Integers, Sequences, FiniteSets, SequencesExt

CONSTANTS FrameKinds,     \* what may be put: tokens, with text?, with a vector?
          SegmentTokens,  \* BuildOpts: tokens of a segment
          SegmentPages,   \* BuildOpts: pages of a segment
          Threads,        \* the threads of the pool
          QueueDepth,     \* BuildOpts: places of a channel
          CommitLimit, FrameLimit, CrashLimit,  \* bounds
          MayFail         \* may a build, an append or the rename fail?

VARIABLES put,          \* kinds of the frames that wait in the log
          toc,          \* open file: frames, segments, index_segments, next id
          saved,        \* the same as the file has it
          staged,       \* the copy a commit works on
          manifest,     \* entries of the manifest log
          synced,       \* how many of them are on the disk
          commit,       \* where the committing thread is
          plans, sent,  \* its plans, and the messages it has sent of a kind
          planQueue, resultQueue,  \* the two channels
          worker,       \* per thread: at, and the plan it builds
          cancel,       \* the flag both sides look at
          failed,       \* has the commit seen an error?
          results,      \* what it has received
          sealed,       \* ghost: frames that parallel commits sealed
          commits, crashes

segVars == <<put, toc, saved, staged, manifest, synced, commit, plans, sent, planQueue, resultQueue,
             worker, cancel, failed, results, sealed, commits, crashes>>
poolVars == <<plans, sent, planQueue, resultQueue, worker, cancel, failed, results>>
fileVars == <<put, toc, saved, staged, manifest, synced, sealed, commits, crashes>>

NoToc == [frames |-> <<>>, segments |-> <<>>, index |-> <<>>, next |-> 0]
Error == 0
Shutdown == 0
Gone == [at |-> "gone", plan |-> 0]

(***************************************************************************)
(* The planner                                                             *)
(***************************************************************************)

\* collect_segment_chunks: a frame without text gets no chunk, whatever
\* embedding it has; one page each.
Chunks(all, from) ==
  SelectSeq([i \in 1 .. Len(all) |-> i], LAMBDA i : i > from /\ all[i].text)

\* plan_from_chunks: a plan is closed by the chunk that would overfill it.
Planned(all, chunks) ==
  LET Take(done, c) ==
        LET over == \/ done.tokens + all[c].tokens > SegmentTokens
                    \/ done.pages + 1 > SegmentPages
        IN  IF done.open = <<>> \/ ~over
            THEN [done EXCEPT !.open = Append(@, c), !.tokens = @ + all[c].tokens, !.pages = @ + 1]
            ELSE [closed |-> Append(done.closed, done.open), open |-> <<c>>,
                  tokens |-> all[c].tokens, pages |-> 1]
      last == FoldLeft(Take, [closed |-> <<>>, open |-> <<>>, tokens |-> 0, pages |-> 0], chunks)
  IN  IF last.open = <<>> THEN last.closed ELSE Append(last.closed, last.open)

(***************************************************************************)
(* The pool                                                                *)
(***************************************************************************)

\* Mutant: both channels have one place.
RoomForOne(queue) == queue = <<>>
Room(queue) == Len(queue) < QueueDepth
AllGone == \A t \in Threads : worker[t].at = "gone"
PlansEnd == commit \in {"collecting", "joining"}

\* The flag is looked at before each send, not while the send waits for room.
SendOne == planQueue' = Append(planQueue, sent + 1) /\ sent' = sent + 1 /\ commit' = "sending"

SendPlan ==
  /\ commit = "sending"
  /\ IF cancel \/ sent = Len(plans)
     THEN commit' = "stopping" /\ sent' = 0 /\ UNCHANGED planQueue
     ELSE IF Room(planQueue) /\ ~AllGone THEN SendOne
     ELSE commit' = "offering" /\ UNCHANGED <<sent, planQueue>>
  /\ UNCHANGED <<plans, resultQueue, worker, cancel, failed, results, fileVars>>

\* Room comes up, or nobody is left to receive.
SendAfterWaiting ==
  /\ commit = "offering" /\ (Room(planQueue) \/ AllGone)
  /\ IF AllGone
     THEN cancel' = TRUE /\ sent' = 0 /\ commit' = "stopping" /\ UNCHANGED planQueue
     ELSE SendOne /\ UNCHANGED cancel
  /\ UNCHANGED <<plans, resultQueue, worker, failed, results, fileVars>>

\* One Shutdown per thread; the channel is closed after the last.
SendShutdown ==
  /\ commit = "stopping" /\ (AllGone \/ Room(planQueue))
  /\ planQueue' = IF AllGone THEN planQueue ELSE Append(planQueue, Shutdown)
  /\ sent' = sent + 1
  /\ commit' = IF sent' = Cardinality(Threads) THEN "collecting" ELSE commit
  /\ UNCHANGED <<plans, resultQueue, worker, cancel, failed, results, fileVars>>

\* The first error ends the loop, and so does a channel nobody can send to.
Collect ==
  /\ commit = "collecting"
  /\ IF resultQueue # <<>>
     THEN /\ resultQueue' = Tail(resultQueue)
          /\ IF Head(resultQueue) = Error
             THEN failed' = TRUE /\ cancel' = TRUE /\ UNCHANGED results
             ELSE results' = Append(results, Head(resultQueue)) /\ UNCHANGED <<failed, cancel>>
     ELSE /\ AllGone /\ failed' = TRUE
          /\ UNCHANGED <<resultQueue, results, cancel>>
  /\ commit' = IF failed' \/ Len(results') = Len(plans) THEN "joining" ELSE commit
  /\ UNCHANGED <<plans, sent, planQueue, worker, fileVars>>

\* worker_loop: the flag is looked at before a plan is waited for, not while
\* the thread waits.
Receive(t) ==
  IF planQueue # <<>>
  THEN /\ planQueue' = Tail(planQueue)
       /\ worker' = [worker EXCEPT ![t] = IF Head(planQueue) = Shutdown THEN Gone
                                          ELSE [at |-> "build", plan |-> Head(planQueue)]]
  ELSE PlansEnd /\ worker' = [worker EXCEPT ![t] = Gone] /\ UNCHANGED planQueue

TakePlan(t) ==
  /\ worker[t].at = "head"
  /\ IF cancel THEN worker' = [worker EXCEPT ![t] = Gone] /\ UNCHANGED planQueue
     ELSE IF planQueue # <<>> \/ PlansEnd THEN Receive(t)
     ELSE worker' = [worker EXCEPT ![t].at = "receive"] /\ UNCHANGED planQueue
  /\ UNCHANGED <<commit, plans, sent, resultQueue, cancel, failed, results, fileVars>>

TakeAfterWaiting(t) ==
  /\ worker[t].at = "receive" /\ Receive(t)
  /\ UNCHANGED <<commit, plans, sent, resultQueue, cancel, failed, results, fileVars>>

\* A result, or an error, the flag and the end of the thread.  The flag comes
\* right after the error: what others do in between they might do before.
Deliver(t) ==
  /\ worker[t].at = "build" /\ Room(resultQueue)
  /\ \/ /\ resultQueue' = Append(resultQueue, worker[t].plan)
        /\ worker' = [worker EXCEPT ![t].at = "head"]
        /\ UNCHANGED cancel
     \/ /\ MayFail
        /\ resultQueue' = Append(resultQueue, Error)
        /\ worker' = [worker EXCEPT ![t] = Gone] /\ cancel' = TRUE
  /\ UNCHANGED <<commit, plans, sent, planQueue, failed, results, fileVars>>

(***************************************************************************)
(* The file                                                                *)
(***************************************************************************)

Put(kind) ==
  /\ commit = "idle" /\ Len(toc.frames) + Len(put) < FrameLimit
  /\ put' = Append(put, kind)
  /\ UNCHANGED <<toc, saved, staged, manifest, synced, sealed, commits, crashes, commit, poolVars>>

\* rebuild_indexes: the whole catalog gives way to indexes of the whole file.
Rebuilt(t) == [t EXCEPT !.segments = <<>>, !.index = <<>>]

\* commit_parallel_inner: apply_records, then plans for the new frames, or a
\* rebuild when none of them has text.
Begin ==
  /\ commit = "idle" /\ put # <<>> /\ commits < CommitLimit
  /\ commits' = commits + 1
  /\ LET applied == [toc EXCEPT !.frames = @ \o put]
         chunks == Chunks(applied.frames, Len(toc.frames))
     IN  IF chunks = <<>>
         THEN /\ staged' = Rebuilt(applied) /\ commit' = "written"
              /\ UNCHANGED poolVars
         ELSE /\ staged' = applied /\ commit' = "sending"
              /\ plans' = Planned(applied.frames, chunks)
              /\ sent' = 0 /\ results' = <<>> /\ failed' = FALSE /\ cancel' = FALSE
              /\ planQueue' = <<>> /\ resultQueue' = <<>>
              /\ worker' = [t \in Threads |-> [at |-> "head", plan |-> 0]]
  /\ UNCHANGED <<put, toc, saved, manifest, synced, sealed, crashes>>

\* The artifacts of one plan, in the order they are appended.
Artifacts(plan) ==
  LET of == ToSet(plan)
      some == {f \in of : staged.frames[f].vector}
  IN  <<[kind |-> "lex", frames |-> of]>>
      \o (IF some = {} THEN <<>> ELSE <<[kind |-> "vec", frames |-> some]>>)
      \o <<[kind |-> "time", frames |-> of]>>

\* Mutant: the results stay in the order the threads sent them.
InPlanOrderAsReceived(indexes) == indexes
InPlanOrder(indexes) == SortSeq(indexes, <)

\* append_parallel_segments: ids are handed out in the order of appending.
Segments ==
  LET all == FlattenSeq([i \in 1 .. Len(plans) |-> Artifacts(plans[InPlanOrder(results)[i]])])
  IN  [i \in 1 .. Len(all) |-> [id |-> staged.next + i, kind |-> all[i].kind, frames |-> all[i].frames]]

Ending == /\ commit' = "idle" /\ staged' = NoToc
          /\ plans' = <<>> /\ results' = <<>> /\ failed' = FALSE /\ resultQueue' = <<>>
          /\ planQueue' = <<>> /\ cancel' = FALSE /\ sent' = 0
          /\ worker' = [t \in Threads |-> Gone]

\* The threads are joined; an error of one of them is the commit's.
JoinFailed ==
  /\ commit = "joining" /\ AllGone /\ failed
  /\ Ending
  /\ UNCHANGED <<put, toc, saved, manifest, synced, sealed, commits, crashes>>

JoinAndAppend ==
  /\ commit = "joining" /\ AllGone /\ ~failed
  /\ commit' = "written"
  /\ staged' = [staged EXCEPT !.segments = @ \o Segments, !.index = @ \o Segments,
                              !.next = @ + Len(Segments)]
  /\ manifest' = manifest \o Segments /\ synced' = Len(manifest')
  /\ UNCHANGED <<put, toc, saved, sealed, commits, crashes, poolVars>>

\* One append fails: the entries before it stay in the manifest log.
AppendFails ==
  /\ MayFail /\ commit = "joining" /\ AllGone /\ ~failed
  /\ \E n \in 0 .. Len(Segments) - 1 : manifest' = manifest \o SubSeq(Segments, 1, n)
  /\ Ending
  /\ UNCHANGED <<put, toc, saved, synced, sealed, commits, crashes>>

\* The copy is complete: the manifest log is emptied before the copy replaces
\* the file.
TruncateManifest ==
  /\ commit = "written"
  /\ manifest' = <<>> /\ synced' = 0 /\ commit' = "renaming"
  /\ UNCHANGED <<put, toc, saved, staged, sealed, commits, crashes, poolVars>>

Replace ==
  /\ commit = "renaming"
  /\ toc' = staged /\ saved' = staged /\ put' = <<>>
  /\ sealed' = IF staged.segments = <<>> THEN {}
               ELSE sealed \cup ToSet(Chunks(staged.frames, Len(toc.frames)))
  /\ Ending
  /\ UNCHANGED <<manifest, synced, commits, crashes>>

ReplaceFails ==
  /\ MayFail /\ commit = "renaming"
  /\ Ending
  /\ UNCHANGED <<put, toc, saved, manifest, synced, sealed, commits, crashes>>

\* load_manifest_segments: entries whose id the catalog does not know.
WithManifest(t, entries) ==
  [t EXCEPT !.index = @ \o SelectSeq(entries, LAMBDA e : \A i \in DOMAIN t.index : t.index[i].id # e.id)]

\* A crash, and the open after it: recover_wal rebuilds when records wait, the
\* tail of the manifest log that is not on the disk may be torn off.
Crash ==
  /\ crashes < CrashLimit /\ crashes' = crashes + 1
  /\ LET found == IF put = <<>> THEN saved ELSE Rebuilt([saved EXCEPT !.frames = @ \o put])
     IN  /\ saved' = found
         /\ \E n \in synced .. Len(manifest) :
              /\ manifest' = SubSeq(manifest, 1, n) /\ synced' = n
              /\ toc' = WithManifest(found, manifest')
         /\ sealed' = IF put = <<>> THEN sealed ELSE {}
  /\ put' = <<>>
  /\ Ending
  /\ UNCHANGED commits

\* Drop of the handle and the next open: what waits is committed by the
\* sequential path, and the manifest log is removed.
Reopen ==
  /\ commit = "idle"
  /\ LET found == IF put = <<>> THEN saved ELSE Rebuilt([toc EXCEPT !.frames = @ \o put])
     IN  /\ found # toc \/ manifest # <<>>
         /\ toc' = found /\ saved' = found
         /\ sealed' = IF put = <<>> THEN sealed ELSE {}
  /\ put' = <<>> /\ manifest' = <<>> /\ synced' = 0
  /\ UNCHANGED <<staged, commits, crashes, commit, poolVars>>

-----------------------------------------------------------------------------
SegmentInit ==
  /\ put = <<>> /\ toc = NoToc /\ saved = NoToc /\ staged = NoToc
  /\ manifest = <<>> /\ synced = 0
  /\ commit = "idle" /\ plans = <<>> /\ sent = 0 /\ planQueue = <<>> /\ resultQueue = <<>>
  /\ worker = [t \in Threads |-> Gone] /\ cancel = FALSE /\ failed = FALSE /\ results = <<>>
  /\ sealed = {} /\ commits = 0 /\ crashes = 0

\* The committing thread, once a commit has begun.
CommitStep ==
  \/ SendPlan \/ SendAfterWaiting \/ SendShutdown \/ Collect
  \/ JoinFailed \/ JoinAndAppend \/ AppendFails
  \/ TruncateManifest \/ Replace \/ ReplaceFails

WorkerStep(t) == TakePlan(t) \/ TakeAfterWaiting(t) \/ Deliver(t)

SegmentNext ==
  \/ \E kind \in FrameKinds : Put(kind)
  \/ Begin \/ CommitStep
  \/ \E t \in Threads : WorkerStep(t)
  \/ Crash \/ Reopen

\* A thread that can run does; nobody has to put, commit or crash.
SegmentSpec ==
  /\ SegmentInit /\ [][SegmentNext]_segVars
  /\ WF_segVars(CommitStep)
  /\ \A t \in Threads : WF_segVars(WorkerStep(t))

-----------------------------------------------------------------------------
OfKind(t, kind) == SelectSeq(t.segments, LAMBDA s : s.kind = kind)

\* Each frame with text that a parallel commit sealed, and that no rebuild has
\* taken over since, is in one lexical, one time and, if it has a vector, one
\* vector segment; nothing else is; and the segments of a kind are in the order
\* of their frames (builder.rs, append_parallel_segments).
SealedOnce ==
  \A kind \in {"lex", "time", "vec"} :
    LET segments == OfKind(toc, kind)
        due == {f \in sealed : kind = "vec" => toc.frames[f].vector}
    IN  /\ UNION {segments[i].frames : i \in DOMAIN segments} = due
        /\ \A i, j \in DOMAIN segments :
             i < j => /\ segments[i].id < segments[j].id
                      /\ \A f \in segments[i].frames, g \in segments[j].frames : f < g

\* A commit that has begun comes to an end (workers.rs, execute).
CommitEnds == (commit # "idle") ~> (commit = "idle")
=============================================================================
