--------------------------- MODULE EnrichmentQueue ---------------------------
(***************************************************************************)
(* Progressive ingestion of a memvid file: a put makes a frame searchable  *)
(* at once and queues it (memvid/mutation.rs), a background worker takes   *)
(* the tasks, indexes the full text and marks the frames enriched          *)
(* (enrichment_worker.rs, memvid/enrichment.rs).  The queue lies in the    *)
(* table of contents, so what a commit wrote survives a crash.             *)
(*                                                                         *)
(* Each step of the worker takes the lock of the file anew, and a writer   *)
(* may come between any two.  Frame ids start at 0, log sequences at 1.  A *)
(* task carries the sequence of its record, and sequences grow: the queue  *)
(* is the set of its tasks, its head the least.  What is indexed and which *)
(* texts are embedded is the subject of PutPipeline; here it can only fail *)
(* without a consequence.                                                  *)
(***************************************************************************)
EXTENDS Integers, Sequences, FiniteSets, SequencesExt

CONSTANTS MaxPuts,            \* bound: sequences of the log
          MaxCrashes,         \* bound: crashes
          CheckpointInterval  \* tasks between two commits of the worker

\* With none, every task is followed by a commit, as with one.
ASSUME EnrichAssumption == MaxPuts \in Nat /\ CheckpointInterval \in Nat \ {0}

VARIABLES frames,   \* the open file: its frames, by id
          queue,    \* and its tasks
          onDisk,   \* both, as the last commit wrote them
          log,      \* the operations in the log since that commit
          lastSeq,  \* the last sequence of the log
          phase,    \* the worker: off, take, process, complete, checkpoint
          task,     \* the task it holds
          since,    \* tasks since its last commit
          stopping, \* was it told to stop?
          crashes,  \* crashes so far
          broken    \* did a commit of a worker fail since the file was opened?

fileVars == <<frames, queue, onDisk, log>>
workerVars == <<phase, task, since, stopping>>
enrichVars == <<fileVars, workerVars, lastSeq, crashes, broken>>

NoTask == 0

(***************************************************************************)
(* The file                                                                *)
(***************************************************************************)

\* Frame ids are positions counted from 0.
HasFrame(id) == id + 1 \in DOMAIN frames /\ frames[id + 1].active

\* apply_records: each record of the log takes effect on the frames.
Apply1(fs, r) ==
  IF r.op = "remove" THEN [fs EXCEPT ![r.id + 1].active = FALSE]
  ELSE Append(fs, [state |-> r.state, active |-> TRUE])
Applied(fs, records) == FoldLeft(Apply1, fs, records)

SaveAll(fs, tasks, records) ==
  /\ frames' = Applied(fs, records)
  /\ queue' = tasks
  /\ onDisk' = [frames |-> Applied(fs, records), queue |-> tasks]
  /\ log' = <<>>
Save == SaveAll(frames, queue, log)

\* Mutant: the condition of retain is the wrong way round.
DequeuedOthers(tasks, id) == tasks \cap {id}
\* EnrichmentQueueManifest::remove
Dequeued(tasks, id) == tasks \ {id}

(***************************************************************************)
(* Writers                                                                 *)
(***************************************************************************)

\* put_internal: with instant_index a skimmed text, or one to be embedded,
\* waits for enrichment, and its sequence is queued.  Records of chunks and of
\* the indexes take sequences too.  A put that fills the log commits.
Put(seq, waits, fills) ==
  /\ seq > lastSeq
  /\ lastSeq' = seq
  /\ LET tasks == IF waits THEN queue \cup {seq} ELSE queue
         records == Append(log, [op |-> "put", state |-> IF waits THEN "searchable" ELSE "enriched"])
     IN IF fills THEN SaveAll(frames, tasks, records)
        ELSE queue' = tasks /\ log' = records /\ UNCHANGED <<frames, onDisk>>
  /\ UNCHANGED <<workerVars, crashes, broken>>

DeleteFrame(id) ==
  /\ lastSeq < MaxPuts /\ HasFrame(id)
  /\ \A i \in DOMAIN log : log[i].op # "remove"
  /\ log' = Append(log, [op |-> "remove", id |-> id])
  /\ lastSeq' = lastSeq + 1
  /\ UNCHANGED <<frames, queue, onDisk, workerVars, crashes, broken>>

Commit == Save /\ UNCHANGED <<workerVars, lastSeq, crashes, broken>>

(***************************************************************************)
(* The worker                                                              *)
(***************************************************************************)

Start ==
  /\ phase = "off" /\ ~stopping
  /\ phase' = "take" /\ since' = 0
  /\ UNCHANGED <<fileVars, lastSeq, task, stopping, crashes, broken>>

\* next_enrichment_task; with nothing queued the worker sleeps and looks again.
Take ==
  /\ phase = "take" /\ ~stopping /\ queue # {}
  /\ task' = CHOOSE t \in queue : \A u \in queue : t <= u
  /\ phase' = "process"
  /\ UNCHANGED <<fileVars, lastSeq, since, stopping, crashes, broken>>

\* mark_frame_enriched, for the active ones of the frames.
Enriched(ids) ==
  [i \in DOMAIN frames |->
     IF i - 1 \in ids /\ HasFrame(i - 1) THEN [frames[i] EXCEPT !.state = "enriched"] ELSE frames[i]]

\* process_enrichment_task: a frame that is missing is an error, and so is an
\* index that cannot be written, but the latter frame is marked all the same.
Process ==
  /\ phase = "process" /\ phase' = "complete"
  /\ frames' = Enriched({task})
  /\ UNCHANGED <<queue, onDisk, log, lastSeq, task, since, stopping, crashes, broken>>

\* Mutant: a commit is due one task later.
DueLater == since >= CheckpointInterval
\* Every CheckpointInterval tasks a commit is due.
Due == since + 1 >= CheckpointInterval

\* complete_enrichment_task
CompleteTask ==
  /\ phase = "complete"
  /\ phase' = IF Due THEN "checkpoint" ELSE "take"
  /\ queue' = Dequeued(queue, task) /\ task' = NoTask
  /\ since' = since + 1
  /\ UNCHANGED <<frames, onDisk, log, lastSeq, stopping, crashes, broken>>

\* A commit of the worker that fails is logged and left at that.
TryCommit == \/ Save /\ UNCHANGED broken
             \/ UNCHANGED fileVars /\ broken' = TRUE

Checkpoint ==
  /\ phase = "checkpoint" /\ phase' = "take" /\ since' = 0
  /\ TryCommit
  /\ UNCHANGED <<lastSeq, task, stopping, crashes>>

\* The loop ends when it was told to stop: what is left is committed.  The next
\* worker gets a handle of its own.
Finish ==
  /\ phase = "take" /\ stopping
  /\ phase' = "off" /\ since' = 0 /\ stopping' = FALSE
  /\ IF since > 0 THEN TryCommit ELSE UNCHANGED <<fileVars, broken>>
  /\ UNCHANGED <<lastSeq, task, crashes>>

Stop ==
  /\ phase # "off" /\ ~stopping /\ stopping' = TRUE
  /\ UNCHANGED <<fileVars, lastSeq, phase, task, since, crashes, broken>>

\* start_enrichment_worker_with_embeddings, beside the other worker or alone:
\* one pass under the lock, in which tasks without a frame stay queued, and a
\* commit that may fail.
EnrichWithEmbeddings ==
  /\ LET done == {id \in queue : HasFrame(id)} IN
     \/ SaveAll(Enriched(done), queue \ done, log) /\ UNCHANGED broken
     \/ /\ frames' = Enriched(done) /\ queue' = queue \ done
        /\ broken' = TRUE /\ UNCHANGED <<onDisk, log>>
  /\ UNCHANGED <<workerVars, lastSeq, crashes>>

(***************************************************************************)
(* Crash                                                                   *)
(***************************************************************************)

\* The next open applies the log to what the last commit wrote.
Crash ==
  /\ crashes < MaxCrashes /\ crashes' = crashes + 1
  /\ SaveAll(onDisk.frames, onDisk.queue, log)
  /\ phase' = "off" /\ task' = NoTask /\ since' = 0 /\ stopping' = FALSE /\ broken' = FALSE
  /\ UNCHANGED lastSeq

EnrichInit ==
  /\ frames = <<>> /\ queue = {} /\ onDisk = [frames |-> <<>>, queue |-> {}]
  /\ log = <<>> /\ lastSeq = 0
  /\ phase = "off" /\ task = NoTask /\ since = 0 /\ stopping = FALSE
  /\ crashes = 0 /\ broken = FALSE

Worker == Take \/ Process \/ CompleteTask \/ Checkpoint \/ Finish

EnrichNext ==
  \/ \E seq \in 1..MaxPuts, waits, fills \in BOOLEAN : Put(seq, waits, fills)
  \/ \E id \in 0..MaxPuts : DeleteFrame(id)
  \/ Commit \/ Start \/ Stop \/ Worker \/ EnrichWithEmbeddings \/ Crash

\* The worker's thread is scheduled; nobody has to write, to stop it or to crash.
EnrichSpec == EnrichInit /\ [][EnrichNext]_enrichVars /\ WF_enrichVars(Worker)

(***************************************************************************)
(* Properties                                                              *)
(***************************************************************************)

\* A queued task leaves the queue of a worker that runs on, whatever is put,
\* removed and committed meanwhile and whether or not its frame exists
\* (memvid/enrichment.rs).
QueueDrains ==
  \A id \in 1..MaxPuts :
    (phase # "off" /\ id \in queue) ~> (id \notin queue \/ stopping \/ phase = "off")

\* With its commits done, a crash makes a worker redo at most CheckpointInterval
\* tasks, and none once it has ended (enrichment_worker.rs).
RedoBound ==
  ~broken =>
    Cardinality(onDisk.queue \ queue) <= IF phase = "off" THEN 0 ELSE CheckpointInterval

\* Every frame that waits for enrichment has a task that names it, so that
\* enrichment resumes after a restart.
Resumes ==
  \A id \in 0..(Len(frames) - 1) :
    HasFrame(id) /\ frames[id + 1].state = "searchable" => id \in queue
=============================================================================
