--------------------------- MODULE MCMemvidWork ---------------------------
(****************************************************************************)
(* The parts of the memory engine that run beside each other: the log of a   *)
(* file, the worker that enriches its frames, and the processes that share   *)
(* the file through its lock. They stand side by side for TLC: a behaviour   *)
(* is one of a part, so that the state graph is the sum of theirs. The       *)
(* thread of the worker is scheduled; nobody has to write, crash or stop.    *)
(****************************************************************************)
EXTENDS LockFile, EnrichmentQueue, TLC

CONSTANTS Parts,   \* the components that are looked at
  Region, MaxRegion, HeaderSize, EntrySizes, MaxSeq, CheckpointPeriod,
  TornAppend

VARIABLES part,    \* the component of this behaviour
  disk, walHeader, wal, walPhase, batch, applied

\* The write-ahead log inside the file.
Log == INSTANCE EmbeddedWal
          WITH header <- walHeader, phase <- walPhase

walPart == <<disk, walHeader, wal, walPhase, batch, applied>>
vars == <<part, walPart, enrichVars, lockVars>>

\* One component runs, the others stay as they start.
Init ==
  /\ part \in Parts
  /\ Log!Init
  /\ EnrichInit
  /\ LockInit

Next ==
  /\ UNCHANGED part
  /\ IF part = "wal" THEN Log!Next ELSE UNCHANGED walPart
  /\ IF part = "enrich" THEN EnrichNext ELSE UNCHANGED enrichVars
  /\ IF part = "lock" THEN LockNext ELSE UNCHANGED lockVars

Spec ==
  /\ Init
  /\ [][Next]_vars
  /\ WF_enrichVars(part = "enrich" /\ Worker)

-----------------------------------------------------------------------------
\* What the handle of the log keeps in memory is what a rescan of the region
\* would compute, and a closed log can always be opened again (io/wal.rs).
BookkeepingAgrees ==
  part = "wal" => Log!BookkeepingMatchesScan /\ Log!Reopens

\* The log is a queue: a commit applies every accepted record once and in
\* order, through wraps, growth, crashes and reopenings (io/wal.rs).
LogIsQueue == Log!ImplementsQueue

=============================================================================
