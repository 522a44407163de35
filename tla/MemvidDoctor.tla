---------------------------- MODULE MemvidDoctor ----------------------------
(****************************************************************************)
(* The doctor of a memory (memvid/src/memvid/doctor.rs, maintenance.rs): it  *)
(* looks at a closed memory and plans phases, and carries the plan out on    *)
(* the memory it opens.  Three things are damaged here: the header's pointer *)
(* to the TOC, the index, and the log, whose records can then not be read.   *)
(* A TOC is always found, so that the search for a lost footer is not tried; *)
(* a dry run changes nothing; the phases meet no failing write.  Without     *)
(* debug assertions, which end a plan for a memory with records in its log.  *)
(*                                                                           *)
(* Sequence numbers start over after the doctor has cleared the log; they    *)
(* name payloads here, so they go on counting.                               *)
(****************************************************************************)
EXTENDS MemvidStore

CONSTANT
  DamageWithPending   \* damage may strike a log that still has records

VARIABLES
  walBad,             \* the log's region cannot be read
  report              \* what the doctor reported, "none" after other steps

doctorVars == <<file, handle, parentOf, walBad, report>>

\* The index is as its manifest says; time, text and vectors are one here.
IndexSound(f, t) ==
  t.index # NoSegment => t.index \in DOMAIN f.cells /\ f.cells[t.index] = IndexCell

\* Mutant: an index that cannot be read counts as present.
NeedsIndexIfMissing(f, t) == t.index = NoSegment /\ t.frames # << >>

\* A missing or unreadable index of a memory with frames.
NeedsIndex(f, t) ==
  \/ ~ IndexSound(f, t)
  \/ t.index = NoSegment /\ t.frames # << >>

\* The plan: what is wrong, and what the caller asks for.
PlanFor(f, bad, vacuum, rebuild) ==
  [target |-> TocPosition(f),
   heal |-> f.footer # TocPosition(f), recovered |-> ~ PointedAt(f),
   replay |-> ~ bad /\ f.log # << >>, vacuum |-> vacuum,
   index |-> NeedsIndex(f, ReadToc(f)) \/ rebuild, walCorrupt |-> bad]

Changes(p) == p.heal \/ p.replay \/ p.vacuum \/ p.index
IsNoop(p) == ~ Changes(p) /\ ~ p.recovered

-----------------------------------------------------------------------------
\* The executor.

ClearLog(f) == [f EXCEPT !.log = << >>]

\* Mutant: the log is cleared whether or not it can be read.
AlwaysCleared(f, p) == ClearLog(f)

\* An unreadable log is cleared before the memory is opened.
Readable(f, p) == IF p.walCorrupt THEN ClearLog(f) ELSE f
OpenForDoctor(f, p) == LoadMemories(Recovered(Readable(f, p)))

\* The pointer goes where the plan says.
HealHeaderPointer(s, p) ==
  IF p.heal /\ s.handle.footer # p.target
  THEN [file |-> [s.file EXCEPT !.footer = p.target],
        handle |-> [s.handle EXCEPT !.footer = p.target]]
  ELSE s

ReplayWal(s, p) == IF p.replay THEN RecoverWal(s.file, s.handle) ELSE s

VacuumCompaction(s, p) ==
  IF p.vacuum THEN RebuildIndexes(Compacted(Committed(s.file, s.handle)))
  ELSE s

ResetWal(s) ==
  [file |-> ClearLog([s.file EXCEPT !.ckpt = @ + Len(OfFrames(s.file.log))]),
   handle |-> [s.handle EXCEPT !.dirty = FALSE]]

ApplyPendingRebuilds(s, p) ==
  IF p.index THEN ResetWal(RebuildIndexes(s)) ELSE s

\* A commit is forced, so that TOC and header are written again.
Finalized(s, p) ==
  IF Changes(p) \/ p.recovered
  THEN CommitFromRecords(s.file, [s.handle EXCEPT !.dirty = TRUE]) ELSE s

\* The phases in their order, up to the verification, which clears the log.
Executed(s, p) ==
  ResetWal(Finalized(ApplyPendingRebuilds(VacuumCompaction(
    ReplayWal(HealHeaderPointer(s, p), p), p), p), p))

\* The last TOC is read, the index decodes, no record is pending.
VerifiedDeep(f) ==
  TocsIn(f) # {} /\ IndexSound(f, ReadToc(f)) /\ f.log = << >>

\* After a failure the memory is opened again and the header put back that it
\* had when the doctor opened it.
Reverted(f, footer) ==
  IF CanOpen(f) THEN [Recovered(f).file EXCEPT !.footer = footer] ELSE f

-----------------------------------------------------------------------------
\* A run of the doctor on a closed memory, all phases of the plan.
DoctorRun(p) ==
  LET opened == OpenForDoctor(file, p)
      s == Executed(opened, p) IN
  IF ~ CanOpen(Readable(file, p))
  THEN file' = Readable(file, p) /\ report' = "failed"
  ELSE /\ Len(s.file.cells) <= MaxLen
       /\ IF VerifiedDeep(s.file)
          THEN /\ file' = s.file
               /\ report' = IF IsNoop(p) THEN "clean" ELSE "healed"
          ELSE /\ file' = Reverted(s.file, opened.file.footer)
               /\ report' = "failed"

Doctor ==
  /\ ~ handle.open
  /\ \E vacuum, rebuild \in BOOLEAN :
       DoctorRun(PlanFor(file, walBad, vacuum, rebuild))
  /\ walBad' = FALSE
  /\ UNCHANGED <<handle, parentOf>>

\* Something breaks the file while nobody has it open.
StrikePointer == \E at \in DOMAIN file.cells : file' = [file EXCEPT !.footer = at]
StrikeIndex ==
  LET at == ReadToc(file).index IN
  at # NoSegment /\ file' = [file EXCEPT !.cells[at] = Free]
Strike ==
  /\ ~ handle.open
  /\ DamageWithPending \/ file.log = << >>
  /\ \/ (StrikePointer \/ StrikeIndex) /\ UNCHANGED walBad
     \/ walBad' = TRUE /\ UNCHANGED file
  /\ report' = "none"
  /\ UNCHANGED <<handle, parentOf>>

\* The memory is used; it does not open while its log cannot be read.
Used ==
  /\ Next
  /\ walBad => handle.open
  /\ report' = "none"
  /\ UNCHANGED walBad

DoctorInit == Init /\ walBad = FALSE /\ report = "none"

DoctorNext == Doctor \/ Strike \/ Used

DoctorSpec == DoctorInit /\ [][DoctorNext]_doctorVars

-----------------------------------------------------------------------------
\* A plan carried out at once heals, and a second doctor finds nothing to do
\* (doctor.rs).
DoctorHeals ==
  report # "none" =>
    /\ report # "failed" /\ ~ walBad
    /\ IsNoop(PlanFor(file, walBad, FALSE, FALSE))

\* Applying a plan costs the memory no frame that an opening would have
\* found; records that cannot be read are lost (doctor.rs).
HeldBy(f) ==
  FoldLeft(Promised, [i \in DOMAIN ReadToc(f).frames |-> Held(ReadToc(f).frames[i])],
           f.log)
DoctorKeeps ==
  [][report' # "none" =>
       HeldBy(file)' = HeldBy(IF walBad THEN ClearLog(file) ELSE file)
       /\ PayloadsIntact']_doctorVars
=============================================================================
