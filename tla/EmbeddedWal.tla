---------------------------- MODULE EmbeddedWal ----------------------------
(***************************************************************************)
(* memvid/src/io/wal.rs: the write-ahead log kept in a fixed region of the *)
(* .mv2 file, with the callers in memvid/mutation.rs and lifecycle.rs that *)
(* append to it, drain it, grow it and recover it.                         *)
(*                                                                         *)
(* The region is an array of cells.  A record is its header (HeaderSize    *)
(* cells) and its payload; a cell carries the record it was written for    *)
(* and its place in it, so a header read in the middle of something else   *)
(* is recognised for what the checksum makes of it, a corruption.  The end *)
(* of the log is a zero header, the sentinel, written behind every append. *)
(***************************************************************************)
EXTENDS Naturals, Sequences

CONSTANTS Region,        \* initial size of the region, in cells
          MaxRegion,     \* bound: the region is not grown past this
          HeaderSize,    \* cells of a record header (48 bytes in the code)
          EntrySizes,    \* total sizes a record can have, header included
          MaxSeq,        \* bound: no sequence number above this
          CheckpointPeriod,  \* WAL_CHECKPOINT_PERIOD
          TornAppend     \* may a crash fall between a record and its sentinel?

VARIABLES disk,      \* the region on disk: its size, and its cells
          header,    \* the file header: wal_checkpoint_pos, wal_sequence, wal_size
          wal,       \* the EmbeddedWal value of the open handle
          phase,     \* "closed", "open", or "sentinel": the record is down, its sentinel not
          batch,     \* between begin_batch and end_batch, automatic checkpoints off
          applied    \* sequence numbers the commits applied, in order

vars == <<disk, header, wal, phase, batch, applied>>

Zero == [seq |-> 0, size |-> 0, part |-> 0]
Closed == [head |-> 0, pending |-> 0, seq |-> 0, ckpt |-> 0, appends |-> 0]

Record(s, n) == [i \in 0..(n - 1) |-> [seq |-> s, size |-> n, part |-> i]]

\* A whole record with a matching checksum starts at position p.
WholeAt(cells, p, size) ==
  LET c == cells[p] IN
  /\ c.seq # 0 /\ c.part = 0
  /\ p + c.size <= size
  /\ \A i \in 0..(c.size - 1) : cells[p + i] = [c EXCEPT !.part = i]

\* scan_records: the records from the start of the region to the first zero
\* header or to where no header fits, and the position reached.  Anything that
\* is neither a zero header nor a whole record is a corruption (ok = FALSE).
Scan(cells, size) ==
  LET from[p \in 0..size] ==
        IF p + HeaderSize > size \/ cells[p] = Zero
        THEN [ok |-> TRUE, recs |-> <<>>, next |-> p]
        ELSE IF ~WholeAt(cells, p, size)
        THEN [ok |-> FALSE, recs |-> <<>>, next |-> p]
        ELSE LET rest == from[p + cells[p].size]
             IN  [rest EXCEPT !.recs = <<cells[p]>> \o @]
  IN  from[0]

\* Entries above a sequence number, and the bytes they take.
After(recs, s) == SelectSeq(recs, LAMBDA r : r.seq > s)
Bytes(recs) ==
  LET sum[i \in 0..Len(recs)] == IF i = 0 THEN 0 ELSE sum[i - 1] + recs[i].size
  IN  sum[Len(recs)]
SeqsOf(recs) == [i \in DOMAIN recs |-> recs[i].seq]
LastSeq(recs, default) == IF recs = <<>> THEN default ELSE recs[Len(recs)].seq

\* write_zero_header: where the header of zeros goes when the head is at p.
\* With less than a header left the tail is zeroed and position 0 is used.
SentinelPos(p, size) == IF size - (p % size) < HeaderSize THEN 0 ELSE p % size
ZeroHeader(cells, p, size) ==
  LET at == SentinelPos(p, size) IN
  [i \in 0..(size - 1) |->
     IF \/ i >= at /\ i < at + HeaderSize
        \/ at # p % size /\ i >= p % size
     THEN Zero ELSE cells[i]]

\* Mutant: the head moves on, but no zero header is written behind the record.
WithoutSentinel(cells, w, size) ==
  [cells |-> cells, wal |-> [w EXCEPT !.head = SentinelPos(@, size)]]

\* maybe_write_sentinel on a region and a log value; skipped when the pending
\* bytes fill the region.  The head follows the place of the sentinel.
WithSentinel(cells, w, size) ==
  IF w.pending >= size
  THEN [cells |-> cells, wal |-> w]
  ELSE [cells |-> ZeroHeader(cells, w.head, size),
        wal |-> [w EXCEPT !.head = SentinelPos(@, size)]]

\* open_internal: the value rebuilt from the region and the file header, and
\* the region with its sentinel put back.
Opened(cells, size, ckptSeq) ==
  LET scan == Scan(cells, size) IN
  WithSentinel(cells,
    [head |-> scan.next % size,
     pending |-> Bytes(After(scan.recs, ckptSeq)),
     seq |-> LastSeq(scan.recs, ckptSeq),
     ckpt |-> ckptSeq,
     appends |-> 0], size)

Size == disk.size
ScanDisk == Scan(disk.cells, Size)

TypeOK ==
  /\ disk.size \in 1..MaxRegion
  /\ \A i \in 0..(disk.size - 1) :
       /\ disk.cells[i].seq \in 0..(MaxSeq + 1)
       /\ disk.cells[i].size \in EntrySizes \cup {0}
  /\ header.seq \in 0..MaxSeq /\ header.pos \in 0..(MaxRegion - 1)
  /\ phase \in {"closed", "open", "sentinel"}
  /\ wal.head \in 0..(disk.size - 1) /\ wal.pending \in 0..disk.size
  /\ wal.seq \in 0..MaxSeq /\ wal.ckpt \in 0..MaxSeq

Init ==
  /\ disk = [size |-> Region, cells |-> [i \in 0..(Region - 1) |-> Zero]]
  /\ header = [pos |-> 0, seq |-> 0]
  /\ wal = Closed
  /\ phase = "closed"
  /\ batch = FALSE
  /\ applied = <<>>

Open ==
  /\ phase = "closed"
  /\ ScanDisk.ok
  /\ LET o == Opened(disk.cells, Size, header.seq) IN
     /\ disk' = [disk EXCEPT !.cells = o.cells]
     /\ wal' = o.wal
  /\ phase' = "open"
  /\ UNCHANGED <<header, batch, applied>>

\* Mutant: a record may wrap to the front while others are pending.
RegionFullUnlessWrapped(n) == n > Size \/ wal.pending + n > Size

\* append_entry refuses: the entry or the pending bytes do not fit, or it would
\* have to wrap while records are pending.
RegionFull(n) ==
  \/ n > Size
  \/ wal.pending + n > Size
  \/ wal.head + n > Size /\ wal.pending > 0
WrapsTo(n) == IF wal.head + n > Size THEN 0 ELSE wal.head

\* should_checkpoint: at three quarters of the region, or by count.  A put that
\* finds it true commits before it returns, unless a batch is open.
ShouldCheckpoint == 4 * wal.pending >= 3 * Size \/ wal.appends >= CheckpointPeriod

\* append_entry up to and including the write and the sync of the record.
AppendRecord(n) ==
  /\ phase = "open"
  /\ wal.seq < MaxSeq
  /\ batch \/ ~ShouldCheckpoint
  /\ ~RegionFull(n)
  /\ LET at == WrapsTo(n) IN
     /\ disk' = [disk EXCEPT !.cells =
                   [i \in DOMAIN @ |-> IF i >= at /\ i < at + n
                                       THEN Record(wal.seq + 1, n)[i - at] ELSE @[i]]]
     /\ wal' = [wal EXCEPT !.head = (at + n) % Size,
                           !.pending = @ + n,
                           !.seq = @ + 1,
                           !.appends = @ + 1]
  /\ phase' = "sentinel"
  /\ UNCHANGED <<header, batch, applied>>

\* The rest of append_entry: the sentinel, and the answer to the caller.
AppendSentinel ==
  /\ phase = "sentinel"
  /\ LET o == WithSentinel(disk.cells, wal, Size) IN
     /\ disk' = [disk EXCEPT !.cells = o.cells]
     /\ wal' = o.wal
  /\ phase' = "open"
  /\ UNCHANGED <<header, batch, applied>>

\* The region zero-filled to a larger size and the log opened anew on it.
GrownTo(size) ==
  LET cells == [i \in 0..(size - 1) |-> IF i < Size THEN disk.cells[i] ELSE Zero]
      o == Opened(cells, size, header.seq)
  IN  /\ size <= MaxRegion
      /\ Scan(cells, size).ok
      /\ disk' = [size |-> size, cells |-> o.cells]
      /\ wal' = o.wal

\* append_wal_entry on a full region: grow_wal_region doubles the size until it
\* exceeds the need; the append is tried again afterwards.
Grow(n) ==
  /\ phase = "open"
  /\ wal.seq < MaxSeq
  /\ RegionFull(n)
  /\ LET need == IF n > Size + 1 THEN n ELSE Size + 1
         doubled == {s \in {Size * 2, Size * 4, Size * 8} : s > need}
     IN  GrownTo(CHOOSE s \in doubled : \A t \in doubled : s <= t)
  /\ UNCHANGED <<header, phase, batch, applied>>

\* begin_batch: optionally pre-sizes the region (ensure_wal_capacity), and turns
\* automatic checkpoints off.
BeginBatch(presize) ==
  /\ phase = "open" /\ ~batch
  /\ IF presize THEN GrownTo(Size * 2) ELSE UNCHANGED <<disk, wal>>
  /\ batch' = TRUE
  /\ UNCHANGED <<header, phase, applied>>

EndBatch ==
  /\ phase = "open" /\ batch
  /\ batch' = FALSE
  /\ UNCHANGED <<disk, header, wal, phase, applied>>

\* The log's part of a commit: pending_records rescans the region, the records
\* above the checkpoint are applied, record_checkpoint moves the checkpoint to
\* the head and the header is written.  A commit works on a copy of the file
\* that replaces it by a rename, so a crash leaves all of it or none.
Commit ==
  /\ phase = "open"
  /\ ScanDisk.ok
  /\ LET recs == ScanDisk.recs
         pend == After(recs, wal.ckpt)
         seq == LastSeq(recs, wal.seq)
         w == [wal EXCEPT !.head = ScanDisk.next % Size, !.seq = seq,
                          !.pending = 0, !.appends = 0, !.ckpt = seq]
         o == WithSentinel(disk.cells, w, Size)
     IN  /\ pend # <<>>
         /\ applied' = applied \o SeqsOf(pend)
         /\ disk' = [disk EXCEPT !.cells = o.cells]
         /\ wal' = o.wal
         /\ header' = [pos |-> w.head, seq |-> seq]
  /\ UNCHANGED <<phase, batch>>

\* The process dies: the handle is gone, the region and the header stay.
Crash ==
  /\ phase = "open" \/ (TornAppend /\ phase = "sentinel")
  /\ wal' = Closed
  /\ phase' = "closed"
  /\ batch' = FALSE
  /\ UNCHANGED <<disk, header, applied>>

Next ==
  \/ Open
  \/ \E n \in EntrySizes : AppendRecord(n)
  \/ AppendSentinel
  \/ \E n \in EntrySizes : Grow(n)
  \/ \E presize \in BOOLEAN : BeginBatch(presize)
  \/ EndBatch
  \/ Commit
  \/ Crash

Spec == Init /\ [][Next]_vars

(***************************************************************************)
(* Properties                                                              *)
(***************************************************************************)

\* The pending records as the region itself has them.
Pending == SeqsOf(After(ScanDisk.recs, header.seq))

\* The log implements the queue: what a rescan finds above the checkpoint is
\* exactly the accepted records, none lost, doubled or out of order, through
\* wraps, growth, crashes and reopenings.
Queue == INSTANCE WalQueue WITH queue <- Pending
ImplementsQueue == Queue!QSpec

\* What the handle keeps in memory agrees with what a rescan of the region
\* would compute: pending bytes, head and last sequence number.  The append
\* path updates them by arithmetic and every other path by rescanning.
BookkeepingMatchesScan ==
  phase = "open" =>
    /\ ScanDisk.ok
    /\ wal.pending = Bytes(After(ScanDisk.recs, wal.ckpt))
    /\ wal.ckpt = header.seq
    /\ wal.pending < Size => wal.head = ScanDisk.next % Size
    /\ wal.pending > 0 => wal.seq = LastSeq(ScanDisk.recs, wal.ckpt)

\* A closed file can always be opened again: a scan never meets a corruption.
Reopens == phase = "closed" => ScanDisk.ok

\* No record waiting to be applied is overwritten or cut off by an append, a
\* sentinel or a growth before a commit has applied it.
PendingKept ==
  [][\A i \in DOMAIN Pending :
       \/ \E j \in DOMAIN Pending' : Pending'[j] = Pending[i]
       \/ \E j \in DOMAIN applied' : applied'[j] = Pending[i]]_vars
=============================================================================
