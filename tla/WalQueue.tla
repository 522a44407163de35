------------------------------ MODULE WalQueue ------------------------------
(***************************************************************************)
(* What the write-ahead log of a memory promises to those who write to it: *)
(* it is a queue of numbered records.  An accepted record waits, whatever  *)
(* happens to the process, until a commit applies all that wait, in order. *)
(***************************************************************************)
EXTENDS Naturals, Sequences

VARIABLES queue,   \* the numbers of the records that wait to be applied
          applied  \* the numbers of those that were applied, in order

QInit == queue = << >> /\ applied = << >>

\* An accepted record has the number after the last one, applied or not.
Accept ==
  /\ queue' = Append(queue, Len(applied) + Len(queue) + 1)
  /\ UNCHANGED applied

Apply ==
  /\ queue # << >>
  /\ applied' = applied \o queue
  /\ queue' = << >>

QSpec == QInit /\ [][Accept \/ Apply]_<< queue, applied >>

=============================================================================
