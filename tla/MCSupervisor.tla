--------------------------- MODULE MCSupervisor ---------------------------
(****************************************************************************)
(* The autonomy supervisor for TLC: a loop alone with a schedule, edits of   *)
(* the agent and a crash, and a loop beside a tick that comes over HTTP.  A  *)
(* behaviour is one of a part, so that the state graph is the sum of theirs. *)
(****************************************************************************)
EXTENDS AutonomySupervisor

CONSTANTS Parts,   \* the components that are looked at
  BothTickers, TwoItems, Unscheduled, NoMoves, NoTime, OneControl, NoEdits,
  NoCrashes

VARIABLES part,    \* the component of this behaviour
  overlapClock, overlapAgent, overlapKilled, overlapControls, overlapInbox,
  overlapSchedule, overlapEdits, overlapEdit, overlapLedger, overlapRuns,
  overlapCps, overlapDedupe, overlapPc, overlapMem, overlapLate,
  overlapCrashes

\* A tick of the loop and one that came over HTTP at the same time.
Overlap == INSTANCE AutonomySupervisor
          WITH clock <- overlapClock, agent <- overlapAgent, killed <-
               overlapKilled, controls <- overlapControls, inbox <-
               overlapInbox, schedule <- overlapSchedule, edits <-
               overlapEdits, edit <- overlapEdit, ledger <- overlapLedger,
               runs <- overlapRuns, cps <- overlapCps, dedupe <-
               overlapDedupe, pc <- overlapPc, mem <- overlapMem, late <-
               overlapLate, crashes <- overlapCrashes, NumItems <- TwoItems,
               Tickers <- BothTickers, Scheduled <- Unscheduled, Moves <-
               NoMoves, MaxTime <- NoTime, MaxControls <- OneControl, MaxEdits
               <- NoEdits, MaxCrashes <- NoCrashes

overlapPart == <<overlapClock, overlapAgent, overlapKilled, overlapControls,
   overlapInbox, overlapSchedule, overlapEdits, overlapEdit, overlapLedger,
   overlapRuns, overlapCps, overlapDedupe, overlapPc, overlapMem, overlapLate,
   overlapCrashes>>
bothVars == <<part, vars, overlapPart>>

\* One component runs, the others stay as they start.
BothInit ==
  /\ part \in Parts
  /\ Init
  /\ Overlap!Init

BothNext ==
  /\ UNCHANGED part
  /\ IF part = "alone" THEN Next ELSE UNCHANGED vars
  /\ IF part = "overlap" THEN Overlap!Next ELSE UNCHANGED overlapPart

BothSpec == BothInit /\ [][BothNext]_bothVars

-----------------------------------------------------------------------------
\* Of two ticks that overlap one alone spends an item, and the kill switch
\* holds but for the tick under way (autonomy/supervisor.py).
OverlapOnce == part = "overlap" => Overlap!ItemSpent /\ Overlap!KillLag

=============================================================================
