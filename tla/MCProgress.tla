---------------------------- MODULE MCProgress ----------------------------
(****************************************************************************)
(* What the control plane must do in the end, for TLC: the loop of a run,    *)
(* the approval server when every thread goes on, and the supervisor whose   *)
(* loop is scheduled.  A behaviour is one of a part, so that the state graph *)
(* is the sum of theirs.                                                     *)
(****************************************************************************)
EXTENDS RunLifecycle, Integers, Sequences, FiniteSets

CONSTANTS Parts,   \* the components that are looked at
  Creator, Operators, Nobody, NumSteps, GatedSteps, Tokens, NoToken,
  CallerTokens, NoCrashes,
  Tickers, Loop, NumItems, Scheduled, Interval, MaxRuns, MaxParallel, Moves,
  MaxTime, MaxControls, MaxEdits

VARIABLES part,    \* the component of this behaviour
  fairRun, fairLog, fairApprovals, fairLapsed, fairEffects, fairReceipts,
  fairSnapshot, fairRegistry, fairLock, fairPc, fairMem, fairCrashes,
  clock, agent, killed, controls, inbox, schedule, edits, edit, ledger, runs,
  cps, dedupe, stopPc, stopMem, late, stopCrashes

\* The approval server when no thread stops: what it must do in the end.
Fair == INSTANCE ApprovalAuthority
          WITH run <- fairRun, log <- fairLog, approvals <- fairApprovals,
               lapsed <- fairLapsed, effects <- fairEffects, receipts <-
               fairReceipts, snapshot <- fairSnapshot, registry <-
               fairRegistry, lock <- fairLock, pc <- fairPc, mem <- fairMem,
               crashes <- fairCrashes, MaxCrashes <- NoCrashes
\* The supervisor when its loop is scheduled: what has to stop.
Stop == INSTANCE AutonomySupervisor
          WITH pc <- stopPc, mem <- stopMem, crashes <- stopCrashes,
               MaxCrashes <- NoCrashes

fairPart == <<fairRun, fairLog, fairApprovals, fairLapsed, fairEffects,
   fairReceipts, fairSnapshot, fairRegistry, fairLock, fairPc, fairMem,
   fairCrashes>>
stopPart == <<clock, agent, killed, controls, inbox, schedule, edits, edit,
   ledger, runs, cps, dedupe, stopPc, stopMem, late, stopCrashes>>
allVars == <<part, vars, fairPart, stopPart>>

\* One component runs, the others stay as they start.
AllInit ==
  /\ part \in Parts
  /\ Init
  /\ Fair!Init
  /\ Stop!Init

AllNext ==
  /\ UNCHANGED part
  /\ IF part = "run" THEN Next ELSE UNCHANGED vars
  /\ IF part = "fair" THEN Fair!Next ELSE UNCHANGED fairPart
  /\ IF part = "stop" THEN Stop!Next ELSE UNCHANGED stopPart

AllSpec ==
  /\ AllInit
  /\ [][AllNext]_allVars
  /\ WF_vars(part = "run" /\ Proceed)
  /\ \A t \in Fair!Threads : WF_fairPart(part = "fair" /\ Fair!Proceed(t))
  /\ WF_stopPart(part = "stop" /\ Stop!Tick(Loop))
  /\ \A t \in Tickers : WF_stopPart(part = "stop" /\ Stop!Step(t))

-----------------------------------------------------------------------------
\* Every call of the loop returns: replanning, retries and approvals are
\* bounded (runtime/runtime.py).
EveryCallReturns == (part = "run" => CallReturns)

\* Calls end, a grant is used, a denial halts its run (runtime/runtime.py);
\* runs whose budget is spent and runs under the kill switch stop
\* (autonomy/supervisor.py).
EndsAndStops == 
  /\ Fair!CallsEnd
  /\ Fair!GrantIsUsed
  /\ Fair!DenialHalts
  /\ Stop!SpentStops
  /\ Stop!KillStops

-----------------------------------------------------------------------------
\* A plan whose budget is its length, one whose budget is short by a step,
\* and a longer one.
SmallPlans == { [steps |-> 2, max |-> 0], [steps |-> 2, max |-> 1],
                [steps |-> 3, max |-> 2] }

=============================================================================
