------------------------ MODULE RunLifecycleProofs ------------------------
(***************************************************************************)
(* The properties of RunLifecycle hold for every budget of replans and     *)
(* every set of workflow plans.                                            *)
(***************************************************************************)
EXTENDS RunLifecycle, TLAPS

-----------------------------------------------------------------------------
(* The steps of the run keep each part of the invariant.                   *)

\* A plan has a budget of one step at least.
LEMMA MaxStepsPositive ==
  ASSUME NEW p \in Plans
  PROVE MaxSteps(p) \in Nat \ { 0 } /\ p.steps \in Nat \ { 0 }
BY PlansAssumption DEF MaxSteps

\* The empty plan is none of them.
LEMMA NoPlanIsNone == NoPlan \notin Plans
BY PlansAssumption DEF NoPlan

\* Every step keeps the types.
LEMMA TypeStep ==
  ASSUME TypeOK, [Next]_vars PROVE TypeOK'
<1> USE BudgetAssumption, PlansAssumption DEF TypeOK, States, PCs
<1>1. CASE Prepare
  BY <1>1 DEF Prepare, workflow, counters
<1>2. CASE Cycle
  BY <1>2 DEF Cycle, Move, workflow, counters
<1>3. CASE Replan
  BY <1>3 DEF Replan, workflow, counters
<1>4. CASE ObeySignal
  BY <1>4 DEF ObeySignal, End, workflow, counters
<1>5. ASSUME NEW p \in Plans, Activate(p) PROVE TypeOK'
  <2>1. << >> \in Seq({ "completed", "failed" })
    OBVIOUS
  <2>2. history' \in Seq({ "completed", "failed" })
    BY <1>5, <2>1 DEF Activate
  <2>3. state' \in States /\ pc' \in PCs /\ pending' \in BOOLEAN
    BY <1>5 DEF Activate, Gate, AwaitApproval, End
  <2>4. QED
    BY <1>5, <2>2, <2>3 DEF Activate, counters
<1>6. CASE ChooseAction
  BY <1>6 DEF ChooseAction, Gate, AwaitApproval, End, workflow, counters
<1>7. CASE NoCandidate
  BY <1>7 DEF NoCandidate, End, workflow, counters
<1>8. CASE Execute
  BY <1>8 DEF Execute, workflow, counters
<1>9. CASE Observe
  BY <1>9 DEF Observe, Move, workflow, counters
<1>10. CASE Remember
  BY <1>10 DEF Remember, Move, workflow, counters
<1>11. CASE CommitMemory
  BY <1>11 DEF CommitMemory, End, workflow, counters
<1>12. CASE Conclude
  BY <1>12 DEF Conclude, End, FailureLimit, workflow, counters
<1>13. CASE Report
  BY <1>13 DEF Report, Move, workflow, counters
<1>14. CASE Checkpoint
  BY <1>14 DEF Checkpoint, workflow, counters
<1>15. CASE StepFailed
  BY <1>15 DEF StepFailed, End, workflow, counters
<1>16. CASE WorkflowDone
  BY <1>16 DEF WorkflowDone, workflow, counters
<1>17. CASE NextStep
  BY <1>17 DEF NextStep, Gate, AwaitApproval, End, workflow, counters
<1>18. CASE Raise
  BY <1>18 DEF Raise, End, Terminal, workflow, counters
<1>19. CASE Grant
  BY <1>19 DEF Grant, End, workflow, counters
<1>20. CASE Deny
  BY <1>20 DEF Deny, End, workflow, counters
<1>21. CASE UNCHANGED vars
  BY <1>21 DEF vars, workflow, counters
<1>22. QED
  BY <1>1, <1>2, <1>3, <1>4, <1>5, <1>6, <1>7, <1>8, <1>9, <1>10, <1>11,
     <1>12, <1>13, <1>14, <1>15, <1>16, <1>17, <1>18, <1>19, <1>20, <1>21
     DEF Next, Proceed

\* The thread and the state of the run move together.
LEMMA PlaceStep ==
  ASSUME TypeOK, PlaceInv, [Next]_vars PROVE PlaceInv'
<1> USE BudgetAssumption, PlansAssumption DEF TypeOK, PlaceInv, StateOf,
    States
<1>1. CASE Prepare
  BY <1>1 DEF Prepare, workflow, counters
<1>2. CASE Cycle
  BY <1>2 DEF Cycle, Move, workflow, counters
<1>3. CASE Replan
  BY <1>3 DEF Replan, workflow, counters
<1>4. CASE ObeySignal
  BY <1>4 DEF ObeySignal, End, workflow, counters
<1>5. ASSUME NEW p \in Plans, Activate(p) PROVE PlaceInv'
  BY <1>5 DEF Activate, Gate, AwaitApproval, End, workflow, counters
<1>6. CASE ChooseAction
  BY <1>6 DEF ChooseAction, Gate, AwaitApproval, End, workflow, counters
<1>7. CASE NoCandidate
  BY <1>7 DEF NoCandidate, End, workflow, counters
<1>8. CASE Execute
  BY <1>8 DEF Execute, workflow, counters
<1>9. CASE Observe
  BY <1>9 DEF Observe, Move, workflow, counters
<1>10. CASE Remember
  BY <1>10 DEF Remember, Move, workflow, counters
<1>11. CASE CommitMemory
  BY <1>11 DEF CommitMemory, End, workflow, counters
<1>12. CASE Conclude
  BY <1>12 DEF Conclude, End, FailureLimit, workflow, counters
<1>13. CASE Report
  BY <1>13 DEF Report, Move, workflow, counters
<1>14. CASE Checkpoint
  BY <1>14 DEF Checkpoint, workflow, counters
<1>15. CASE StepFailed
  BY <1>15 DEF StepFailed, End, workflow, counters
<1>16. CASE WorkflowDone
  BY <1>16 DEF WorkflowDone, workflow, counters
<1>17. CASE NextStep
  BY <1>17 DEF NextStep, Gate, AwaitApproval, End, workflow, counters
<1>18. CASE Raise
  BY <1>18 DEF Raise, End, Terminal, workflow, counters
<1>19. CASE Grant
  BY <1>19 DEF Grant, End, workflow, counters
<1>20. CASE Deny
  BY <1>20 DEF Deny, End, workflow, counters
<1>21. CASE UNCHANGED vars
  BY <1>21 DEF vars, workflow, counters
<1>22. QED
  BY <1>1, <1>2, <1>3, <1>4, <1>5, <1>6, <1>7, <1>8, <1>9, <1>10, <1>11,
     <1>12, <1>13, <1>14, <1>15, <1>16, <1>17, <1>18, <1>19, <1>20, <1>21
     DEF Next, Proceed

\* A workflow begins with the selection of its first step.
LEMMA WorkStep ==
  ASSUME TypeOK, WorkInv, [Next]_vars PROVE WorkInv'
<1> USE BudgetAssumption, PlansAssumption DEF TypeOK, WorkInv, Before
<1>1. CASE Prepare
  BY <1>1 DEF Prepare, workflow, counters
<1>2. CASE Cycle
  BY <1>2 DEF Cycle, Move, workflow, counters
<1>3. CASE Replan
  BY <1>3 DEF Replan, workflow, counters
<1>4. CASE ObeySignal
  BY <1>4 DEF ObeySignal, End, workflow, counters
<1>5. ASSUME NEW p \in Plans, Activate(p) PROVE WorkInv'
  BY <1>5, NoPlanIsNone DEF Activate, Gate, AwaitApproval, End, workflow,
      counters
<1>6. CASE ChooseAction
  BY <1>6 DEF ChooseAction, Gate, AwaitApproval, End, workflow, counters
<1>7. CASE NoCandidate
  BY <1>7 DEF NoCandidate, End, workflow, counters
<1>8. CASE Execute
  BY <1>8 DEF Execute, workflow, counters
<1>9. CASE Observe
  BY <1>9 DEF Observe, Move, workflow, counters
<1>10. CASE Remember
  BY <1>10 DEF Remember, Move, workflow, counters
<1>11. CASE CommitMemory
  BY <1>11 DEF CommitMemory, End, workflow, counters
<1>12. CASE Conclude
  BY <1>12 DEF Conclude, End, FailureLimit, workflow, counters
<1>13. CASE Report
  BY <1>13 DEF Report, Move, workflow, counters
<1>14. CASE Checkpoint
  BY <1>14 DEF Checkpoint, workflow, counters
<1>15. CASE StepFailed
  BY <1>15 DEF StepFailed, End, workflow, counters
<1>16. CASE WorkflowDone
  BY <1>16 DEF WorkflowDone, workflow, counters
<1>17. CASE NextStep
  BY <1>17 DEF NextStep, Gate, AwaitApproval, End, workflow, counters
<1>18. CASE Raise
  BY <1>18 DEF Raise, End, Terminal, workflow, counters
<1>19. CASE Grant
  BY <1>19 DEF Grant, End, workflow, counters
<1>20. CASE Deny
  BY <1>20 DEF Deny, End, workflow, counters
<1>21. CASE UNCHANGED vars
  BY <1>21 DEF vars, workflow, counters
<1>22. QED
  BY <1>1, <1>2, <1>3, <1>4, <1>5, <1>6, <1>7, <1>8, <1>9, <1>10, <1>11,
     <1>12, <1>13, <1>14, <1>15, <1>16, <1>17, <1>18, <1>19, <1>20, <1>21
     DEF Next, Proceed

\* Each step of a workflow is recorded once and paid once.
LEMMA BudgetStep ==
  ASSUME TypeOK, PlaceInv, WorkInv, BudgetInv, [Next]_vars PROVE BudgetInv'
<1> USE BudgetAssumption, PlansAssumption DEF TypeOK, PlaceInv, StateOf,
    WorkInv, BudgetInv, Before, After, Waiting
<1>1. CASE Prepare
  BY <1>1 DEF Prepare, workflow, counters
<1>2. CASE Cycle
  BY <1>2 DEF Cycle, Move, workflow, counters
<1>3. CASE Replan
  BY <1>3 DEF Replan, workflow, counters
<1>4. CASE ObeySignal
  BY <1>4 DEF ObeySignal, End, workflow, counters
<1>5. ASSUME NEW p \in Plans, Activate(p) PROVE BudgetInv'
  BY <1>5, MaxStepsPositive, NoPlanIsNone DEF Activate, Gate, AwaitApproval,
      End, workflow, counters
<1>6. CASE ChooseAction
  BY <1>6 DEF ChooseAction, Gate, AwaitApproval, End, workflow, counters
<1>7. CASE NoCandidate
  BY <1>7 DEF NoCandidate, End, workflow, counters
<1>8. CASE Execute
  BY <1>8 DEF Execute, workflow, counters
<1>9. CASE Observe
  BY <1>9 DEF Observe, Move, workflow, counters
<1>10. CASE Remember
  BY <1>10 DEF Remember, Move, workflow, counters
<1>11. CASE CommitMemory
  BY <1>11 DEF CommitMemory, End, workflow, counters
<1>12. CASE Conclude
  BY <1>12 DEF Conclude, End, FailureLimit, workflow, counters
<1>13. CASE Report
  BY <1>13 DEF Report, Move, workflow, counters
<1>14. CASE Checkpoint
  <2>1. /\ plan # NoPlan /\ plan' = plan /\ ok' = ok
        /\ Len(history) = index /\ index < plan.steps
        /\ consumed = index /\ consumed < MaxSteps(plan)
    BY <1>14 DEF Checkpoint
  <2>2. PICK s \in { "completed", "failed" } :
          /\ history' = Append(history, s)
          /\ s = IF ok THEN "completed" ELSE "failed"
    BY <1>14 DEF Checkpoint
  <2>3. /\ Len(history') = Len(history) + 1
        /\ \A i \in 1 .. Len(history) : history'[i] = history[i]
        /\ history'[Len(history) + 1] = s
    BY <2>2
  <2>4. plan \in Plans /\ MaxSteps(plan) \in Nat /\ plan.steps \in Nat
    BY <2>1, MaxStepsPositive
  <2>5. /\ consumed' = consumed + 1 /\ pc' = "continue" /\ state' = state
        /\ index' = IF ok THEN index + 1 ELSE index
    BY <1>14 DEF Checkpoint
  <2>6. consumed' = Len(history') /\ consumed' <= MaxSteps(plan')
    BY <2>1, <2>3, <2>4, <2>5 DEF MaxSteps
  <2>7. index' <= plan'.steps /\ Len(history') \in { index', index' + 1 }
    BY <2>1, <2>3, <2>4, <2>5
  <2>8. ASSUME NEW i \in 1 .. Len(history')
        PROVE history'[i] = IF i <= index' THEN "completed" ELSE "failed"
    BY <2>1, <2>2, <2>3, <2>5
  <2>9. QED
    BY <2>1, <2>3, <2>5, <2>6, <2>7, <2>8
<1>15. CASE StepFailed
  BY <1>15 DEF StepFailed, End, workflow, counters
<1>16. CASE WorkflowDone
  BY <1>16 DEF WorkflowDone, workflow, counters
<1>17. CASE NextStep
  BY <1>17 DEF NextStep, Gate, AwaitApproval, End, workflow, counters
<1>18. CASE Raise
  BY <1>18 DEF Raise, End, Terminal, workflow, counters
<1>19. CASE Grant
  BY <1>19 DEF Grant, End, workflow, counters
<1>20. CASE Deny
  BY <1>20 DEF Deny, End, workflow, counters
<1>21. CASE UNCHANGED vars
  BY <1>21 DEF vars, workflow, counters
<1>22. QED
  BY <1>1, <1>2, <1>3, <1>4, <1>5, <1>6, <1>7, <1>8, <1>9, <1>10, <1>11,
     <1>12, <1>13, <1>14, <1>15, <1>16, <1>17, <1>18, <1>19, <1>20, <1>21
     DEF Next, Proceed

\* Each further try of a single action was paid with a failure.
LEMMA TriesStep ==
  ASSUME TypeOK, PlaceInv, WorkInv, TriesInv, [Next]_vars PROVE TriesInv'
<1> USE BudgetAssumption, PlansAssumption DEF TypeOK, PlaceInv, StateOf,
    WorkInv, TriesInv, Before, After, Waiting, FailureLimit
<1>1. CASE Prepare
  BY <1>1 DEF Prepare, workflow, counters
<1>2. CASE Cycle
  BY <1>2 DEF Cycle, Move, workflow, counters
<1>3. CASE Replan
  BY <1>3 DEF Replan, workflow, counters
<1>4. CASE ObeySignal
  BY <1>4 DEF ObeySignal, End, workflow, counters
<1>5. ASSUME NEW p \in Plans, Activate(p) PROVE TriesInv'
  BY <1>5 DEF Activate, Gate, AwaitApproval, End, workflow, counters
<1>6. CASE ChooseAction
  BY <1>6 DEF ChooseAction, Gate, AwaitApproval, End, workflow, counters
<1>7. CASE NoCandidate
  BY <1>7 DEF NoCandidate, End, workflow, counters
<1>8. CASE Execute
  BY <1>8 DEF Execute, workflow, counters
<1>9. CASE Observe
  BY <1>9 DEF Observe, Move, workflow, counters
<1>10. CASE Remember
  BY <1>10 DEF Remember, Move, workflow, counters
<1>11. CASE CommitMemory
  BY <1>11 DEF CommitMemory, End, workflow, counters
<1>12. CASE Conclude
  BY <1>12 DEF Conclude, End, workflow, counters
<1>13. CASE Report
  BY <1>13 DEF Report, Move, workflow, counters
<1>14. CASE Checkpoint
  BY <1>14 DEF Checkpoint, workflow, counters
<1>15. CASE StepFailed
  BY <1>15 DEF StepFailed, End, workflow, counters
<1>16. CASE WorkflowDone
  BY <1>16 DEF WorkflowDone, workflow, counters
<1>17. CASE NextStep
  BY <1>17 DEF NextStep, Gate, AwaitApproval, End, workflow, counters
<1>18. CASE Raise
  BY <1>18 DEF Raise, End, Terminal, workflow, counters
<1>19. CASE Grant
  BY <1>19 DEF Grant, End, workflow, counters
<1>20. CASE Deny
  BY <1>20 DEF Deny, End, workflow, counters
<1>21. CASE UNCHANGED vars
  BY <1>21 DEF vars, workflow, counters
<1>22. QED
  BY <1>1, <1>2, <1>3, <1>4, <1>5, <1>6, <1>7, <1>8, <1>9, <1>10, <1>11,
     <1>12, <1>13, <1>14, <1>15, <1>16, <1>17, <1>18, <1>19, <1>20, <1>21
     DEF Next, Proceed

\* A run goes on to its report with a success only.
LEMMA EarnedStep ==
  ASSUME TypeOK, PlaceInv, WorkInv, BudgetInv, EarnedInv, [Next]_vars
  PROVE EarnedInv'
<1> USE BudgetAssumption, PlansAssumption DEF TypeOK, PlaceInv, StateOf,
    WorkInv, BudgetInv, EarnedInv, Before, After, Waiting
<1>1. CASE Prepare
  BY <1>1 DEF Prepare, workflow, counters
<1>2. CASE Cycle
  BY <1>2 DEF Cycle, Move, workflow, counters
<1>3. CASE Replan
  BY <1>3 DEF Replan, workflow, counters
<1>4. CASE ObeySignal
  BY <1>4 DEF ObeySignal, End, workflow, counters
<1>5. ASSUME NEW p \in Plans, Activate(p) PROVE EarnedInv'
  BY <1>5 DEF Activate, Gate, AwaitApproval, End, workflow, counters
<1>6. CASE ChooseAction
  BY <1>6 DEF ChooseAction, Gate, AwaitApproval, End, workflow, counters
<1>7. CASE NoCandidate
  BY <1>7 DEF NoCandidate, End, workflow, counters
<1>8. CASE Execute
  BY <1>8 DEF Execute, workflow, counters
<1>9. CASE Observe
  BY <1>9 DEF Observe, Move, workflow, counters
<1>10. CASE Remember
  BY <1>10 DEF Remember, Move, workflow, counters
<1>11. CASE CommitMemory
  BY <1>11 DEF CommitMemory, End, workflow, counters
<1>12. CASE Conclude
  BY <1>12 DEF Conclude, End, FailureLimit, workflow, counters
<1>13. CASE Report
  BY <1>13 DEF Report, Move, workflow, counters
<1>14. CASE Checkpoint
  BY <1>14 DEF Checkpoint, workflow, counters
<1>15. CASE StepFailed
  BY <1>15 DEF StepFailed, End, workflow, counters
<1>16. CASE WorkflowDone
  BY <1>16 DEF WorkflowDone, workflow, counters
<1>17. CASE NextStep
  BY <1>17 DEF NextStep, Gate, AwaitApproval, End, workflow, counters
<1>18. CASE Raise
  BY <1>18 DEF Raise, End, Terminal, workflow, counters
<1>19. CASE Grant
  BY <1>19 DEF Grant, End, workflow, counters
<1>20. CASE Deny
  BY <1>20 DEF Deny, End, workflow, counters
<1>21. CASE UNCHANGED vars
  BY <1>21 DEF vars, workflow, counters
<1>22. QED
  BY <1>1, <1>2, <1>3, <1>4, <1>5, <1>6, <1>7, <1>8, <1>9, <1>10, <1>11,
     <1>12, <1>13, <1>14, <1>15, <1>16, <1>17, <1>18, <1>19, <1>20, <1>21
     DEF Next, Proceed

-----------------------------------------------------------------------------
(* The theorems.                                                           *)

\* The invariant holds when the run is created.
LEMMA InitLInv == Init => LInv
<1> SUFFICES ASSUME Init PROVE LInv
  OBVIOUS
<1>1. TypeOK
  <2>1. << >> \in Seq({ "completed", "failed" })
    OBVIOUS
  <2>2. history \in Seq({ "completed", "failed" })
    BY <2>1 DEF Init
  <2>3. /\ state \in States /\ pc \in PCs
        /\ replan \in 0 .. ReplanBudget /\ plan \in Plans \cup { NoPlan }
        /\ failures \in Nat /\ consumed \in Nat /\ index \in Nat
        /\ invoked \in Nat
    BY BudgetAssumption DEF Init, States, PCs
  <2>4. resumed \in BOOLEAN /\ pending \in BOOLEAN /\ ok \in BOOLEAN
    BY Zenon DEF Init
  <2>5. QED
    BY <2>2, <2>3, <2>4 DEF TypeOK
<1>2. PlaceInv /\ WorkInv
  BY DEF Init, PlaceInv, StateOf, WorkInv, Before
<1>3. BudgetInv /\ TriesInv /\ EarnedInv
  BY DEF Init, BudgetInv, TriesInv, EarnedInv, FailureLimit, Before, After,
         Waiting
<1>4. QED
  BY <1>1, <1>2, <1>3 DEF LInv

\* The inductive invariant of the loop of a run holds in every reachable
\* state, whatever the budget and the plans are (runtime/runtime.py).
THEOREM LoopInvariant == Spec => []LInv
<1>1. LInv /\ [Next]_vars => LInv'
  BY TypeStep, PlaceStep, WorkStep, BudgetStep, TriesStep, EarnedStep DEF LInv
<1>2. QED
  BY InitLInv, <1>1, PTL DEF Spec

\* The variables of the loop keep their types.
THEOREM TypeCorrect == Spec => []TypeOK
<1>1. LInv => TypeOK
  BY DEF LInv
<1>2. QED
  BY <1>1, LoopInvariant, PTL

\* A workflow never invokes more tools than its budget has steps
\* (_record_workflow_step, _continue_workflow).
THEOREM BudgetHolds == Spec => []WithinBudget
<1>1. LInv => WithinBudget
  BY DEF LInv, BudgetInv, WithinBudget
<1>2. QED
  BY <1>1, LoopInvariant, PTL

\* A single action is invoked three times at most, with a grant or without
\* (_execute_and_complete).
THEOREM TriesHold == Spec => []TriesBounded
<1>1. LInv => TriesBounded
  BY DEF LInv, TriesInv, TriesBounded
<1>2. QED
  BY <1>1, LoopInvariant, PTL

\* No step of a workflow is skipped, and none is repeated
\* (_record_workflow_step).
THEOREM CheckpointHolds == Spec => []CheckpointAgrees
<1>1. LInv => CheckpointAgrees
  BY DEF LInv, TypeOK, BudgetInv, CheckpointAgrees
<1>2. QED
  BY <1>1, LoopInvariant, PTL

\* A run that reports has a success behind it, and all of its workflow
\* (_execute_and_complete, _continue_workflow).
THEOREM ReportsHold == Spec => []ReportsEarned
<1>1. LInv => ReportsEarned
  BY DEF LInv, EarnedInv, ReportsEarned
<1>2. QED
  BY <1>1, LoopInvariant, PTL

\* A step of the loop is one of the transition table: assert_transition
\* never raises (_set_state, runtime/state_machine.py).
LEMMA LegalStep ==
  ASSUME TypeOK, PlaceInv, [Next]_vars
  PROVE state' # state => CanTransition(state, state')
<1> USE DEF PlaceInv, StateOf, CanTransition, Transitions, Terminal
<1>1. CASE Prepare
  BY <1>1 DEF Prepare
<1>2. CASE Cycle
  BY <1>2 DEF Cycle, Move
<1>3. CASE Replan
  BY <1>3 DEF Replan
<1>4. CASE ObeySignal
  BY <1>4 DEF ObeySignal, End
<1>5. ASSUME NEW p \in Plans, Activate(p)
      PROVE state' # state => CanTransition(state, state')
  BY <1>5 DEF Activate, Gate, AwaitApproval, End
<1>6. CASE ChooseAction
  BY <1>6 DEF ChooseAction, Gate, AwaitApproval, End
<1>7. CASE NoCandidate
  BY <1>7 DEF NoCandidate, End
<1>8. CASE Execute
  BY <1>8 DEF Execute
<1>9. CASE Observe
  BY <1>9 DEF Observe, Move
<1>10. CASE Remember
  BY <1>10 DEF Remember, Move
<1>11. CASE CommitMemory
  BY <1>11 DEF CommitMemory, End
<1>12. CASE Conclude
  BY <1>12 DEF Conclude, End, FailureLimit
<1>13. CASE Report
  BY <1>13 DEF Report, Move
<1>14. CASE Checkpoint
  BY <1>14 DEF Checkpoint
<1>15. CASE StepFailed
  BY <1>15 DEF StepFailed, End
<1>16. CASE WorkflowDone
  BY <1>16 DEF WorkflowDone
<1>17. CASE NextStep
  BY <1>17 DEF NextStep, Gate, AwaitApproval, End
<1>18. CASE Raise
  BY <1>18 DEF Raise, End
<1>19. CASE Grant
  BY <1>19 DEF Grant, End
<1>20. CASE Deny
  BY <1>20 DEF Deny, End
<1>21. CASE UNCHANGED vars
  BY <1>21 DEF vars
<1>22. QED
  BY <1>1, <1>2, <1>3, <1>4, <1>5, <1>6, <1>7, <1>8, <1>9, <1>10, <1>11,
     <1>12, <1>13, <1>14, <1>15, <1>16, <1>17, <1>18, <1>19, <1>20, <1>21
     DEF Next, Proceed

\* Every move of the run is a legal transition.
THEOREM MovesHold == Spec => MovesLegally
<1>1. LInv /\ [Next]_vars =>
      [state' # state => CanTransition(state, state')]_vars
  BY LegalStep DEF LInv
<1>2. QED
  BY <1>1, LoopInvariant, PTL DEF Spec, MovesLegally

=============================================================================
