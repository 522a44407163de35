---------------------------- MODULE RunLifecycle ----------------------------
(***************************************************************************)
(* The loop of one run (hca/runtime/runtime.py): the cognitive cycle up to *)
(* the selection of an action, its execution, the retry of an action that  *)
(* failed, and the workflow whose steps are executed one after the other.  *)
(*                                                                         *)
(* A call of the loop is Runtime.run, or the resume that follows a grant;  *)
(* the journal of the approvals, crashes and concurrent calls are the      *)
(* subject of ApprovalAuthority, so that a transition and its event are    *)
(* one write here.  What the modules propose, what the monitor recommends  *)
(* and what a tool returns is not determined.                              *)
(***************************************************************************)
EXTENDS RunStates, Naturals, Sequences

CONSTANTS
  ReplanBudget, \* replan_budget of the Runtime
  Plans         \* workflow plans: [steps, max], max = 0 when unlimited

ASSUME BudgetAssumption == ReplanBudget \in Nat
ASSUME PlansAssumption == Plans \subseteq [steps : Nat \ { 0 }, max : Nat]

NoPlan == [steps |-> 0, max |-> 0]

\* A single action is given up after its third failure.
FailureLimit == 2

VARIABLES
  state,    \* context.state, in memory, in run.json and in the event log
  pc,       \* what the call under way does next; "idle" when none is
  resumed,  \* the call is a resume: it has no workspace
  replan,   \* _remaining_replan
  failures, \* _execution_failure_count
  pending,  \* a request for approval is pending
  plan,     \* active_workflow, or NoPlan
  consumed, \* workflow_budget.consumed_steps
  index,    \* workflow_checkpoint.current_step_index, from 0
  history,  \* workflow_step_history: the status of each record
  ok,       \* the status of the latest receipt
  invoked   \* how often a tool was invoked outside of a workflow

vars == << state, pc, resumed, replan, failures, pending, plan, consumed,
           index, history, ok, invoked >>
workflow == << plan, consumed, index, history >>
counters == << replan, failures >>

PCs == { "idle", "start", "propose", "broadcast", "recur", "assess", "signal",
         "choose", "execute", "observe", "remember", "commit", "record",
         "continue", "conclude", "report" }

\* _activate_workflow
MaxSteps(p) == IF p.max > 0 THEN p.max ELSE p.steps

Init ==
  /\ state = "created" /\ pc = "start" /\ resumed = FALSE
  /\ replan = ReplanBudget /\ failures = 0
  /\ pending = FALSE
  /\ plan = NoPlan /\ consumed = 0 /\ index = 0 /\ history = << >>
  /\ ok = FALSE /\ invoked = 0

-----------------------------------------------------------------------------
(* How a call ends.                                                        *)

\* _fail_run and _halt_run.
End(s) == state' = s /\ pc' = "idle"

\* _request_approval: the call returns and the run waits.
AwaitApproval ==
  /\ pending' = TRUE
  /\ End("awaiting_approval")

-----------------------------------------------------------------------------
(* _step and _step_from_proposing.                                         *)

Move(from, target, next) ==
  /\ pc = from
  /\ state' = target /\ pc' = next
  /\ UNCHANGED << resumed, counters, pending, workflow, ok, invoked >>

Prepare ==
  /\ pc = "start"
  /\ \/ state = "created" /\ state' = "initializing" /\ pc' = "start"
     \/ state = "initializing" /\ state' = "gathering_inputs" /\ pc' = "start"
     \/ state = "gathering_inputs" /\ state' = "proposing" /\ pc' = "propose"
  /\ UNCHANGED << resumed, counters, pending, workflow, ok, invoked >>

\* The modules propose, what they propose is admitted, broadcast, and
\* revised, and the monitor assesses the workspace.
Cycle ==
  \/ Move("propose", "admitting", "broadcast")
  \/ Move("broadcast", "broadcasting", "recur")
  \/ Move("recur", "recurrent_update", "assess")
  \/ Move("assess", "action_selection", "signal")

\* Mutant: a replan costs no budget.
ReplanForFree ==
  /\ pc = "signal" /\ replan > 0
  /\ state' = "proposing" /\ pc' = "propose"
  /\ UNCHANGED << resumed, counters, pending, workflow, ok, invoked >>

\* _handle_control_signal: replan and retrieve_more start the cycle again
\* while the budget lasts ...
Replan ==
  /\ pc = "signal" /\ replan > 0
  /\ replan' = replan - 1
  /\ state' = "proposing" /\ pc' = "propose"
  /\ UNCHANGED << resumed, failures, pending, workflow, ok, invoked >>

\* ... halt ends the run, ask_user makes it wait without any request, and
\* every other signal (or no budget left) lets the selection go on.
ObeySignal ==
  /\ pc = "signal"
  /\ \/ End("halted")
     \/ End("awaiting_approval")
     \/ pc' = "choose" /\ UNCHANGED state
  /\ UNCHANGED << resumed, counters, pending, workflow, ok, invoked >>

\* An action is selected: it waits for approval when its tool is gated.
Gate(gated) ==
  IF gated THEN AwaitApproval
           ELSE pc' = "execute" /\ pending' = FALSE /\ UNCHANGED state

\* Mutant: the steps that were consumed before stay counted.
ActivateCounted(p) ==
  /\ pc = "choose"
  /\ plan' = p /\ consumed' = consumed + 1 /\ index' = 0 /\ history' = << >>
  /\ \E gated \in BOOLEAN : Gate(gated)
  /\ UNCHANGED << resumed, counters, ok, invoked >>

\* _activate_workflow and the selection of its first step.
Activate(p) ==
  /\ pc = "choose"
  /\ plan' = p /\ consumed' = 0 /\ index' = 0 /\ history' = << >>
  /\ \E gated \in BOOLEAN : Gate(gated)
  /\ UNCHANGED << resumed, counters, ok, invoked >>

ChooseAction ==
  /\ pc = "choose"
  /\ \E gated \in BOOLEAN : Gate(gated)
  /\ UNCHANGED << resumed, counters, workflow, ok, invoked >>

NoCandidate ==
  /\ pc = "choose"
  /\ End("failed")
  /\ UNCHANGED << resumed, counters, pending, workflow, ok, invoked >>

-----------------------------------------------------------------------------
(* _execute_and_complete.                                                  *)

\* Mutant: the receipt is taken without passing through observing.
ExecuteUnobserved ==
  /\ pc = "execute"
  /\ state' = "executing" /\ pc' = "remember"
  /\ ok' \in BOOLEAN
  /\ invoked' = IF plan = NoPlan THEN invoked + 1 ELSE invoked
  /\ UNCHANGED << resumed, counters, pending, workflow >>

\* The tool is invoked and leaves a receipt.
Execute ==
  /\ pc = "execute"
  /\ state' = "executing" /\ pc' = "observe"
  /\ ok' \in BOOLEAN
  /\ invoked' = IF plan = NoPlan THEN invoked + 1 ELSE invoked
  /\ UNCHANGED << resumed, counters, pending, workflow >>

Observe == Move("observe", "observing", "remember")
Remember == Move("remember", "memory_commit", "commit")

\* _record_execution_memory: a write that fails ends the run.
CommitMemory ==
  /\ pc = "commit"
  /\ \/ /\ End("failed")
        /\ failures' = failures + 1
     \/ /\ pc' = IF plan = NoPlan THEN "conclude" ELSE "record"
        /\ UNCHANGED << state, failures >>
  /\ UNCHANGED << resumed, replan, pending, workflow, ok, invoked >>

\* The end of a single action: it reports, or is tried again from a new
\* workspace; a resume has no workspace to come back to.
Conclude ==
  /\ pc = "conclude"
  /\ \/ /\ ok
        /\ state' = "reporting" /\ pc' = "report"
        /\ UNCHANGED failures
     \/ /\ ~ok /\ (resumed \/ failures + 1 > FailureLimit)
        /\ failures' = failures + 1
        /\ End("failed")
     \/ /\ ~ok /\ ~resumed /\ failures + 1 <= FailureLimit
        /\ failures' = failures + 1
        /\ state' = "proposing" /\ pc' = "propose"
  /\ UNCHANGED << resumed, replan, pending, workflow, ok, invoked >>

Report == Move("report", "completed", "idle")

-----------------------------------------------------------------------------
(* _continue_workflow.                                                     *)

\* Mutant: a step that failed is not counted against the budget.
CheckpointUncounted ==
  /\ pc = "record"
  /\ history' = Append(history, IF ok THEN "completed" ELSE "failed")
  /\ consumed' = IF ok THEN consumed + 1 ELSE consumed
  /\ index' = IF ok THEN index + 1 ELSE index
  /\ pc' = "continue"
  /\ UNCHANGED << state, resumed, counters, pending, plan, ok, invoked >>

\* _record_workflow_step
Checkpoint ==
  /\ pc = "record"
  /\ history' = Append(history, IF ok THEN "completed" ELSE "failed")
  /\ consumed' = consumed + 1
  /\ index' = IF ok THEN index + 1 ELSE index
  /\ pc' = "continue"
  /\ UNCHANGED << state, resumed, counters, pending, plan, ok, invoked >>

StepFailed ==
  /\ pc = "continue" /\ ~ok
  /\ failures' = failures + 1
  /\ End("failed")
  /\ UNCHANGED << resumed, replan, pending, workflow, ok, invoked >>

WorkflowDone ==
  /\ pc = "continue" /\ ok /\ index >= plan.steps
  /\ state' = "reporting" /\ pc' = "report"
  /\ UNCHANGED << resumed, counters, pending, workflow, ok, invoked >>

\* Mutant: the budget is not looked at before the next step.
NextStepUnpaid ==
  /\ pc = "continue" /\ ok /\ index < plan.steps
  /\ \/ \E gated \in BOOLEAN : Gate(gated)
     \/ End("failed") /\ UNCHANGED pending
  /\ UNCHANGED << resumed, counters, workflow, ok, invoked >>

\* The next step needs budget, and arguments that can be built.
NextStep ==
  /\ pc = "continue" /\ ok /\ index < plan.steps
  /\ \/ consumed < MaxSteps(plan) /\ \E gated \in BOOLEAN : Gate(gated)
     \/ End("failed") /\ UNCHANGED pending
  /\ UNCHANGED << resumed, counters, workflow, ok, invoked >>

-----------------------------------------------------------------------------
(* Exceptions, and the calls of the operator.                              *)

\* _record_unhandled_failure.  An exception makes the run fail, but a
\* ValueError that leaves resume changes nothing more.
Raise ==
  /\ pc # "idle"
  /\ \/ state \notin Terminal /\ End("failed") /\ failures' = failures + 1
     \/ resumed /\ pc' = "idle" /\ UNCHANGED << state, failures >>
  /\ UNCHANGED << resumed, replan, pending, workflow, ok, invoked >>

\* resume, after its checks: the action that was approved is executed by a
\* runtime of its own, or the approval has expired and the run fails.
Grant ==
  /\ pc = "idle" /\ state = "awaiting_approval" /\ pending
  /\ \/ pending' = FALSE /\ pc' = "execute" /\ UNCHANGED state
     \/ End("failed") /\ UNCHANGED pending
  /\ resumed' = TRUE /\ failures' = 0
  /\ UNCHANGED << replan, workflow, ok, invoked >>

\* deny_approval
Deny ==
  /\ pc = "idle" /\ state = "awaiting_approval" /\ pending
  /\ End("halted")
  /\ UNCHANGED << resumed, counters, pending, workflow, ok, invoked >>

\* The call under way goes on.
Proceed ==
  \/ Prepare \/ Cycle \/ Replan \/ ObeySignal
  \/ (\E p \in Plans : Activate(p)) \/ ChooseAction \/ NoCandidate
  \/ Execute \/ Observe \/ Remember \/ CommitMemory \/ Conclude \/ Report
  \/ Checkpoint \/ StepFailed \/ WorkflowDone \/ NextStep
  \/ Raise

Next == Proceed \/ Grant \/ Deny

Spec == Init /\ [][Next]_vars

\* The thread of a call is scheduled.
FairSpec == Spec /\ WF_vars(Proceed)

-----------------------------------------------------------------------------
(* Properties.                                                             *)

\* The values each variable takes.
TypeOK ==
  /\ state \in States /\ pc \in PCs /\ resumed \in BOOLEAN
  /\ replan \in 0 .. ReplanBudget /\ failures \in Nat
  /\ pending \in BOOLEAN
  /\ plan \in Plans \cup { NoPlan }
  /\ consumed \in Nat /\ index \in Nat
  /\ history \in Seq({ "completed", "failed" })
  /\ ok \in BOOLEAN /\ invoked \in Nat

\* A workflow spends a step of its budget on every invocation and never more
\* than it has, the step that failed included.
WithinBudget ==
  plan # NoPlan =>
    /\ consumed = Len(history)
    /\ consumed <= MaxSteps(plan)

\* A single action is invoked three times at most, however often the run
\* replans or is resumed in between.
TriesBounded == invoked <= FailureLimit + 1

\* The checkpoint stands at the first step that is not completed: a step is
\* never skipped and never repeated once a later one ran.
CheckpointAgrees ==
  plan # NoPlan =>
    /\ index <= plan.steps
    /\ \A i \in 1 .. Len(history) :
         history[i] = IF i <= index THEN "completed" ELSE "failed"
    /\ Len(history) <= index + 1

\* A run that reports has done its work: its last receipt is a success, and
\* every step of its workflow is completed.
ReportsEarned ==
  state \in { "reporting", "completed" } =>
    ok /\ (plan # NoPlan => index = plan.steps)

\* assert_transition never raises: every move of the loop is one of the table.
MovesLegally ==
  [][state' # state => CanTransition(state, state')]_vars

\* Every call returns: replanning, retries and steps are bounded.
CallReturns == pc # "idle" ~> pc = "idle"

-----------------------------------------------------------------------------
(* The inductive invariant behind the properties.  What a reader of run.json *)
(* is promised is not inductive: it follows from where the thread of the     *)
(* call stands, from the work that still lies ahead of it, and from the      *)
(* counters that this work will use up.                                      *)

\* Where the thread stands tells which state the run is in.
StateOf(p) ==
  CASE p = "start" -> { "created", "initializing", "gathering_inputs" }
    [] p = "propose" -> { "proposing" }
    [] p = "broadcast" -> { "admitting" }
    [] p = "recur" -> { "broadcasting" }
    [] p = "assess" -> { "recurrent_update" }
    [] p \in { "signal", "choose" } -> { "action_selection" }
    [] p = "execute" -> { "action_selection", "awaiting_approval",
                          "memory_commit" }
    [] p = "observe" -> { "executing" }
    [] p = "remember" -> { "observing" }
    [] p \in { "commit", "record", "continue", "conclude" } ->
         { "memory_commit" }
    [] p = "report" -> { "reporting" }
    [] p = "idle" -> States

PlaceInv ==
  /\ state \in StateOf(pc)
  /\ pending => pc = "idle"

\* The points of a call before and after the invocation of a tool.
Before == { "start", "propose", "broadcast", "recur", "assess", "signal",
            "choose", "execute" }
After == { "observe", "remember", "commit" }

\* The run waits for a grant that would invoke the tool.
Waiting == pc = "idle" /\ state = "awaiting_approval" /\ pending

\* A workflow is the work of a call from the selection of its first step on.
WorkInv ==
  /\ plan # NoPlan => pc \notin (Before \ { "execute" }) \cup { "conclude" }
  /\ pc \in { "record", "continue" } => plan # NoPlan

\* The counters of the workflow, and what is left of them for the next step.
BudgetInv ==
  plan # NoPlan =>
    /\ consumed = Len(history)
    /\ consumed <= MaxSteps(plan)
    /\ index <= plan.steps
    /\ Len(history) \in { index, index + 1 }
    /\ \A i \in 1 .. Len(history) :
         history[i] = IF i <= index THEN "completed" ELSE "failed"
    /\ pc \in After \cup { "execute", "record" } \/ Waiting =>
         /\ Len(history) = index
         /\ index < plan.steps
         /\ consumed < MaxSteps(plan)
    /\ pc = "continue" /\ ok => Len(history) = index

\* A single action is tried again for every failure that is counted.
TriesInv ==
  /\ plan # NoPlan => invoked <= FailureLimit
  /\ pc \in Before \/ Waiting => invoked <= FailureLimit
  /\ plan = NoPlan /\ ~resumed =>
       /\ pc \in Before \/ Waiting => invoked = failures
       /\ pc \in After \cup { "conclude" } => invoked = failures + 1
  /\ invoked <= FailureLimit + 1

\* The part of ReportsEarned that the other conjuncts do not give.
EarnedInv ==
  state \in { "reporting", "completed" } =>
    ok /\ (plan # NoPlan => index = plan.steps)

\* The inductive invariant.
LInv == TypeOK /\ PlaceInv /\ WorkInv /\ BudgetInv /\ TriesInv /\ EarnedInv

=============================================================================
