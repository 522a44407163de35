-------------------------- MODULE ApprovalAuthority --------------------------
(***************************************************************************)
(* The approval-gated part of one run: from the selection of a gated step  *)
(* to the end of the run (hca/runtime/runtime.py with                      *)
(* hca/storage/approvals.py, hca/storage/runs.py, hca/executor and         *)
(* hca/runtime/replay.py).                                                 *)
(*                                                                         *)
(* The Creator is the thread that called Runtime.run: it takes the run     *)
(* lock for each single write and drops it in between.  The Operators are  *)
(* the threads that serve grant, deny and resume calls: each holds the run *)
(* lock from its first read to its last write.  Every durable write is an  *)
(* action of its own, so that a crash, the passing of an expiry time or    *)
(* (for the Creator) an operator can come between any two of them.         *)
(*                                                                         *)
(* Step i of the workflow is selected at most once and asks for approval i *)
(* when it is gated, so steps and approvals share the numbers 1..NumSteps. *)
(***************************************************************************)
EXTENDS RunStates, Naturals

CONSTANTS
  Creator,      \* the thread that called Runtime.run
  Operators,    \* threads that serve operator calls
  Nobody,       \* the run lock is free
  NumSteps,     \* steps of the workflow (1: a single action)
  GatedSteps,   \* steps whose tool requires approval
  Tokens,       \* grant tokens
  NoToken,
  CallerTokens, \* tokens with which library code calls resume directly
  MaxCrashes    \* bound on the restarts of the server

Steps == 1 .. NumSteps
NoStep == 0
Threads == Operators \cup { Creator }

\* What the tool registry of the running build says of the selected tools:
\* "v1" and "v2" gate them under different policy fingerprints, "ungated" no
\* longer asks for approval, "removed" no longer knows them.
Registries == { "v1", "v2", "ungated", "removed" }
Unbound == "none"

ASSUME ThreadsAssumption ==
  Creator \notin Operators /\ Nobody \notin Operators \cup { Creator }
ASSUME StepsAssumption ==
  NumSteps \in Nat \ { 0 } /\ GatedSteps \subseteq Steps /\ 1 \in GatedSteps
ASSUME TokensAssumption ==
  NoToken \notin Tokens /\ CallerTokens \subseteq Tokens
ASSUME CrashesAssumption == MaxCrashes \in Nat

VARIABLES
  run,       \* run.json: the run context as last saved
  log,       \* events.jsonl, as reconstruct_state folds it
  approvals, \* approvals.jsonl: the latest record of each type, per approval
  lapsed,    \* <<record type, approval>> whose expires_at has passed
  effects,   \* how often the tool of each step was invoked
  receipts,  \* steps with a record in receipts.jsonl
  snapshot,  \* the last record of snapshots.jsonl
  registry,  \* the tool registry of the running build
  lock,      \* holder of the run lock
  pc,        \* the next write of each thread
  mem,       \* what each thread holds in memory
  crashes

vars == << run, log, approvals, lapsed, effects, receipts, snapshot,
           registry, lock, pc, mem, crashes >>
disk == << run, log, approvals, effects, receipts, snapshot >>

-----------------------------------------------------------------------------
(* Derived reads.                                                          *)
(*                                                                         *)
(* Here and below a definition whose comment starts with "Mutant" is not   *)
(* part of the model: it is the definition after it with a plausible bug,  *)
(* and shows what the properties at the end are able to notice.            *)

Gated(i) == i \in GatedSteps /\ registry # "ungated"

\* Mutant: the latest decision is only looked at when it is a grant.
StatusForgetsDenial(a) ==
  LET r == approvals[a] IN
  IF r.request = Unbound THEN "missing"
  ELSE IF r.consumption # Unbound THEN "consumed"
  ELSE IF r.decision = "granted"
       THEN IF <<"grant", a>> \in lapsed THEN "expired" ELSE "granted"
  ELSE IF <<"request", a>> \in lapsed THEN "expired" ELSE "pending"

\* Mutant: a grant never expires.
StatusForgetsExpiry(a) ==
  LET r == approvals[a] IN
  IF r.request = Unbound THEN "missing"
  ELSE IF r.decision = "denied" THEN "denied"
  ELSE IF r.consumption # Unbound THEN "consumed"
  ELSE IF r.decision = "granted" THEN "granted"
  ELSE IF <<"request", a>> \in lapsed THEN "expired" ELSE "pending"

\* resolve_status
Status(a) ==
  LET r == approvals[a] IN
  IF r.request = Unbound THEN "missing"
  ELSE IF r.decision = "denied" THEN "denied"
  ELSE IF r.consumption # Unbound THEN "consumed"
  ELSE IF r.decision = "granted"
       THEN IF <<"grant", a>> \in lapsed THEN "expired" ELSE "granted"
  ELSE IF <<"request", a>> \in lapsed THEN "expired" ELSE "pending"

\* The approval reconstruct_state reports: the pending one, else the last one
\* an event names, else the last one in approvals.jsonl.
Requested == { a \in Steps : approvals[a].request # Unbound }
ReplayedApproval ==
  IF log.pending # NoStep THEN log.pending
  ELSE IF log.latest # NoStep THEN log.latest
  ELSE IF Requested = {} THEN NoStep
  ELSE CHOOSE a \in Requested : \A b \in Requested : b <= a

\* Mutant: the replayed state is trusted without the status of the approval.
AcceptsAnyStatus(a, allowed) ==
  /\ ReplayedApproval = a
  /\ "awaiting_approval" \in { log.state, run.state }

\* _load_authoritative_pending_approval lets the call through.
Accepts(a, allowed) ==
  /\ ReplayedApproval = a
  /\ Status(a) \in allowed
  /\ "awaiting_approval" \in { log.state, run.state }

\* Mutant: the decision is enough, the grant record is not looked up.
GrantAssumed(a, token) == TRUE

\* validate_resume_approval, once the status is known to be "granted".
GrantHolds(a, token) ==
  approvals[a].grant # NoToken /\ approvals[a].grant = token

\* Mutant: the policy fingerprint is left out of the comparison.
ActionMatches(a) == log.selected = a

\* The canonical selected action still has the binding of the request.
BindingMatches(a) == log.selected = a /\ approvals[a].request = registry

-----------------------------------------------------------------------------
(* Threads.                                                                *)

PCs == { "idle", "done", "select", "request", "pend", "announce", "save",
         "log", "snapshot", "decide", "grant", "resume", "validate",
         "consume", "unpend", "deny", "tool", "receipt", "finish", "memory" }

Blank == [ state |-> "created", pending |-> NoStep, step |-> NoStep,
           token |-> NoToken, approved |-> FALSE, ok |-> FALSE,
           target |-> "created" ]

\* A write of t can happen now: the Creator takes the lock for this write
\* alone, an operator holds it already.
At(t, label) ==
  /\ pc[t] = label
  /\ lock = IF t = Creator THEN Nobody ELSE t

Goto(t, label) == pc' = [pc EXCEPT ![t] = label]

\* _set_state(target) is next.
Enter(t, target) ==
  /\ Goto(t, "save")
  /\ mem' = [mem EXCEPT ![t].target = target]

\* The call returns or raises, and the lock is dropped.
Return(t) ==
  /\ Goto(t, IF t = Creator THEN "done" ELSE "idle")
  /\ mem' = [mem EXCEPT ![t] = Blank]
  /\ lock' = Nobody

Init ==
  /\ run = [state |-> "action_selection", pending |-> NoStep]
  /\ log = [state |-> "action_selection", pending |-> NoStep,
            latest |-> NoStep, selected |-> NoStep]
  /\ approvals = [a \in Steps |-> [request |-> Unbound, decision |-> "none",
                                   grant |-> NoToken, consumption |-> Unbound]]
  /\ lapsed = {}
  /\ effects = [i \in Steps |-> 0]
  /\ receipts = {}
  /\ snapshot = [state |-> "created", pending |-> NoStep]
  /\ registry = "v1"
  /\ lock = Nobody
  /\ pc = [t \in Threads |-> IF t = Creator THEN "select" ELSE "idle"]
  /\ mem = [t \in Threads |->
              IF t = Creator
              THEN [Blank EXCEPT !.state = "action_selection", !.step = 1]
              ELSE Blank]
  /\ crashes = 0

-----------------------------------------------------------------------------
(* _select_action and _request_approval: by the Creator for the first step *)
(* and by the operator that carries the workflow on for later ones.        *)

\* Mutant: the step is executed although it is gated.
SelectUngated(t) ==
  /\ At(t, "select")
  /\ log' = [log EXCEPT !.selected = mem[t].step]
  /\ Goto(t, "save")
  /\ mem' = [mem EXCEPT ![t].target = "executing", ![t].approved = TRUE]
  /\ UNCHANGED << run, approvals, lapsed, effects, receipts, snapshot,
                  registry, lock, crashes >>

Select(t) ==
  /\ At(t, "select")
  /\ log' = [log EXCEPT !.selected = mem[t].step]
  /\ IF Gated(mem[t].step)
     THEN Goto(t, "request") /\ UNCHANGED mem
     ELSE /\ Goto(t, "save")
          /\ mem' = [mem EXCEPT ![t].target = "executing",
                                ![t].approved = FALSE]
  /\ UNCHANGED << run, approvals, lapsed, effects, receipts, snapshot,
                  registry, lock, crashes >>

RecordRequest(t) ==
  /\ At(t, "request")
  /\ approvals' = [approvals EXCEPT ![mem[t].step].request = registry]
  /\ Goto(t, "pend")
  /\ UNCHANGED << run, log, lapsed, effects, receipts, snapshot, registry,
                  lock, mem, crashes >>

\* _set_pending_approval(approval_id)
SavePending(t) ==
  /\ At(t, "pend")
  /\ mem' = [mem EXCEPT ![t].pending = mem[t].step]
  /\ run' = [state |-> mem[t].state, pending |-> mem[t].step]
  /\ Goto(t, "announce")
  /\ UNCHANGED << log, approvals, lapsed, effects, receipts, snapshot,
                  registry, lock, crashes >>

Announce(t) ==
  /\ At(t, "announce")
  /\ log' = [log EXCEPT !.pending = mem[t].step, !.latest = mem[t].step]
  /\ Enter(t, "awaiting_approval")
  /\ UNCHANGED << run, approvals, lapsed, effects, receipts, snapshot,
                  registry, lock, crashes >>

-----------------------------------------------------------------------------
(* _set_state in its two durable halves, and the snapshot that ends a call.*)

\* Mutant: the transition is saved and never logged.
SaveStateOnly(t) ==
  /\ At(t, "save")
  /\ CanTransition(mem[t].state, mem[t].target)
  /\ mem' = [mem EXCEPT ![t].state = mem[t].target]
  /\ run' = [state |-> mem[t].target, pending |-> mem[t].pending]
  /\ Goto(t, "snapshot")
  /\ UNCHANGED << log, approvals, lapsed, effects, receipts, snapshot,
                  registry, lock, crashes >>

SaveState(t) ==
  /\ At(t, "save")
  /\ CanTransition(mem[t].state, mem[t].target)
  /\ mem' = [mem EXCEPT ![t].state = mem[t].target]
  /\ run' = [state |-> mem[t].target, pending |-> mem[t].pending]
  /\ Goto(t, "log")
  /\ UNCHANGED << log, approvals, lapsed, effects, receipts, snapshot,
                  registry, lock, crashes >>

\* Mutant: the memory commit is skipped.
AfterLogNoMemory(t, s) ==
  \/ s = "executing" /\ Goto(t, "tool") /\ UNCHANGED mem
  \/ s = "observing" /\ Enter(t, "reporting")
  \/ s = "reporting" /\ Enter(t, "completed")
  \/ s \in Terminal \cup { "awaiting_approval" }
     /\ Goto(t, "snapshot") /\ UNCHANGED mem

\* Where a handler goes on once it has logged its transition to s.
AfterLog(t, s) ==
  \/ s = "executing" /\ Goto(t, "tool") /\ UNCHANGED mem
  \/ s = "observing" /\ Enter(t, "memory_commit")
  \/ s = "memory_commit" /\ Goto(t, "memory") /\ UNCHANGED mem
  \/ s = "reporting" /\ Enter(t, "completed")
  \/ s \in Terminal \cup { "awaiting_approval" }
     /\ Goto(t, "snapshot") /\ UNCHANGED mem

LogState(t) ==
  /\ At(t, "log")
  /\ log' = [log EXCEPT !.state = mem[t].state]
  /\ AfterLog(t, mem[t].state)
  /\ UNCHANGED << run, approvals, lapsed, effects, receipts, snapshot,
                  registry, lock, crashes >>

WriteSnapshot(t) ==
  /\ At(t, "snapshot")
  /\ snapshot' = [state |-> mem[t].state, pending |-> mem[t].pending]
  /\ Return(t)
  /\ UNCHANGED << run, log, approvals, lapsed, effects, receipts, registry,
                  crashes >>

-----------------------------------------------------------------------------
(* grant_approval and resume.  A call that is refused changes nothing and  *)
(* has no action.                                                          *)

\* The repaired context: an accepted run awaits approval a.
Awaiting(a) == [state |-> "awaiting_approval", pending |-> a]

Accepted(t, a, token, label) ==
  /\ run' = Awaiting(a)
  /\ mem' = [mem EXCEPT ![t] = [Blank EXCEPT !.state = "awaiting_approval",
                                              !.pending = a, !.step = a,
                                              !.token = token]]
  /\ Goto(t, label)

Grant(t, a, token) ==
  /\ pc[t] = "idle" /\ lock = Nobody
  /\ Accepts(a, { "pending" })
  /\ lock' = t
  /\ Accepted(t, a, token, "decide")
  /\ UNCHANGED << log, approvals, lapsed, effects, receipts, snapshot,
                  registry, crashes >>

\* append_grant checks the status again and writes the decision first ...
RecordDecision(t) ==
  /\ At(t, "decide")
  /\ Status(mem[t].step) \notin { "denied", "consumed", "granted" }
  /\ approvals' = [approvals EXCEPT ![mem[t].step].decision = "granted"]
  /\ Goto(t, "grant")
  /\ UNCHANGED << run, log, lapsed, effects, receipts, snapshot, registry,
                  lock, mem, crashes >>

\* Mutant: the grant is recorded and the run is not resumed.
RecordGrantOnly(t) ==
  /\ At(t, "grant")
  /\ approvals' = [approvals EXCEPT ![mem[t].step].grant = mem[t].token]
  /\ Return(t)
  /\ UNCHANGED << run, log, lapsed, effects, receipts, snapshot, registry,
                  crashes >>

\* ... then the grant itself, with the token.
RecordGrant(t) ==
  /\ At(t, "grant")
  /\ approvals' = [approvals EXCEPT ![mem[t].step].grant = mem[t].token]
  /\ Goto(t, "resume")
  /\ UNCHANGED << run, log, lapsed, effects, receipts, snapshot, registry,
                  lock, mem, crashes >>

\* grant_approval calls resume under its own lock; resume loads the run anew
\* and raises when the grant has expired meanwhile.
ContinueGrant(t) ==
  /\ At(t, "resume")
  /\ \/ /\ Accepts(mem[t].step, { "pending", "granted" })
        /\ Accepted(t, mem[t].step, mem[t].token, "validate")
        /\ UNCHANGED lock
     \/ /\ ~Accepts(mem[t].step, { "pending", "granted" })
        /\ Return(t)
        /\ UNCHANGED run
  /\ UNCHANGED << log, approvals, lapsed, effects, receipts, snapshot,
                  registry, crashes >>

\* resume, called by library code that holds a token.
Resume(t, a, token) ==
  /\ pc[t] = "idle" /\ lock = Nobody
  /\ Accepts(a, { "pending", "granted" })
  /\ lock' = t
  /\ Accepted(t, a, token, "validate")
  /\ UNCHANGED << log, approvals, lapsed, effects, receipts, snapshot,
                  registry, crashes >>

\* resume of a denied approval halts the run, whatever token it came with,
\* unless the run is over already.
ResumeDenied(t, a) ==
  /\ CallerTokens # {}
  /\ pc[t] = "idle" /\ lock = Nobody
  /\ ReplayedApproval = a /\ Status(a) = "denied"
  /\ CanTransition(run.state, "halted")
  /\ lock' = t
  /\ mem' = [mem EXCEPT ![t] = [Blank EXCEPT !.state = run.state,
                                              !.pending = run.pending,
                                              !.target = "halted"]]
  /\ Goto(t, "save")
  /\ UNCHANGED << disk, lapsed, registry, crashes >>

\* The first validation of resume, and the checks on the selected action.  A
\* denial cannot be found here: the lock is held since the call was accepted.
Validate(t) ==
  LET a == mem[t].step
      granted == Status(a) = "granted" /\ GrantHolds(a, mem[t].token)
  IN
  /\ At(t, "validate")
  /\ \/ granted /\ registry \in { "v1", "v2" }
        /\ Goto(t, "consume") /\ UNCHANGED << mem, lock >>
     \/ (Status(a) = "expired" \/ (granted /\ registry = "removed"))
        /\ Enter(t, "failed") /\ UNCHANGED lock
     \/ ~(granted /\ registry # "ungated") /\ Status(a) # "expired"
        /\ Return(t)
  /\ UNCHANGED << disk, lapsed, registry, crashes >>

\* Mutant: the consumption is not recorded.
ConsumeUnrecorded(t) ==
  LET a == mem[t].step IN
  /\ At(t, "consume")
  /\ Status(a) = "granted" /\ GrantHolds(a, mem[t].token) /\ BindingMatches(a)
  /\ Goto(t, "unpend")
  /\ UNCHANGED << disk, lapsed, registry, lock, mem, crashes >>

\* The second validation, now with the canonical action, and the consumption.
Consume(t) ==
  LET a == mem[t].step
      granted == Status(a) = "granted" /\ GrantHolds(a, mem[t].token)
  IN
  /\ At(t, "consume")
  /\ \/ /\ granted /\ BindingMatches(a)
        /\ approvals' = [approvals EXCEPT ![a].consumption = registry]
        /\ Goto(t, "unpend")
        /\ UNCHANGED << mem, lock >>
     \/ /\ granted /\ ~BindingMatches(a)
        /\ Enter(t, "failed")
        /\ UNCHANGED << approvals, lock >>
     \/ /\ ~granted
        /\ Return(t)
        /\ UNCHANGED approvals
  /\ UNCHANGED << run, log, lapsed, effects, receipts, snapshot, registry,
                  crashes >>

\* _set_pending_approval(None), then _execute_and_complete(approved=True).
SaveUnpended(t) ==
  /\ At(t, "unpend")
  /\ run' = [state |-> mem[t].state, pending |-> NoStep]
  /\ mem' = [mem EXCEPT ![t].pending = NoStep, ![t].approved = TRUE,
                        ![t].target = "executing"]
  /\ Goto(t, "save")
  /\ UNCHANGED << log, approvals, lapsed, effects, receipts, snapshot,
                  registry, lock, crashes >>

-----------------------------------------------------------------------------
(* deny_approval.                                                          *)

Deny(t, a) ==
  /\ pc[t] = "idle" /\ lock = Nobody
  /\ Accepts(a, { "pending" })
  /\ lock' = t
  /\ Accepted(t, a, NoToken, "deny")
  /\ UNCHANGED << log, approvals, lapsed, effects, receipts, snapshot,
                  registry, crashes >>

\* Mutant: the run goes on to execute after a denial.
RecordDenialThenRun(t) ==
  /\ At(t, "deny")
  /\ Status(mem[t].step) \notin { "consumed", "denied" }
  /\ approvals' = [approvals EXCEPT ![mem[t].step].decision = "denied"]
  /\ Enter(t, "executing")
  /\ UNCHANGED << run, log, lapsed, effects, receipts, snapshot, registry,
                  lock, crashes >>

\* Mutant: the denial is recorded and the run is not halted.
RecordDenialOnly(t) ==
  /\ At(t, "deny")
  /\ Status(mem[t].step) \notin { "consumed", "denied" }
  /\ approvals' = [approvals EXCEPT ![mem[t].step].decision = "denied"]
  /\ Return(t)
  /\ UNCHANGED << run, log, lapsed, effects, receipts, snapshot, registry,
                  crashes >>

RecordDenial(t) ==
  /\ At(t, "deny")
  /\ Status(mem[t].step) \notin { "consumed", "denied" }
  /\ approvals' = [approvals EXCEPT ![mem[t].step].decision = "denied"]
  /\ Enter(t, "halted")
  /\ UNCHANGED << run, log, lapsed, effects, receipts, snapshot, registry,
                  lock, crashes >>

-----------------------------------------------------------------------------
(* _execute_and_complete after its transition to executing.                *)

\* Executor.execute: a gated tool is not invoked without approval; a tool
\* that is invoked may fail.
InvokeTool(t) ==
  LET i == mem[t].step
      permitted == mem[t].approved \/ ~Gated(i)
  IN
  /\ At(t, "tool")
  /\ effects' = [effects EXCEPT ![i] = IF permitted THEN @ + 1 ELSE @]
  /\ \E ok \in BOOLEAN :
       mem' = [mem EXCEPT ![t].ok = ok /\ permitted]
  /\ Goto(t, "receipt")
  /\ UNCHANGED << run, log, approvals, lapsed, receipts, snapshot, registry,
                  lock, crashes >>

RecordReceipt(t) ==
  /\ At(t, "receipt")
  /\ receipts' = receipts \cup { mem[t].step }
  /\ Goto(t, "finish")
  /\ UNCHANGED << run, log, approvals, lapsed, effects, snapshot, registry,
                  lock, mem, crashes >>

LogFinished(t) ==
  /\ At(t, "finish")
  /\ log' = [log EXCEPT !.pending = NoStep]
  /\ Enter(t, "observing")
  /\ UNCHANGED << run, approvals, lapsed, effects, receipts, snapshot,
                  registry, lock, crashes >>

\* Mutant: a step that failed is executed again under the same approval.
CommitMemoryRetries(t) ==
  LET i == mem[t].step IN
  /\ At(t, "memory")
  /\ \/ ~mem[t].ok /\ Enter(t, "executing")
     \/ mem[t].ok /\ i = NumSteps /\ Enter(t, "reporting")
  /\ UNCHANGED << disk, lapsed, registry, lock, crashes >>

\* Mutant: the run reports after the first step that succeeds.
CommitMemoryReportsEarly(t) ==
  /\ At(t, "memory")
  /\ mem[t].ok /\ Enter(t, "reporting")
  /\ UNCHANGED << disk, lapsed, registry, lock, crashes >>

\* Mutant: the step after the last one is selected.
CommitMemoryOverruns(t) ==
  /\ At(t, "memory")
  /\ mem' = [mem EXCEPT ![t].step = mem[t].step + 1]
  /\ Goto(t, "select")
  /\ UNCHANGED << disk, lapsed, registry, lock, crashes >>

\* The episodic write, and what follows it: the run fails when the write or
\* the tool failed, or when the next step has no budget or cannot be built.
CommitMemory(t) ==
  LET i == mem[t].step IN
  /\ At(t, "memory")
  /\ \/ Enter(t, "failed")
     \/ mem[t].ok /\ i = NumSteps /\ Enter(t, "reporting")
     \/ /\ mem[t].ok /\ i < NumSteps /\ registry # "removed"
        /\ mem' = [mem EXCEPT ![t].step = i + 1]
        /\ Goto(t, "select")
  /\ UNCHANGED << disk, lapsed, registry, lock, crashes >>

-----------------------------------------------------------------------------
(* The environment.                                                        *)

\* A request expires 15 minutes after it is recorded, a grant when its caller
\* asked for that.
Lapse(kind, a) ==
  /\ <<kind, a>> \notin lapsed
  /\ \/ kind = "request" /\ approvals[a].request # Unbound
     \/ kind = "grant" /\ approvals[a].decision = "granted"
  /\ lapsed' = lapsed \cup { <<kind, a>> }
  /\ UNCHANGED << disk, registry, lock, pc, mem, crashes >>

\* The server dies between two writes and comes back, possibly as a build
\* with another tool registry.  No thread resumes what it was doing.
Crash ==
  /\ crashes < MaxCrashes
  /\ crashes' = crashes + 1
  /\ registry' \in Registries
  /\ lock' = Nobody
  /\ pc' = [t \in Threads |-> IF t = Creator THEN "done" ELSE "idle"]
  /\ mem' = [t \in Threads |-> Blank]
  /\ UNCHANGED << disk, lapsed >>

\* One write of a call already under way.
Proceed(t) ==
  \/ Select(t) \/ RecordRequest(t) \/ SavePending(t) \/ Announce(t)
  \/ SaveState(t) \/ LogState(t) \/ WriteSnapshot(t)
  \/ RecordDecision(t) \/ RecordGrant(t) \/ ContinueGrant(t)
  \/ Validate(t) \/ Consume(t) \/ SaveUnpended(t) \/ RecordDenial(t)
  \/ InvokeTool(t) \/ RecordReceipt(t) \/ LogFinished(t) \/ CommitMemory(t)

\* A new call.
Call(t, a) ==
  \/ \E token \in Tokens : Grant(t, a, token)
  \/ \E token \in CallerTokens : Resume(t, a, token)
  \/ ResumeDenied(t, a)
  \/ Deny(t, a)

Next ==
  \/ \E t \in Threads : Proceed(t)
  \/ \E t \in Operators, a \in Steps : Call(t, a)
  \/ \E kind \in { "request", "grant" }, a \in Steps : Lapse(kind, a)
  \/ Crash

Spec == Init /\ [][Next]_vars

\* Every call under way goes on: threads are scheduled and writes return.
FairSpec == Spec /\ \A t \in Threads : WF_vars(Proceed(t))

\* Moreover somebody keeps trying to deny what is pending.
DiligentSpec ==
  FairSpec /\ WF_vars(\E t \in Operators, a \in Steps : Deny(t, a))

-----------------------------------------------------------------------------
(* Properties.                                                             *)

RunRecords == [state : States, pending : Steps \cup { NoStep }]
LogRecords ==
  [state : States, pending : Steps \cup { NoStep },
   latest : Steps \cup { NoStep }, selected : Steps \cup { NoStep }]
ApprovalRecords ==
  [request : Registries \cup { Unbound },
   decision : { "none", "granted", "denied" },
   grant : Tokens \cup { NoToken },
   consumption : Registries \cup { Unbound }]
ThreadRecords ==
  [state : States, pending : Steps \cup { NoStep },
   step : Steps \cup { NoStep }, token : Tokens \cup { NoToken },
   approved : BOOLEAN, ok : BOOLEAN, target : States]

\* The values each variable takes: run.json, the folded event log, the
\* approval journal, and the memory of every thread.
TypeOK ==
  /\ run \in RunRecords
  /\ log \in LogRecords
  /\ approvals \in [Steps -> ApprovalRecords]
  /\ lapsed \subseteq { "request", "grant" } \X Steps
  /\ effects \in [Steps -> Nat]
  /\ receipts \subseteq Steps
  /\ snapshot \in RunRecords
  /\ registry \in Registries
  /\ lock \in Operators \cup { Nobody }
  /\ pc \in [Threads -> PCs]
  /\ mem \in [Threads -> ThreadRecords]
  /\ crashes \in 0 .. MaxCrashes

\* Whatever operators call, in whatever order, and wherever the server dies,
\* the tool of a step is invoked at most once: Executor.execute is reached
\* only through a consumption that no second resume gets past.
AtMostOnce == \A i \in Steps : effects[i] <= 1

Authorized(i) ==
  /\ approvals[i].decision = "granted"
  /\ approvals[i].grant # NoToken
  /\ approvals[i].consumption # Unbound

\* A tool that was invoked after a request, or that a thread is about to
\* invoke while the registry gates it, has a recorded decision "granted", a
\* grant with a token and a consumption: nothing runs on a request alone.
EffectsAuthorized ==
  /\ \A i \in Steps :
       effects[i] > 0 /\ approvals[i].request # Unbound => Authorized(i)
  /\ \A t \in Threads :
       pc[t] = "tool" /\ Gated(mem[t].step) => Authorized(mem[t].step)

\* An approval is spent only on the action and policy it was requested for,
\* even when the server came back with another registry in between.
SpentAsRequested ==
  \A a \in Steps :
    approvals[a].consumption \in { Unbound, approvals[a].request }

\* "Denied actions": once denied, an approval was never spent, its tool never
\* ran and the workflow never went past its step.
DenialBlocks ==
  \A a \in Steps :
    approvals[a].decision = "denied" =>
      /\ approvals[a].consumption = Unbound
      /\ \A i \in Steps : i >= a => effects[i] = 0 /\ i \notin receipts

\* A run that reports or completed has invoked every step once and holds its
\* receipt: no crash, denial or refusal lets a run complete early.
CompletedMeansDone ==
  run.state \in { "reporting", "completed" } =>
    \A i \in Steps : effects[i] = 1 /\ i \in receipts

\* assert_transition never raises in the middle of a call: each thread stands
\* before a transition the table allows.
NoIllegalTransition ==
  \A t \in Threads :
    pc[t] = "save" => CanTransition(mem[t].state, mem[t].target)

\* While no crash interfered, events.jsonl says the same state as run.json,
\* except that a thread has yet to log the transition it saved, or that the
\* Creator's entry into awaiting_approval was logged late.
ReplayLag ==
  \/ log.state = run.state
  \/ crashes > 0
  \/ \E t \in Threads : pc[t] = "log" /\ mem[t].state = run.state
  \/ log.state = "awaiting_approval"

\* run.json only ever moves along the transition table: no late writer and no
\* repair by _load_authoritative_pending_approval revives a finished run.
RunMovesLegally ==
  [][run'.state # run.state => CanTransition(run.state, run'.state)]_vars

RecordsStand(a) ==
  /\ approvals[a].decision # "none" =>
       approvals'[a].decision = approvals[a].decision
  /\ approvals[a].grant # NoToken =>
       approvals'[a].grant = approvals[a].grant
  /\ approvals[a].consumption # Unbound =>
       approvals'[a].consumption = approvals[a].consumption

\* Once a grant or a denial is recorded it is never replaced, nor is the
\* token of a grant or a consumption: concurrent operators cannot both win.
DecisionsStand == [][\A a \in Steps : RecordsStand(a)]_vars

\* The approval contract, with the journal read as phases.
Phase(a) ==
  LET r == approvals[a] IN
  IF r.consumption # Unbound THEN "spent"
  ELSE IF r.decision = "denied" THEN "denied"
  ELSE IF r.grant # NoToken THEN "granted"
  ELSE IF r.request # Unbound THEN "pending" ELSE "none"

Contract ==
  INSTANCE ApprovalContract WITH
    Approvals <- Steps,
    phase <- [a \in Steps |-> Phase(a)],
    expired <- { a \in Steps : <<"grant", a>> \in lapsed },
    runs <- [a \in Steps |->
               IF approvals[a].consumption # Unbound THEN effects[a] ELSE 0]

\* The journal, the lock and the crashes of this module together keep the
\* promises of ApprovalContract.
KeepsContract == Contract!Spec

\* An operator call that was let through ends and gives the run lock back.
CallsEnd == \A t \in Operators : lock = t ~> lock = Nobody

\* A grant that took effect leads to the invocation of the tool, unless it
\* expires first (server that does not crash).
GrantIsUsed ==
  \A a \in Steps :
    Status(a) = "granted" ~> (effects[a] = 1 \/ <<"grant", a>> \in lapsed)

\* "Denied actions result in the run being halted" (hca/docs/safety-policy.md).
DenialHalts ==
  \A a \in Steps :
    approvals[a].decision = "denied" ~> run.state = "halted"

\* Replay of the event log moves along the transition table too.
ReplayMovesLegally ==
  [][log'.state # log.state => CanTransition(log.state, log'.state)]_vars

-----------------------------------------------------------------------------
(* The inductive invariant behind the safety properties.  Those properties *)
(* speak of the files alone and are not inductive: what rules out a second *)
(* invocation is what each thread may assume at each of its writes, and    *)
(* that the run lock leaves at most one operator with such assumptions.    *)

\* Nobody asked for step i yet, and its tool was not invoked.
Untouched(i) ==
  approvals[i].request = Unbound /\ effects[i] = 0 /\ i \notin receipts

\* Step i does not wait for a decision: it was not gated, or it was paid.
Cleared(i) ==
  approvals[i].request = Unbound \/ approvals[i].consumption # Unbound

\* Its tool was invoked and left a receipt.
Passed(i) == Cleared(i) /\ effects[i] = 1 /\ i \in receipts

\* The workflow stands at step i.
Front(i) ==
  /\ \A j \in Steps : j < i => Passed(j)
  /\ \A j \in Steps : j > i => Untouched(j)

\* The records of one approval fit together.
Coherent(a) ==
  LET r == approvals[a] IN
  /\ r.decision # "none" => r.request # Unbound
  /\ r.grant # NoToken => r.decision = "granted"
  /\ r.consumption # Unbound =>
       r.consumption = r.request /\ r.decision = "granted" /\ r.grant # NoToken

\* A call is under way exactly where the lock says so.
LockInv ==
  /\ \A t \in Operators : pc[t] # "idle" <=> lock = t
  /\ \A t \in Operators : pc[t] # "done"

\* The Creator asks for step 1 in the build that started the run, and nobody
\* acts before it has asked.
CreatorInv ==
  /\ crashes = 0 => registry = "v1"
  /\ pc[Creator] # "done" => crashes = 0 /\ mem[Creator].step = 1
  /\ pc[Creator] \in { "done", "select", "request", "pend", "announce",
                       "save", "log", "snapshot" }
  /\ pc[Creator] \in { "save", "log" } =>
       mem[Creator].target = "awaiting_approval"
  /\ pc[Creator] \in { "select", "request" } =>
       lock = Nobody /\ \A i \in Steps : Untouched(i)

JournalInv ==
  /\ \A a \in Steps : Coherent(a)
  /\ \A a \in Steps :
       Passed(a) \/ \A j \in Steps : j > a => Untouched(j)
  /\ \A i \in Steps : effects[i] <= 1
  /\ \A i \in Steps :
       effects[i] > 0 /\ approvals[i].request # Unbound => Authorized(i)
  /\ \A i \in receipts : Passed(i)

\* t is about to take, or has saved, the transition to s.
Taking(t, s) == pc[t] \in { "save", "log" } /\ mem[t].target = s

\* The receipt is written and the step is on its way to its memory commit.
Recorded(t) ==
  \/ pc[t] \in { "finish", "memory" }
  \/ Taking(t, "observing") \/ Taking(t, "memory_commit")

WithStep == PCs \ { "idle", "done", "save", "log", "snapshot" }

\* What an operator relies on at each of its writes.
OperatorInv(t) ==
  LET i == mem[t].step
      r == approvals[i]
  IN
  /\ pc[t] \in WithStep => i \in Steps
  /\ pc[t] \in { "select", "request" } => Untouched(i) /\ Front(i)
  /\ pc[t] \in { "decide", "deny" } =>
       r.request # Unbound /\ r.decision = "none"
  /\ pc[t] = "grant" =>
       r.decision = "granted" /\ r.grant = NoToken /\ r.consumption = Unbound
  /\ pc[t] = "unpend" => Authorized(i) /\ effects[i] = 0 /\ Front(i)
  /\ pc[t] = "tool" \/ Taking(t, "executing") =>
       /\ i \in Steps
       /\ effects[i] = 0
       /\ Front(i)
       /\ mem[t].approved => Authorized(i)
       /\ ~mem[t].approved => r.request = Unbound /\ ~Gated(i)
  /\ pc[t] = "receipt" =>
       i \in Steps /\ Cleared(i) /\ effects[i] = 1 /\ Front(i)
  /\ Recorded(t) => i \in Steps /\ Passed(i) /\ Front(i)
  /\ Taking(t, "reporting") \/ Taking(t, "completed") =>
       \A j \in Steps : Passed(j)

\* A run reports only what every step did.
ReportInv ==
  run.state \in { "reporting", "completed" } => \A i \in Steps : Passed(i)

\* The state each thread holds in memory at each of its writes.
StateInv(t) ==
  LET s == mem[t].state IN
  /\ pc[t] \in { "select", "request", "pend", "announce" } =>
       s \in { "action_selection", "memory_commit" }
  /\ pc[t] \in { "decide", "grant", "resume", "validate", "consume",
                 "unpend", "deny" } => s = "awaiting_approval"
  /\ pc[t] \in { "tool", "receipt", "finish" } => s = "executing"
  /\ pc[t] = "memory" => s = "memory_commit"
  /\ pc[t] = "save" => CanTransition(s, mem[t].target)
  /\ pc[t] = "log" => s = mem[t].target

\* The records of the journal, the lock, and what every thread relies on fit
\* together at every write, crash and expiry.
IInv ==
  /\ TypeOK
  /\ LockInv
  /\ CreatorInv
  /\ JournalInv
  /\ ReportInv
  /\ \A t \in Operators : OperatorInv(t)
  /\ \A t \in Threads : StateInv(t)

-----------------------------------------------------------------------------
(* What run.json needs to move along the transition table.  RunMovesLegally *)
(* is not a consequence of IInv: the repair to awaiting_approval overwrites *)
(* whatever state it finds, and only the journal shows that it finds one    *)
(* that waits for this approval.                                            *)

\* The request of a has no decision yet.
Waiting(a) ==
  approvals[a].request # Unbound /\ approvals[a].decision = "none"

\* The states in which a request can stand undecided: before its run was
\* moved, whether from the first selection or a later one, and after.
RequestStates == { "action_selection", "memory_commit", "awaiting_approval" }

\* The transitions the handlers of a server make.
Headings ==
  { "awaiting_approval", "executing", "observing", "memory_commit",
    "reporting", "completed", "failed", "halted" }

\* The operator that holds the lock has the state of run.json in memory.
HolderCurrent == \A t \in Operators : lock = t => mem[t].state = run.state

\* Before the Creator has saved its transition nobody else can act on the run.
CreatorFirst ==
  pc[Creator] \in { "select", "request", "pend", "announce", "save" } =>
    /\ lock = Nobody
    /\ run.state = "action_selection" /\ log.state = "action_selection"
    /\ mem[Creator].state = "action_selection"

\* A run with an undecided request can be moved to awaiting_approval.
WaitingRun == \A a \in Steps : Waiting(a) => run.state \in RequestStates

\* A grant that is resumed is decided and unspent, and a run that is about to
\* fail or halt has no undecided request left.
OnPath(t) ==
  /\ pc[t] \in { "resume", "validate", "consume" } =>
       LET r == approvals[mem[t].step] IN
       r.decision = "granted" /\ r.consumption = Unbound
  /\ pc[t] \in { "save", "log" } =>
       /\ mem[t].target \in Headings
       /\ mem[t].target \in { "failed", "halted" } =>
            \A a \in Steps : ~Waiting(a)

\* Together, for a server that offers grant and deny alone.
ServerInv ==
  HolderCurrent /\ CreatorFirst /\ WaitingRun /\ \A t \in Operators : OnPath(t)

=============================================================================
