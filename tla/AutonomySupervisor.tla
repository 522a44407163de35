------------------------- MODULE AutonomySupervisor -------------------------
(***************************************************************************)
(* The autonomy supervisor of hca/autonomy: ticks that observe the active   *)
(* runs of an agent, poll its inbox and its schedule, and turn accepted     *)
(* triggers into runs.  tick() takes no lock.  The background loop and the  *)
(* route POST /hca/autonomy/tick may both be inside it; each ticker here is *)
(* one of them.  What ticks share are JSONL files read whole, last record   *)
(* wins: an action is one write, or one read whose value outlives it.       *)
(*                                                                          *)
(* One agent with one schedule.  A trigger gets a fresh id at every poll    *)
(* and a run belongs to one trigger, so the checkpoint of a trigger is      *)
(* filed here under its run.                                                *)
(***************************************************************************)
EXTENDS Integers, Sequences, FiniteSets

CONSTANTS
    Tickers,      \* threads that may be inside tick()
    Loop,         \* the one of them that never stops ticking
    NumItems,     \* inbox items ever enqueued
    Scheduled,    \* the agent has a schedule that is enabled at first
    Interval,     \* schedule.interval_seconds
    MaxRuns,      \* budget.max_runs_per_agent
    MaxParallel,  \* budget.max_parallel_runs
    Moves,        \* what happens to runs: their states, "spent"
    MaxTime,      \* bound on the clock
    MaxControls,  \* bound on uses of kill, pause and cancel
    MaxEdits,     \* bound on enable and disable calls
    MaxCrashes    \* bound on restarts of the process

ASSUME TickersAssumption == IsFiniteSet(Tickers) /\ Loop \in Tickers
ASSUME BudgetAssumption == MaxRuns \in Nat /\ MaxParallel \in Nat
ASSUME ScheduleAssumption == Interval \in Nat \ {0} /\ Scheduled \in BOOLEAN
ASSUME BoundAssumption == /\ NumItems \in Nat /\ MaxTime \in Nat
                          /\ MaxControls \in Nat /\ MaxEdits \in Nat
                          /\ MaxCrashes \in Nat
ASSUME MovesAssumption ==
    Moves \subseteq {"live", "awaiting", "completed", "failed", "spent"}

VARIABLES
    clock,     \* utc_now()
    agent,     \* status of the agent; "stopped" behaves as "paused"
    killed,    \* kill_switch.active
    controls,  \* how often kill, pause and cancel were used
    inbox,     \* status of each item
    schedule,  \* enabled, last_fired_at
    edits,     \* enable and disable calls so far
    edit,      \* the schedule such a call has read, changed, not yet saved
    ledger,    \* launched_runs_total, active_runs
    runs,      \* run.json of each run: its key, its state, is it over budget
    cps,       \* the latest checkpoint of each run
    dedupe,    \* dedupe keys on record
    pc,        \* the next step of each ticker
    mem,       \* what each ticker has read and not yet used up
    late,      \* runs each ticker created while killed, since Kill
    crashes    \* restarts so far

files == <<inbox, schedule, ledger, runs, cps, dedupe>>
operators == <<clock, agent, killed, controls, edits, edit>>
vars == <<clock, agent, killed, controls, inbox, schedule, edits, edit, ledger,
          runs, cps, dedupe, pc, mem, late, crashes>>

Items == 1..NumItems
Never == -1

(* dedupe keys: inbox:<item> and schedule:<id>:<bucket> *)
Keys == [kind : {"inbox"}, n : Items] \cup [kind : {"schedule"}, n : Nat]
ItemKey(i) == [kind |-> "inbox", n |-> i]
BucketKey(time) == [kind |-> "schedule", n |-> time \div Interval]

ItemStates == {"absent", "pending", "claimed", "completed", "cancelled"}
RunStatus == {"live", "awaiting", "completed", "failed"}
ActiveStatus == {"launched", "observing", "awaiting_approval",
                 "retry_scheduled"}
FinalStatus == {"completed", "stopped"}
Schedules == [enabled : BOOLEAN, fired : Nat \cup {Never}]
Checkpoints == [status : ActiveStatus \cup FinalStatus \cup {"none"},
                queued : SUBSET Keys]

Unwritten == [status |-> "none", queued |-> {}]
NoEdit == [enabled |-> FALSE, fired |-> Never, open |-> FALSE]
Blank == [todo |-> {}, run |-> 0, seen |-> "live", cp |-> Unwritten,
          next |-> "none", now |-> 0, triggers |-> <<>>,
          held |-> [enabled |-> FALSE, fired |-> Never]]

Init ==
    /\ clock = 0 /\ agent = "active" /\ killed = FALSE /\ controls = 0
    /\ inbox = [i \in Items |-> "absent"]
    /\ schedule = [enabled |-> Scheduled, fired |-> Never]
    /\ edits = 0 /\ edit = NoEdit
    /\ ledger = [launched |-> 0, active |-> 0]
    /\ runs = <<>> /\ cps = <<>> /\ dedupe = {}
    /\ pc = [t \in Tickers |-> "idle"]
    /\ mem = [t \in Tickers |-> Blank]
    /\ late = [t \in Tickers |-> 0] /\ crashes = 0

-----------------------------------------------------------------------------
(* Mutant: completed runs listed as active. *)
ActiveRunsAll == {r \in DOMAIN cps : cps[r].status # "none"}

(* list_active_autonomy_runs *)
ActiveRuns == {r \in DOMAIN cps : cps[r].status \in ActiveStatus}

At(t, step) == pc[t] = step
Goto(t, step) == pc' = [pc EXCEPT ![t] = step]

(* A new tick.  The runs to observe are listed once, at its beginning. *)
Tick(t) ==
    /\ At(t, "idle")
    /\ Goto(t, "observe")
    /\ mem' = [mem EXCEPT ![t] = [Blank EXCEPT !.todo = ActiveRuns]]
    /\ UNCHANGED <<files, operators, late, crashes>>

(* observe_run: the context and the checkpoint are loaded ... *)
Load(t) ==
    /\ At(t, "observe")
    /\ \E r \in mem[t].todo :
         mem' = [mem EXCEPT ![t].todo = @ \ {r}, ![t].run = r,
                            ![t].seen = runs[r].state, ![t].cp = cps[r]]
    /\ Goto(t, "evaluate")
    /\ UNCHANGED <<files, operators, late, crashes>>

(* Mutant: the states of the run before the hard gates. *)
VerdictsSoft(r, seen) ==
    IF seen = "live" /\ (killed \/ runs[r].spent) THEN {"stopped"}
    ELSE CASE seen = "completed" -> {"completed"}
           [] seen = "failed"    -> {"retry_scheduled"}
           [] seen = "awaiting"  -> {"awaiting_approval"}
           [] seen = "live"      -> {"observing", "awaiting_approval"}

(* evaluate: kill switch, budget and deadman before the state of the run. *)
Verdicts(r, seen) ==
    IF killed \/ runs[r].spent THEN {"stopped"}
    ELSE CASE seen = "completed" -> {"completed"}
           [] seen = "failed"    -> {"retry_scheduled"}
           [] seen = "awaiting"  -> {"awaiting_approval"}
           [] seen = "live"      -> {"observing", "awaiting_approval"}

(* Mutant: only completed runs are settled. *)
EvaluateForgetful(t) ==
    /\ At(t, "evaluate")
    /\ \E status \in Verdicts(mem[t].run, mem[t].seen) :
         /\ mem' = [mem EXCEPT ![t].next = status]
         /\ Goto(t, IF status = "completed" THEN "settle" ELSE "save")
    /\ UNCHANGED <<files, operators, late, crashes>>

(* ... then the switch and the clock are read and a status decided. *)
Evaluate(t) ==
    /\ At(t, "evaluate")
    /\ \E status \in Verdicts(mem[t].run, mem[t].seen) :
         /\ mem' = [mem EXCEPT ![t].next = status]
         /\ Goto(t, IF /\ status \in FinalStatus
                       /\ mem[t].cp.status \notin FinalStatus
                    THEN "settle" ELSE "save")
    /\ UNCHANGED <<files, operators, late, crashes>>

(* Mutant: the ledger is not floored. *)
SettleUnfloored(t) ==
    /\ At(t, "settle")
    /\ ledger' = [ledger EXCEPT !.active = @ - 1]
    /\ Goto(t, "save")
    /\ UNCHANGED <<inbox, schedule, runs, cps, dedupe, operators, mem, late,
                   crashes>>

(* The ledger is told of the end of a run.  It never goes below zero. *)
Settle(t) ==
    /\ At(t, "settle")
    /\ ledger' = [ledger EXCEPT !.active = IF @ > 0 THEN @ - 1 ELSE 0]
    /\ Goto(t, "save")
    /\ UNCHANGED <<inbox, schedule, runs, cps, dedupe, operators, mem, late,
                   crashes>>

(* The interrupts a checkpoint keeps: none after completion; switch_branch *)
(* takes one off.                                                           *)
Kept(status, queued) ==
    IF status = "completed" THEN {{}}
    ELSE {queued} \cup
         IF status = "observing" THEN {queued \ {k} : k \in queued} ELSE {}

SaveCheckpoint(t) ==
    /\ At(t, "save")
    /\ \E kept \in Kept(mem[t].next, mem[t].cp.queued) :
         cps' = [cps EXCEPT ![mem[t].run] =
                   [status |-> mem[t].next, queued |-> kept]]
    /\ Goto(t, "persist")
    /\ UNCHANGED <<inbox, schedule, ledger, runs, dedupe, operators, mem,
                   late, crashes>>

(* _persist_style_context saves the context, with the state it was loaded  *)
(* with, over whatever the run has become since.                            *)
Persist(t) ==
    /\ pc[t] \in {"persist", "queue_persist", "launch_persist"}
    /\ runs' = [runs EXCEPT ![mem[t].run].state = mem[t].seen]
    /\ CASE At(t, "persist") ->
              /\ Goto(t, "observe")
              /\ mem' = [mem EXCEPT ![t] = [Blank EXCEPT !.todo = mem[t].todo]]
         [] At(t, "queue_persist") ->
              Goto(t, "queue_complete") /\ UNCHANGED mem
         [] At(t, "launch_persist") ->
              Goto(t, "dedupe") /\ UNCHANGED mem
    /\ UNCHANGED <<inbox, schedule, ledger, cps, dedupe, operators, late,
                   crashes>>

-----------------------------------------------------------------------------
(* Go on to the first of these triggers, or end the tick. *)
Handle(t, triggers) ==
    /\ mem' = [mem EXCEPT ![t] = [Blank EXCEPT !.triggers = triggers]]
    /\ Goto(t, IF triggers = <<>> THEN "idle" ELSE "route")

(* poll_triggers: the reference time and the agents are read once. *)
Poll(t) ==
    /\ At(t, "observe") /\ mem[t].todo = {}
    /\ IF agent # "active" THEN Handle(t, <<>>)
       ELSE /\ mem' = [mem EXCEPT ![t] = [Blank EXCEPT !.now = clock]]
            /\ Goto(t, "claim")
    /\ UNCHANGED <<files, operators, late, crashes>>

(* Mutant: a claimed item can be claimed again. *)
PendingOrClaimed == {i \in Items : inbox[i] \in {"pending", "claimed"}}

Pending == {i \in Items : inbox[i] = "pending"}

(* claim_inbox_item, under the lock of the file: the oldest pending item. *)
Claim(t) ==
    /\ At(t, "claim")
    /\ Goto(t, "due")
    /\ \/ Pending = {} /\ UNCHANGED <<inbox, mem>>
       \/ \E i \in Pending :
            /\ \A j \in Pending : i <= j
            /\ inbox' = [inbox EXCEPT ![i] = "claimed"]
            /\ mem' = [mem EXCEPT ![t].triggers = <<ItemKey(i)>>]
    /\ UNCHANGED <<schedule, ledger, runs, cps, dedupe, operators, late,
                   crashes>>

(* list_due_schedules *)
IsDue(s, now) == /\ s.enabled
                 /\ \/ s.fired = Never
                    \/ now - s.fired >= Interval

Due(t) ==
    /\ At(t, "due")
    /\ IF IsDue(schedule, mem[t].now)
       THEN /\ Goto(t, "fire")
            /\ mem' = [mem EXCEPT ![t].triggers =
                         Append(@, BucketKey(mem[t].now))]
       ELSE Handle(t, mem[t].triggers)
    /\ UNCHANGED <<files, operators, late, crashes>>

(* mark_schedule_fired reads the schedule again ... *)
Fire(t) ==
    /\ At(t, "fire")
    /\ mem' = [mem EXCEPT ![t].held = [schedule EXCEPT !.fired = mem[t].now]]
    /\ Goto(t, "fired")
    /\ UNCHANGED <<files, operators, late, crashes>>

(* ... and saves it with the time it was fired. *)
Fired(t) ==
    /\ At(t, "fired")
    /\ schedule' = mem[t].held
    /\ Handle(t, mem[t].triggers)
    /\ UNCHANGED <<inbox, ledger, runs, cps, dedupe, operators, late, crashes>>

-----------------------------------------------------------------------------
(* The triggers of this poll are handled in turn. *)
Trigger(t) == Head(mem[t].triggers)
NextTrigger(t) == Handle(t, Tail(mem[t].triggers))

(* AttentionController.decide.  "queue" is queue_interrupt and            *)
(* switch_to_queued_interrupt, "stay" every other answer but               *)
(* reject_branch: stay_on_primary, reanchor_now, enter_hyperfocus, ...      *)
Decisions(r) == IF killed \/ runs[r].state = "awaiting" THEN {"stay"}
                ELSE {"reject", "queue", "stay"}

(* tick and _queue_interrupt_for_active_run: a trigger that finds a run of *)
(* its agent under way is an interrupt of that run, or rejected.            *)
Route(t) ==
    /\ At(t, "route")
    /\ \/ ActiveRuns = {} /\ Goto(t, "accept") /\ UNCHANGED mem
       \/ \E r \in ActiveRuns : \E decision \in Decisions(r) :
            IF decision = "reject" THEN NextTrigger(t)
            ELSE /\ mem' = [mem EXCEPT ![t].run = r, ![t].cp = cps[r],
                                       ![t].seen = runs[r].state,
                                       ![t].next = decision]
                 /\ Goto(t, "queue")
    /\ UNCHANGED <<files, operators, late, crashes>>

(* The checkpoint is saved with the interrupt, or, if the run switches to  *)
(* it at once, with the interrupt as its subgoal.                           *)
QueueSave(t) ==
    /\ At(t, "queue")
    /\ \E kept \in {mem[t].cp.queued \cup {Trigger(t)}} \cup
                   IF mem[t].next = "queue" THEN {mem[t].cp.queued} ELSE {} :
         cps' = [cps EXCEPT ![mem[t].run] =
                   [mem[t].cp EXCEPT !.queued = kept]]
    /\ Goto(t, "queue_persist")
    /\ UNCHANGED <<inbox, schedule, ledger, runs, dedupe, operators, mem,
                   late, crashes>>

(* complete_inbox_item, whatever the status of the item. *)
Completed(t) ==
    inbox' = [i \in Items |-> IF Trigger(t) = ItemKey(i) THEN "completed"
                              ELSE inbox[i]]

(* tick goes on to accept_trigger unless the decision was to queue. *)
QueueComplete(t) ==
    /\ At(t, "queue_complete")
    /\ Completed(t)
    /\ IF mem[t].next = "queue" THEN NextTrigger(t)
       ELSE /\ mem' = [mem EXCEPT ![t] = [Blank EXCEPT !.triggers =
                                              mem[t].triggers]]
            /\ Goto(t, "accept")
    /\ UNCHANGED <<schedule, ledger, runs, cps, dedupe, operators, late,
                   crashes>>

-----------------------------------------------------------------------------
(* Mutants: a gate is missing. *)
WelcomeKilled(t) == Trigger(t) \notin dedupe /\ agent = "active"
WelcomeTwice(t) == ~killed /\ agent = "active"

(* accept_trigger: the switch, the dedupe record and the agent ... *)
Welcome(t) == ~killed /\ Trigger(t) \notin dedupe /\ agent = "active"

Accept(t) ==
    /\ At(t, "accept")
    /\ IF Welcome(t) THEN Goto(t, "budget") /\ UNCHANGED mem
       ELSE NextTrigger(t)
    /\ UNCHANGED <<files, operators, late, crashes>>

(* Mutants: off by one; the runs under way do not count. *)
AffordableOffByOne == ledger.launched <= MaxRuns /\ ledger.active < MaxParallel
AffordableTotal == ledger.launched < MaxRuns

(* ... then the ledger: check_budget. *)
Affordable == ledger.launched < MaxRuns /\ ledger.active < MaxParallel

Budget(t) ==
    /\ At(t, "budget")
    /\ IF Affordable THEN Goto(t, "create") /\ UNCHANGED mem
       ELSE NextTrigger(t)
    /\ UNCHANGED <<files, operators, late, crashes>>

(* launch_run: create_autonomous_run saves the run ... *)
Create(t) ==
    /\ At(t, "create")
    /\ runs' = Append(runs, [key |-> Trigger(t), state |-> "live",
                             spent |-> FALSE])
    /\ cps' = Append(cps, Unwritten)
    /\ mem' = [mem EXCEPT ![t].run = Len(runs) + 1, ![t].seen = "live"]
    /\ late' = [late EXCEPT ![t] = IF killed THEN @ + 1 ELSE @]
    /\ Goto(t, "ledger")
    /\ UNCHANGED <<inbox, schedule, ledger, dedupe, operators, crashes>>

(* ... the ledger counts it ... *)
Account(t) ==
    /\ At(t, "ledger")
    /\ ledger' = [launched |-> ledger.launched + 1,
                  active |-> ledger.active + 1]
    /\ Goto(t, "checkpoint")
    /\ UNCHANGED <<inbox, schedule, runs, cps, dedupe, operators, mem, late,
                   crashes>>

(* ... its first checkpoint is saved, then the context (Persist) ... *)
Checkpoint(t) ==
    /\ At(t, "checkpoint")
    /\ cps' = [cps EXCEPT ![mem[t].run] =
                  [status |-> "launched", queued |-> {}]]
    /\ Goto(t, "launch_persist")
    /\ UNCHANGED <<inbox, schedule, ledger, runs, dedupe, operators, mem,
                   late, crashes>>

(* ... the dedupe key ... *)
Dedupe(t) ==
    /\ At(t, "dedupe")
    /\ dedupe' = dedupe \cup {Trigger(t)}
    /\ Goto(t, "complete")
    /\ UNCHANGED <<inbox, schedule, ledger, runs, cps, operators, mem, late,
                   crashes>>

(* ... and the item is completed. *)
Complete(t) ==
    /\ At(t, "complete")
    /\ Completed(t)
    /\ NextTrigger(t)
    /\ UNCHANGED <<schedule, ledger, runs, cps, dedupe, operators, late,
                   crashes>>

Step(t) ==
    \/ Load(t) \/ Evaluate(t) \/ Settle(t) \/ SaveCheckpoint(t) \/ Persist(t)
    \/ Poll(t) \/ Claim(t) \/ Due(t) \/ Fire(t) \/ Fired(t)
    \/ Route(t) \/ QueueSave(t) \/ QueueComplete(t) \/ Accept(t) \/ Budget(t)
    \/ Create(t) \/ Account(t) \/ Checkpoint(t) \/ Dedupe(t) \/ Complete(t)

-----------------------------------------------------------------------------
(* The routes, the drivers of the runs, and time. *)
outside == <<pc, mem, late, crashes>>

Enqueue ==
    /\ \E i \in Items :
         /\ inbox[i] = "absent" /\ \A j \in 1..(i - 1) : inbox[j] # "absent"
         /\ inbox' = [inbox EXCEPT ![i] = "pending"]
    /\ UNCHANGED <<schedule, ledger, runs, cps, dedupe, operators, outside>>

(* cancel_inbox_item *)
Cancel ==
    /\ controls < MaxControls /\ controls' = controls + 1
    /\ \E i \in Items : /\ inbox[i] \in {"pending", "claimed"}
                        /\ inbox' = [inbox EXCEPT ![i] = "cancelled"]
    /\ UNCHANGED <<schedule, ledger, runs, cps, dedupe, clock, agent, killed,
                   edits, edit, outside>>

(* set_agent_status *)
Pause ==
    /\ agent = "active" /\ controls < MaxControls
    /\ agent' = "paused" /\ controls' = controls + 1
    /\ UNCHANGED <<files, clock, killed, edits, edit, outside>>

Unpause ==
    /\ agent = "paused" /\ agent' = "active"
    /\ UNCHANGED <<files, clock, killed, controls, edits, edit, outside>>

Kill ==
    /\ ~killed /\ controls < MaxControls
    /\ killed' = TRUE /\ controls' = controls + 1
    /\ late' = [t \in Tickers |-> 0]
    /\ UNCHANGED <<files, clock, agent, edits, edit, pc, mem, crashes>>

Unkill ==
    /\ killed /\ killed' = FALSE
    /\ UNCHANGED <<files, clock, agent, controls, edits, edit, outside>>

(* disable_autonomy_schedule, enable_autonomy_schedule: read ... *)
OpenEdit ==
    /\ ~edit.open /\ edits < MaxEdits
    /\ \E enabled \in BOOLEAN :
         edit' = [enabled |-> enabled, fired |-> schedule.fired, open |-> TRUE]
    /\ edits' = edits + 1
    /\ UNCHANGED <<files, clock, agent, killed, controls, outside>>

(* ... and save. *)
SaveEdit ==
    /\ edit.open
    /\ schedule' = [enabled |-> edit.enabled, fired |-> edit.fired]
    /\ edit' = NoEdit
    /\ UNCHANGED <<inbox, ledger, runs, cps, dedupe, clock, agent, killed,
                   controls, edits, outside>>

(* What drives a launched run is not the supervisor. *)
Drive ==
    /\ \E r \in DOMAIN runs :
         /\ runs[r].state \in {"live", "awaiting"}
         /\ \E state \in (Moves \ {"spent"}) \ {runs[r].state} :
              runs' = [runs EXCEPT ![r].state = state]
    /\ UNCHANGED <<inbox, schedule, ledger, cps, dedupe, operators, outside>>

(* A run outlives its deadman timeout or takes one step too many. *)
Exhaust ==
    /\ "spent" \in Moves
    /\ \E r \in DOMAIN runs : /\ ~runs[r].spent
                              /\ runs' = [runs EXCEPT ![r].spent = TRUE]
    /\ UNCHANGED <<inbox, schedule, ledger, cps, dedupe, operators, outside>>

Pass ==
    /\ clock < MaxTime /\ clock' = clock + 1
    /\ UNCHANGED <<files, agent, killed, controls, edits, edit, outside>>

(* The process dies and is started again: what was in memory is gone. *)
Crash ==
    /\ crashes < MaxCrashes /\ crashes' = crashes + 1
    /\ pc' = [t \in Tickers |-> "idle"]
    /\ mem' = [t \in Tickers |-> Blank]
    /\ edit' = NoEdit
    /\ UNCHANGED <<files, clock, agent, killed, controls, edits, late>>

Environment == \/ Enqueue \/ Cancel \/ Pause \/ Unpause \/ Kill \/ Unkill
               \/ OpenEdit \/ SaveEdit \/ Drive \/ Exhaust \/ Pass \/ Crash

Next == \/ \E t \in Tickers : Tick(t) \/ Step(t)
        \/ Environment

Spec == Init /\ [][Next]_vars

(* The loop ticks for ever, and a tick under way goes on. *)
FairSpec == /\ Spec
            /\ WF_vars(Tick(Loop))
            /\ \A t \in Tickers : WF_vars(Step(t))

-----------------------------------------------------------------------------
Steps == {"idle", "observe", "evaluate", "settle", "save", "persist", "claim",
          "due", "fire", "fired", "route", "queue", "queue_persist",
          "queue_complete", "accept", "budget", "create", "ledger",
          "checkpoint", "launch_persist", "dedupe", "complete"}

(* Every file holds what its reader expects, and a tick holds at most one *)
(* inbox trigger and one schedule trigger.                                  *)
TypeOK ==
    /\ clock \in 0..MaxTime /\ agent \in {"active", "paused"}
    /\ killed \in BOOLEAN /\ controls \in 0..MaxControls
    /\ inbox \in [Items -> ItemStates]
    /\ schedule \in Schedules
    /\ edits \in 0..MaxEdits
    /\ edit \in [enabled : BOOLEAN, fired : Nat \cup {Never}, open : BOOLEAN]
    /\ ledger \in [launched : Nat, active : Nat]
    /\ runs \in Seq([key : Keys, state : RunStatus, spent : BOOLEAN])
    /\ cps \in Seq(Checkpoints) /\ Len(cps) = Len(runs)
    /\ dedupe \subseteq Keys
    /\ pc \in [Tickers -> Steps]
    /\ \A t \in Tickers :
         /\ mem[t].todo \subseteq DOMAIN runs
         /\ mem[t].run \in 0..Len(runs)
         /\ mem[t].seen \in RunStatus /\ mem[t].cp \in Checkpoints
         /\ mem[t].next \in ActiveStatus \cup FinalStatus
                             \cup {"none", "queue", "stay"}
         /\ mem[t].now \in Nat /\ mem[t].held \in Schedules
         /\ mem[t].triggers \in Seq(Keys) /\ Len(mem[t].triggers) <= 2
    /\ late \in [Tickers -> Nat] /\ crashes \in 0..MaxCrashes

RunsOf(key) == {r \in DOMAIN runs : runs[r].key = key}
QueuedAt(key) == {r \in DOMAIN cps : key \in cps[r].queued}
HeldBy(key) == {t \in Tickers : \E k \in DOMAIN mem[t].triggers :
                                    mem[t].triggers[k] = key}

(* An inbox item starts at most one run, and none while it can still be    *)
(* claimed, though ticks overlap and items are cancelled while in hand      *)
(* (claim_inbox_item, cancel_inbox_item, complete_inbox_item).              *)
ItemSpent ==
    \A i \in Items :
      /\ Cardinality(RunsOf(ItemKey(i))) <= 1
      /\ Cardinality(HeldBy(ItemKey(i))) <= 1
      /\ inbox[i] \in {"absent", "pending"} =>
           RunsOf(ItemKey(i)) = {} /\ HeldBy(ItemKey(i)) = {}

(* The total budget of an agent is exceeded by no more than the other       *)
(* tickers and the launches a crash kept from the ledger (accept_trigger    *)
(* reads the ledger that launch_run writes).                                *)
LaunchBudget ==
    Len(runs) <= MaxRuns + (Cardinality(Tickers) - 1)
                 + crashes * Cardinality(Tickers)

(* Once the kill switch is on, each ticker can still make the launch it has *)
(* accepted, and no other: not of its next trigger, nor of a next tick      *)
(* (accept_trigger, launch_run).                                            *)
KillLag == \A t \in Tickers : late[t] <= 1

(* With one ticker, a dedupe key starts one run, and one more only for a    *)
(* crash between the run and its dedupe record, whatever an edit of the      *)
(* schedule that races mark_schedule_fired writes back.                      *)
KeyOnce == \A key \in {runs[r].key : r \in DOMAIN runs} :
             Cardinality(RunsOf(key)) <= 1 + crashes

(* With one ticker, no more runs are under way than max_parallel_runs, plus *)
(* one for every crash that hit between a ledger and a checkpoint.           *)
ParallelBound == Cardinality(ActiveRuns) <= MaxParallel + crashes

(* With one ticker and no crash, the ledger counts between ticks the runs   *)
(* whose checkpoints are active; a crash moves it by one at most.            *)
LedgerTracks ==
    (\A t \in Tickers : pc[t] = "idle") =>
      /\ ledger.active - Cardinality(ActiveRuns) <= crashes
      /\ Cardinality(ActiveRuns) - ledger.active <= crashes

(* With one ticker, no crash and no parallel runs, an inbox item that became *)
(* an interrupt of the active run starts no run of its own, though          *)
(* stay_on_primary queues it and still asks accept_trigger.                  *)
QueuedOrLaunched ==
    crashes = 0 /\ MaxParallel = 1 =>
      \A i \in Items : RunsOf(ItemKey(i)) = {} \/ QueuedAt(ItemKey(i)) = {}

(* A trigger is acted on once.  However ticks overlap, an item starts one   *)
(* run at most and a killed agent one more per tick; with one ticker the     *)
(* budgets hold and the dedupe records, the ledger and the checkpoints agree *)
(* but for one launch per restart (accept_trigger, launch_run, observe_run). *)
TriggersOnce ==
    /\ TypeOK /\ ItemSpent /\ KillLag
    /\ Tickers = {Loop} => /\ LaunchBudget /\ KeyOnce /\ ParallelBound
                          /\ LedgerTracks /\ QueuedOrLaunched

(* With one ticker, a run recorded as completed or stopped is not taken up  *)
(* again: nothing writes a checkpoint over a final one (observe_run,         *)
(* _queue_interrupt_for_active_run).                                         *)
FinalStays ==
    [][\A r \in DOMAIN cps : cps[r].status \in FinalStatus =>
                               cps'[r] = cps[r]]_vars

(* A run whose budget is used up is recorded as stopped, or as completed if *)
(* it was, however ticks overlap (evaluate, observe_run).                    *)
Tracked(r) == r \in DOMAIN cps /\ cps[r].status # "none"
SpentStops ==
    \A r \in 1..(MaxRuns + 1) :
      (Tracked(r) /\ runs[r].spent)
        ~> (Tracked(r) /\ cps[r].status \in FinalStatus)

(* What AUDIT_SCOPE.md asks of a restart: a run that was launched is taken  *)
(* up by a later tick.                                                      *)
LaunchesTracked ==
    \A r \in 1..MaxRuns : (r \in DOMAIN runs) ~> Tracked(r)

(* A kill switch that stays on ends all autonomy: from some time on no run  *)
(* is under way, not even one launched late or written back by an           *)
(* overlapping tick.                                                         *)
KillStops == <>[]killed => <>[](ActiveRuns = {})

=============================================================================
