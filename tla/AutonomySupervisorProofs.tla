---------------------- MODULE AutonomySupervisorProofs ----------------------
(***************************************************************************)
(* What the supervisor keeps however many ticks overlap: an inbox item      *)
(* starts one run, and a killed agent starts one more run per tick at most. *)
(* What it keeps with one ticker only, over any number of restarts: a       *)
(* finished run is left alone, a trigger starts one run, an interrupt none, *)
(* and the ledger tracks the checkpoints.                                   *)
(***************************************************************************)
EXTENDS AutonomySupervisor, FiniteSetTheorems, TLAPS

Verdict == ActiveStatus \cup FinalStatus
Minds == [todo : SUBSET Nat, run : Nat, seen : RunStatus, cp : Checkpoints,
          next : Verdict \cup {"none", "queue", "stay"}, now : Nat,
          triggers : Seq(Keys), held : Schedules]

\* Where a ticker has a run in hand, where it has a trigger in hand, and where
\* the trigger in hand has its run.
WithRun == {"evaluate", "settle", "save", "persist", "queue", "queue_persist",
            "ledger", "checkpoint", "launch_persist"}
WithTrigger == {"route", "queue", "queue_persist", "queue_complete", "accept", "budget",
                "create", "ledger", "checkpoint", "launch_persist", "dedupe", "complete"}
Launched == {"ledger", "checkpoint", "launch_persist", "dedupe", "complete"}

\* What a ticker may have in mind at a step, with n runs.
Fits(m, step, n) ==
  /\ m \in Minds /\ step \in Steps
  /\ m.todo \subseteq 1..n /\ m.run \in 0..n /\ Len(m.triggers) <= 2
  /\ step \in WithRun => m.run \in 1..n
  /\ step \in WithTrigger => m.triggers # <<>>
  /\ step = "claim" => m.triggers = <<>>
  /\ step = "due" => Len(m.triggers) <= 1
  /\ step \in {"settle", "save"} => m.next \in Verdict

MindsOK ==
  /\ mem \in [Tickers -> Minds] /\ pc \in [Tickers -> Steps]
  /\ \A t \in Tickers : Fits(mem[t], pc[t], Len(runs))

Runs == [key : Keys, state : RunStatus, spent : BOOLEAN]

FilesOK ==
  /\ inbox \in [Items -> ItemStates] /\ schedule \in Schedules
  /\ ledger \in [launched : Nat, active : Nat]
  /\ runs \in Seq(Runs) /\ cps \in Seq(Checkpoints) /\ Len(cps) = Len(runs)
  /\ dedupe \subseteq Keys

OutsideOK ==
  /\ clock \in 0..MaxTime /\ agent \in {"active", "paused"}
  /\ killed \in BOOLEAN /\ controls \in 0..MaxControls /\ edits \in 0..MaxEdits
  /\ edit \in [enabled : BOOLEAN, fired : Nat \cup {Never}, open : BOOLEAN]
  /\ late \in [Tickers -> Nat] /\ crashes \in 0..MaxCrashes

Shape == MindsOK /\ FilesOK /\ OutsideOK

\* A ticker that was past accept_trigger when the switch was thrown has not
\* launched since.
KillInv ==
  \A t \in Tickers : /\ late[t] <= 1
                     /\ killed /\ pc[t] \in {"budget", "create"} => late[t] = 0

Holds(t, key) == \E j \in DOMAIN mem[t].triggers : mem[t].triggers[j] = key

\* An item that is held or has a run was claimed, by one ticker.
ItemInv ==
  /\ \A t \in Tickers : \A j \in DOMAIN mem[t].triggers : mem[t].triggers[j].kind = "inbox" => j = 1
  /\ \A i \in Items : inbox[i] \in {"absent", "pending"} =>
       /\ \A r \in DOMAIN runs : runs[r].key # ItemKey(i)
       /\ \A t \in Tickers : ~Holds(t, ItemKey(i))
  /\ \A i \in Items, t, u \in Tickers : Holds(t, ItemKey(i)) /\ Holds(u, ItemKey(i)) => t = u
  /\ \A i \in Items, q, r \in DOMAIN runs :
       runs[q].key = ItemKey(i) /\ runs[r].key = ItemKey(i) => q = r
  /\ \A i \in Items, t \in Tickers, r \in DOMAIN runs :
       Holds(t, ItemKey(i)) /\ runs[r].key = ItemKey(i) => pc[t] \in Launched

-----------------------------------------------------------------------------
\* With one ticker.

\* What it observes or interrupts is under way, what it launches is not yet.
FinalInv ==
  /\ mem[Loop].todo \subseteq ActiveRuns
  /\ pc[Loop] \in {"evaluate", "settle", "save"} =>
       /\ mem[Loop].run \in ActiveRuns \ mem[Loop].todo
       /\ mem[Loop].cp = cps[mem[Loop].run]
  /\ pc[Loop] = "queue" => /\ mem[Loop].run \in ActiveRuns
                           /\ mem[Loop].cp = cps[mem[Loop].run]
  /\ pc[Loop] \in {"ledger", "checkpoint"} => cps[mem[Loop].run].status = "none"

Settled == pc[Loop] = "save" /\ mem[Loop].next \in FinalStatus
Booked == pc[Loop] = "checkpoint"
Ahead == IF Booked THEN 1 ELSE IF Settled THEN -1 ELSE 0

\* The ledger is ahead of the checkpoints by a launch and behind by an end, and
\* every restart may leave it so.
LedgerInv ==
  /\ pc[Loop] = "settle" => mem[Loop].next \in FinalStatus
  /\ ledger.active - Cardinality(ActiveRuns) <= crashes + Ahead
  /\ Cardinality(ActiveRuns) - ledger.active <= crashes - Ahead
  /\ Cardinality(ActiveRuns) <= MaxParallel + crashes
  /\ ledger.active <= MaxParallel /\ ledger.launched <= MaxRuns
  /\ pc[Loop] \in {"create", "ledger"} => ledger.active < MaxParallel /\ ledger.launched < MaxRuns
  /\ Len(runs) <= ledger.launched + crashes + IF pc[Loop] = "ledger" THEN 1 ELSE 0

Unrecorded == {"ledger", "checkpoint", "launch_persist", "dedupe"}
InHand(key) == pc[Loop] \in Unrecorded /\ Head(mem[Loop].triggers) = key

\* A key with a run is on record, or its record is about to be written, or was
\* lost to a restart.
KeyInv ==
  /\ pc[Loop] \in Unrecorded \cup {"budget", "create"} => Head(mem[Loop].triggers) \notin dedupe
  /\ \A key \in Keys :
       Cardinality(RunsOf(key)) <= crashes + IF key \in dedupe \/ InHand(key) THEN 1 ELSE 0

\* An interrupt that is on record and still in hand goes no further than the
\* budget, which the run it interrupts has used up.
Interrupted == {"queue_persist", "queue_complete", "accept", "budget"}
InterruptInv ==
  crashes = 0 /\ MaxParallel = 1 =>
    \A i \in Items, r \in DOMAIN cps : ItemKey(i) \in cps[r].queued =>
      /\ inbox[i] \notin {"absent", "pending"}
      /\ \A q \in DOMAIN runs : runs[q].key # ItemKey(i)
      /\ Holds(Loop, ItemKey(i)) => pc[Loop] \in Interrupted /\ ActiveRuns # {}

AloneInv == FinalInv /\ LedgerInv /\ KeyInv /\ InterruptInv

-----------------------------------------------------------------------------
LEMMA ShapeTypes == Shape => TypeOK
BY DEF Shape, MindsOK, Fits, FilesOK, OutsideOK, TypeOK, Minds, Verdict, Runs

\* The keys of items are not those of schedules.
LEMMA KeyKinds ==
  /\ \A i \in Items : ItemKey(i) \in Keys /\ ItemKey(i).kind = "inbox"
  /\ \A i, j \in Items : ItemKey(i) = ItemKey(j) => i = j
  /\ \A time \in Nat : BucketKey(time) \in Keys /\ BucketKey(time).kind = "schedule"
<1>1. \A time \in Nat : time \div Interval \in Nat
  BY ScheduleAssumption
<1> QED
  BY <1>1 DEF ItemKey, BucketKey, Keys

LEMMA BlankParts == /\ Blank \in Minds /\ Blank.todo = {} /\ Blank.run = 0
                    /\ Blank.triggers = <<>> /\ Blank.cp = Unwritten
BY DEF Blank, Minds, Unwritten, Never, Schedules, Checkpoints, RunStatus

\* A step of one ticker leaves the others what they have in mind.
LEMMA MindStep ==
  ASSUME Shape, NEW t \in Tickers, NEW m, NEW step, Fits(m, step, Len(runs')),
         mem' = [mem EXCEPT ![t] = m], pc' = [pc EXCEPT ![t] = step],
         Len(runs) <= Len(runs'), runs' \in Seq(Runs)
  PROVE  MindsOK'
<1>1. 1..Len(runs) \subseteq 1..Len(runs') /\ 0..Len(runs) \subseteq 0..Len(runs')
  BY DEF Shape, FilesOK
<1>2. \A u \in Tickers : Fits(mem'[u], pc'[u], Len(runs'))
  <2> SUFFICES ASSUME NEW u \in Tickers PROVE Fits(mem'[u], pc'[u], Len(runs'))
    OBVIOUS
  <2>1. CASE u = t
    BY <2>1 DEF Shape, MindsOK
  <2>2. CASE u # t
    BY <2>2, <1>1 DEF Shape, MindsOK, Fits
  <2> QED
    BY <2>1, <2>2
<1> QED
  BY <1>2 DEF Shape, MindsOK, Fits

LEMMA MindSame ==
  ASSUME Shape, NEW t \in Tickers, NEW m, NEW step, Fits(m, step, Len(runs)),
         mem' = [mem EXCEPT ![t] = m], pc' = [pc EXCEPT ![t] = step], runs' = runs
  PROVE  MindsOK'
<1>1. Len(runs) <= Len(runs') /\ runs' \in Seq(Runs)
  BY DEF Shape, FilesOK
<1> QED
  BY <1>1, MindStep

LEMMA HandleStep ==
  ASSUME Shape, NEW t \in Tickers, NEW triggers \in Seq(Keys), Len(triggers) <= 2,
         Handle(t, triggers), Len(runs) <= Len(runs'), runs' \in Seq(Runs)
  PROVE  MindsOK'
<1> DEFINE m == [Blank EXCEPT !.triggers = triggers]
           step == IF triggers = <<>> THEN "idle" ELSE "route"
<1>1. /\ m \in Minds /\ m.todo = {} /\ m.run = 0 /\ m.triggers = triggers
  BY DEF Blank, Minds, Unwritten, Never, Schedules, Checkpoints, RunStatus
<1>2. mem' = [mem EXCEPT ![t] = m] /\ pc' = [pc EXCEPT ![t] = step]
  BY DEF Handle, Goto
<1> HIDE DEF m
<1>3. Fits(m, step, Len(runs'))
  BY <1>1 DEF Fits, Steps, WithRun, WithTrigger
<1> QED
  BY <1>2, <1>3, MindStep

-----------------------------------------------------------------------------
\* The types over the steps that look at the runs under way.
LEMMA ObserveShape ==
  ASSUME Shape, NEW t \in Tickers,
         Tick(t) \/ Load(t) \/ Evaluate(t) \/ Settle(t) \/ SaveCheckpoint(t)
  PROVE  Shape'
<1> DEFINE now == mem[t]
<1>0. /\ MindsOK /\ FilesOK /\ OutsideOK
      /\ now \in Minds /\ Fits(now, pc[t], Len(runs))
  BY DEF Shape, MindsOK
<1>1. CASE Tick(t)
  <2> DEFINE m == [Blank EXCEPT !.todo = ActiveRuns]
  <2>1. FilesOK' /\ OutsideOK'
    BY <1>0, <1>1 DEF Tick, files, operators, FilesOK, OutsideOK
  <2>2. ActiveRuns \subseteq 1..Len(runs) /\ ActiveRuns \subseteq Nat
    BY <1>0 DEF ActiveRuns, FilesOK
  <2>3. m \in Minds /\ m.todo = ActiveRuns /\ m.run = 0 /\ m.triggers = <<>>
    BY <2>2, BlankParts DEF Minds
  <2>4. mem' = [mem EXCEPT ![t] = m] /\ pc' = [pc EXCEPT ![t] = "observe"] /\ runs' = runs
    BY <1>1 DEF Tick, Goto, files
  <2> HIDE DEF m
  <2>5. Fits(m, "observe", Len(runs))
    BY <2>2, <2>3, <2>4 DEF Fits, Steps, WithRun, WithTrigger
  <2> QED
    BY <2>1, <2>4, <2>5, MindSame DEF Shape
<1>2. CASE Load(t)
  <2>1. FilesOK' /\ OutsideOK'
    BY <1>0, <1>2 DEF Load, files, operators, FilesOK, OutsideOK
  <2>2. PICK r \in now.todo : mem' = [mem EXCEPT ![t].todo = @ \ {r}, ![t].run = r,
                                               ![t].seen = runs[r].state, ![t].cp = cps[r]]
    BY <1>2 DEF Load
  <2> DEFINE m == [now EXCEPT !.todo = @ \ {r}, !.run = r, !.seen = runs[r].state, !.cp = cps[r]]
  <2>a. r \in 1..Len(runs)
    BY <1>0 DEF Fits
  <2>b. runs[r] \in Runs /\ cps[r] \in Checkpoints
    BY <1>0, <2>a DEF FilesOK
  <2>3. r \in 1..Len(runs) /\ runs[r].state \in RunStatus /\ cps[r] \in Checkpoints
    BY <2>a, <2>b DEF Runs
  <2>4. m \in Minds /\ m.todo \subseteq now.todo /\ m.run = r /\ m.triggers = now.triggers
    BY <1>0, <2>3 DEF Minds
  <2>5. mem' = [mem EXCEPT ![t] = m] /\ pc' = [pc EXCEPT ![t] = "evaluate"] /\ runs' = runs
    BY <1>0, <1>2, <2>2 DEF Load, Goto, files, MindsOK
  <2> HIDE DEF m
  <2>6. Fits(m, "evaluate", Len(runs))
    BY <1>0, <2>3, <2>4, <2>5 DEF Fits, Steps, WithRun, WithTrigger
  <2> QED
    BY <2>1, <2>5, <2>6, MindSame DEF Shape
<1>3. CASE Evaluate(t)
  <2>1. FilesOK' /\ OutsideOK'
    BY <1>0, <1>3 DEF Evaluate, files, operators, FilesOK, OutsideOK
  <2>2. PICK status \in Verdicts(now.run, now.seen) :
          /\ mem' = [mem EXCEPT ![t].next = status]
          /\ \E step \in {"settle", "save"} : pc' = [pc EXCEPT ![t] = step]
    BY <1>3 DEF Evaluate, Goto
  <2>3. status \in Verdict
    BY <1>0, <2>2 DEF Verdicts, Verdict, ActiveStatus, FinalStatus, Minds, RunStatus
  <2> DEFINE m == [now EXCEPT !.next = status]
  <2>4. m \in Minds /\ m.todo = now.todo /\ m.run = now.run /\ m.triggers = now.triggers /\ m.next = status
    BY <1>0, <2>3 DEF Minds, Verdict
  <2>5. PICK step \in {"settle", "save"} : pc' = [pc EXCEPT ![t] = step]
    BY <2>2
  <2>6. mem' = [mem EXCEPT ![t] = m] /\ runs' = runs /\ now.run \in 1..Len(runs)
    BY <1>0, <1>3, <2>2 DEF Evaluate, At, files, MindsOK, Fits, WithRun
  <2> HIDE DEF m
  <2>7. Fits(m, step, Len(runs))
    BY <1>0, <2>3, <2>4, <2>5, <2>6 DEF Fits, Steps, WithRun, WithTrigger
  <2> QED
    BY <2>1, <2>5, <2>6, <2>7, MindSame DEF Shape
<1>4. CASE Settle(t)
  <2>1. FilesOK' /\ OutsideOK'
    <3>1. ledger' \in [launched : Nat, active : Nat]
      BY <1>0, <1>4 DEF Settle, FilesOK
    <3> QED
      BY <1>0, <3>1, <1>4 DEF Settle, operators, FilesOK, OutsideOK
  <2>2. /\ mem' = [mem EXCEPT ![t] = now] /\ pc' = [pc EXCEPT ![t] = "save"]
        /\ runs' = runs /\ pc[t] = "settle"
    BY <1>0, <1>4 DEF Settle, Goto, At, MindsOK
  <2>3. Fits(now, "save", Len(runs))
    BY <1>0, <2>2 DEF Fits, Steps, WithRun, WithTrigger
  <2> QED
    BY <2>1, <2>2, <2>3, MindSame DEF Shape
<1>5. CASE SaveCheckpoint(t)
  <2>1. now.run \in 1..Len(runs) /\ now.next \in Verdict /\ now.cp.queued \subseteq Keys
    BY <1>0, <1>5 DEF SaveCheckpoint, At, Fits, WithRun, Minds, Checkpoints
  <2>2. PICK kept \in Kept(now.next, now.cp.queued) :
          cps' = [cps EXCEPT ![now.run] = [status |-> now.next, queued |-> kept]]
    BY <1>5 DEF SaveCheckpoint
  <2>3. [status |-> now.next, queued |-> kept] \in Checkpoints
    BY <2>1 DEF Kept, Checkpoints, Verdict
  <2>4. cps' \in Seq(Checkpoints) /\ Len(cps') = Len(cps)
    BY <1>0, <2>1, <2>2, <2>3 DEF FilesOK
  <2>5. FilesOK' /\ OutsideOK'
    BY <1>0, <1>5, <2>4 DEF SaveCheckpoint, operators, FilesOK, OutsideOK
  <2>6. mem' = [mem EXCEPT ![t] = now] /\ pc' = [pc EXCEPT ![t] = "persist"] /\ runs' = runs
    BY <1>0, <1>5 DEF SaveCheckpoint, Goto, MindsOK
  <2>7. Fits(now, "persist", Len(runs))
    BY <1>0, <2>1, <2>6 DEF Fits, Steps, WithRun, WithTrigger
  <2> QED
    BY <2>5, <2>6, <2>7, MindSame DEF Shape
<1> QED
  BY <1>1, <1>2, <1>3, <1>4, <1>5

\* The types over the steps that save the context of a run.
LEMMA PersistShape == ASSUME Shape, NEW t \in Tickers, Persist(t) PROVE Shape'
<1> DEFINE now == mem[t]
<1>0. /\ MindsOK /\ FilesOK /\ OutsideOK
      /\ now \in Minds /\ Fits(now, pc[t], Len(runs))
  BY DEF Shape, MindsOK
<1>1. now.run \in 1..Len(runs) /\ now.seen \in RunStatus /\ now.todo \subseteq 1..Len(runs)
  BY <1>0 DEF Persist, Fits, WithRun, Minds
<1>2. runs' = [runs EXCEPT ![now.run].state = now.seen]
  BY DEF Persist
<1>3. runs[now.run] \in Runs
  BY <1>0, <1>1 DEF FilesOK
<1>4. [runs[now.run] EXCEPT !.state = now.seen] \in Runs
  BY <1>1, <1>3 DEF Runs
<1>5. runs' \in Seq(Runs) /\ Len(runs') = Len(runs) /\ Len(runs) <= Len(runs')
  BY <1>0, <1>1, <1>2, <1>4 DEF FilesOK
<1>6. FilesOK' /\ OutsideOK'
  BY <1>0, <1>5 DEF Persist, operators, FilesOK, OutsideOK
<1>7. CASE At(t, "persist")
  <2> DEFINE m == [Blank EXCEPT !.todo = now.todo]
  <2>1. m \in Minds /\ m.todo = now.todo /\ m.run = 0 /\ m.triggers = <<>>
    BY <1>0, BlankParts DEF Minds
  <2>2. mem' = [mem EXCEPT ![t] = m] /\ pc' = [pc EXCEPT ![t] = "observe"]
    BY <1>7 DEF Persist, Goto, At
  <2> HIDE DEF m
  <2>3. Fits(m, "observe", Len(runs'))
    BY <1>0, <1>1, <1>5, <2>1 DEF Fits, Steps, WithRun, WithTrigger
  <2> QED
    BY <1>5, <1>6, <2>2, <2>3, MindStep DEF Shape
<1>8. ASSUME NEW step \in {"queue_complete", "dedupe"}, Goto(t, step), UNCHANGED mem,
             pc[t] \in {"queue_persist", "launch_persist"}
      PROVE  Shape'
  <2>1. mem' = [mem EXCEPT ![t] = now] /\ pc' = [pc EXCEPT ![t] = step]
    BY <1>0, <1>8 DEF Goto, MindsOK
  <2>2. Fits(now, step, Len(runs'))
    BY <1>0, <1>5, <1>8 DEF Fits, Steps, WithRun, WithTrigger
  <2> QED
    BY <1>5, <1>6, <2>1, <2>2, MindStep DEF Shape
<1> QED
  BY <1>7, <1>8 DEF Persist, At

\* The types over the steps that poll the inbox and the schedule.
LEMMA PollShape ==
  ASSUME Shape, NEW t \in Tickers, Poll(t) \/ Claim(t) \/ Due(t) \/ Fire(t) \/ Fired(t)
  PROVE  Shape'
<1> DEFINE now == mem[t]
<1>0. /\ MindsOK /\ FilesOK /\ OutsideOK
      /\ now \in Minds /\ Fits(now, pc[t], Len(runs))
  BY DEF Shape, MindsOK
<1>a. now.triggers \in Seq(Keys) /\ Len(now.triggers) <= 2 /\ now.now \in Nat /\ now.held \in Schedules
  BY <1>0 DEF Fits, Minds
<1>b. <<>> \in Seq(Keys) /\ Len(<<>>) <= 2 /\ Len(runs) <= Len(runs) /\ runs \in Seq(Runs)
  BY <1>0 DEF FilesOK
<1>1. CASE Poll(t)
  <2>1. FilesOK' /\ OutsideOK' /\ runs' = runs
    BY <1>0, <1>1 DEF Poll, files, operators, FilesOK, OutsideOK
  <2>2. CASE agent # "active"
    <3>1. Handle(t, <<>>)
      BY <1>1, <2>2 DEF Poll
    <3> QED
      BY <3>1, <2>1, <1>b, HandleStep DEF Shape
  <2>3. CASE agent = "active"
    <3> DEFINE m == [Blank EXCEPT !.now = clock]
    <3>1. mem' = [mem EXCEPT ![t] = m] /\ pc' = [pc EXCEPT ![t] = "claim"]
      BY <1>1, <2>3 DEF Poll, Goto
    <3>2. clock \in Nat
      BY <1>0, BoundAssumption DEF OutsideOK
    <3>3. m \in Minds /\ m.todo = {} /\ m.run = 0 /\ m.triggers = <<>>
      BY <3>2, BlankParts DEF Minds
    <3> HIDE DEF m
    <3>4. Fits(m, "claim", Len(runs))
      BY <1>b, <3>3 DEF Fits, Steps, WithRun, WithTrigger
    <3> QED
      BY <2>1, <3>1, <3>4, MindSame DEF Shape
  <2> QED
    BY <2>2, <2>3
<1>2. CASE Claim(t)
  <2>1. now.triggers = <<>> /\ pc' = [pc EXCEPT ![t] = "due"] /\ runs' = runs
    BY <1>0, <1>2 DEF Claim, At, Goto, Fits
  <2>2. OutsideOK' /\ UNCHANGED <<schedule, ledger, cps, dedupe>>
    BY <1>0, <1>2 DEF Claim, operators, OutsideOK
  <2>3. CASE UNCHANGED <<inbox, mem>>
    <3>1. FilesOK' /\ mem' = [mem EXCEPT ![t] = now]
      BY <1>0, <2>1, <2>2, <2>3 DEF FilesOK, MindsOK
    <3>2. Fits(now, "due", Len(runs))
      BY <1>0, <2>1 DEF Fits, Steps, WithRun, WithTrigger
    <3> QED
      BY <2>1, <2>2, <3>1, <3>2, MindSame DEF Shape
  <2>4. ASSUME NEW i \in Pending, inbox' = [inbox EXCEPT ![i] = "claimed"],
               mem' = [mem EXCEPT ![t].triggers = <<ItemKey(i)>>]
        PROVE  Shape'
    <3> DEFINE m == [now EXCEPT !.triggers = <<ItemKey(i)>>]
    <3>1. ItemKey(i) \in Keys /\ FilesOK'
      BY <1>0, <2>1, <2>2, <2>4, KeyKinds DEF FilesOK, Pending, ItemStates
    <3>a. <<ItemKey(i)>> \in Seq(Keys) /\ Len(<<ItemKey(i)>>) = 1
      BY <3>1
    <3>2. m \in Minds /\ m.todo = now.todo /\ m.run = now.run /\ Len(m.triggers) = 1
      BY <1>0, <3>a DEF Minds
    <3>3. mem' = [mem EXCEPT ![t] = m]
      BY <1>0, <2>4 DEF MindsOK
    <3> HIDE DEF m
    <3>4. Fits(m, "due", Len(runs))
      BY <1>0, <3>2 DEF Fits, Steps, WithRun, WithTrigger
    <3> QED
      BY <2>1, <2>2, <3>1, <3>3, <3>4, MindSame DEF Shape
  <2> QED
    BY <1>2, <2>3, <2>4 DEF Claim
<1>3. CASE Due(t)
  <2>1. FilesOK' /\ OutsideOK' /\ runs' = runs
    BY <1>0, <1>3 DEF Due, files, operators, FilesOK, OutsideOK
  <2>2. CASE IsDue(schedule, now.now)
    <3> DEFINE key == BucketKey(now.now)
               m == [now EXCEPT !.triggers = Append(@, key)]
    <3>1. mem' = [mem EXCEPT ![t] = m] /\ pc' = [pc EXCEPT ![t] = "fire"]
      BY <1>0, <1>3, <2>2 DEF Due, Goto, MindsOK
    <3>2. key \in Keys /\ Len(now.triggers) <= 1
      BY <1>0, <1>3, <1>a, KeyKinds DEF Due, At, Fits
    <3> HIDE DEF key
    <3>3. Append(now.triggers, key) \in Seq(Keys) /\ Len(Append(now.triggers, key)) <= 2
      BY <1>a, <3>2
    <3>4. m \in Minds /\ m.todo = now.todo /\ m.run = now.run /\ Len(m.triggers) <= 2
      BY <1>0, <3>3 DEF Minds
    <3> HIDE DEF m
    <3>5. Fits(m, "fire", Len(runs))
      BY <1>0, <3>4 DEF Fits, Steps, WithRun, WithTrigger
    <3> QED
      BY <2>1, <3>1, <3>5, MindSame DEF Shape
  <2>3. CASE ~IsDue(schedule, now.now)
    <3>1. Handle(t, now.triggers)
      BY <1>3, <2>3 DEF Due
    <3> QED
      BY <3>1, <2>1, <1>a, <1>b, HandleStep DEF Shape
  <2> QED
    BY <2>2, <2>3
<1>4. CASE Fire(t)
  <2>1. FilesOK' /\ OutsideOK' /\ runs' = runs
    BY <1>0, <1>4 DEF Fire, files, operators, FilesOK, OutsideOK
  <2> DEFINE held == [schedule EXCEPT !.fired = now.now]
             m == [now EXCEPT !.held = held]
  <2>2. mem' = [mem EXCEPT ![t] = m] /\ pc' = [pc EXCEPT ![t] = "fired"]
    BY <1>0, <1>4 DEF Fire, Goto, MindsOK
  <2>3. held \in Schedules
    BY <1>0, <1>a DEF FilesOK, Schedules
  <2> HIDE DEF held
  <2>4. m \in Minds /\ m.todo = now.todo /\ m.run = now.run /\ m.triggers = now.triggers
    BY <1>0, <2>3 DEF Minds
  <2> HIDE DEF m
  <2>5. Fits(m, "fired", Len(runs))
    BY <1>0, <2>4 DEF Fits, Steps, WithRun, WithTrigger
  <2> QED
    BY <2>1, <2>2, <2>5, MindSame DEF Shape
<1>5. CASE Fired(t)
  <2>1. FilesOK' /\ OutsideOK' /\ runs' = runs /\ Handle(t, now.triggers)
    BY <1>0, <1>5, <1>a DEF Fired, operators, FilesOK, OutsideOK
  <2> QED
    BY <2>1, <1>a, <1>b, HandleStep DEF Shape
<1> QED
  BY <1>1, <1>2, <1>3, <1>4, <1>5

\* The types over the steps that make a trigger an interrupt.
LEMMA InterruptShape ==
  ASSUME Shape, NEW t \in Tickers,
         Route(t) \/ QueueSave(t) \/ QueueComplete(t) \/ Accept(t) \/ Budget(t) \/ Complete(t)
  PROVE  Shape'
<1> DEFINE now == mem[t]
<1>0. /\ MindsOK /\ FilesOK /\ OutsideOK
      /\ now \in Minds /\ Fits(now, pc[t], Len(runs))
  BY DEF Shape, MindsOK
<1>a. /\ now.triggers \in Seq(Keys) /\ now.triggers # <<>> /\ Len(now.triggers) <= 2
  BY <1>0 DEF Fits, Minds, WithTrigger, Route, QueueSave, QueueComplete, Accept, Budget, Complete, At
<1>b. /\ Trigger(t) \in Keys /\ Tail(now.triggers) \in Seq(Keys) /\ Len(Tail(now.triggers)) <= 2
  BY <1>a DEF Trigger
<1>c. Len(runs) <= Len(runs) /\ runs \in Seq(Runs)
  BY <1>0 DEF FilesOK
<1>d. ASSUME NextTrigger(t), FilesOK', OutsideOK', runs' = runs PROVE Shape'
  BY <1>b, <1>c, <1>d, HandleStep DEF NextTrigger, Shape
<1>e. ASSUME NEW step \in Steps, pc' = [pc EXCEPT ![t] = step], UNCHANGED mem, runs' = runs,
             FilesOK', OutsideOK', step \in WithRun => pc[t] \in WithRun,
             step \notin {"claim", "due", "settle", "save"}
      PROVE  Shape'
  <2>1. mem' = [mem EXCEPT ![t] = now]
    BY <1>0, <1>e DEF MindsOK
  <2>2. Fits(now, step, Len(runs))
    BY <1>0, <1>a, <1>e DEF Fits
  <2> QED
    BY <1>e, <2>1, <2>2, MindSame DEF Shape
<1>f. \A i \in Items : inbox[i] \in ItemStates
  BY <1>0 DEF FilesOK
<1>1. CASE Route(t)
  <2>1. FilesOK' /\ OutsideOK' /\ runs' = runs
    BY <1>0, <1>1 DEF Route, files, operators, FilesOK, OutsideOK
  <2>2. CASE Goto(t, "accept") /\ UNCHANGED mem
    BY <1>e, <2>1, <2>2 DEF Goto, Steps, WithRun
  <2>3. CASE NextTrigger(t)
    BY <1>d, <2>1, <2>3
  <2>4. ASSUME NEW r \in ActiveRuns, NEW decision \in {"queue", "stay"}, Goto(t, "queue"),
               mem' = [mem EXCEPT ![t].run = r, ![t].cp = cps[r], ![t].seen = runs[r].state,
                                  ![t].next = decision]
        PROVE  Shape'
    <3> DEFINE m == [now EXCEPT !.run = r, !.cp = cps[r], !.seen = runs[r].state, !.next = decision]
    <3>1. r \in 1..Len(runs)
      BY <1>0 DEF ActiveRuns, FilesOK
    <3>2. runs[r] \in Runs /\ cps[r] \in Checkpoints
      BY <1>0, <3>1 DEF FilesOK
    <3>3. runs[r].state \in RunStatus /\ r \in Nat
      BY <3>1, <3>2 DEF Runs
    <3>4. m \in Minds /\ m.todo = now.todo /\ m.run = r /\ m.triggers = now.triggers
      BY <1>0, <3>2, <3>3 DEF Minds
    <3>5. mem' = [mem EXCEPT ![t] = m] /\ pc' = [pc EXCEPT ![t] = "queue"]
      BY <1>0, <2>4 DEF MindsOK, Goto
    <3> HIDE DEF m
    <3>6. Fits(m, "queue", Len(runs))
      BY <1>0, <1>a, <3>1, <3>4 DEF Fits, Steps, WithRun, WithTrigger
    <3> QED
      BY <2>1, <3>5, <3>6, MindSame DEF Shape
  <2> QED
    BY <1>1, <2>2, <2>3, <2>4 DEF Route, Decisions
<1>2. CASE QueueSave(t)
  <2>1. now.run \in 1..Len(runs) /\ now.cp \in Checkpoints
    BY <1>0, <1>2 DEF QueueSave, At, Fits, WithRun, Minds
  <2>2. PICK kept \in SUBSET Keys : cps' = [cps EXCEPT ![now.run] = [now.cp EXCEPT !.queued = kept]]
    <3>1. now.cp.queued \subseteq Keys
      BY <2>1 DEF Checkpoints
    <3> QED
      BY <1>2, <1>b, <3>1 DEF QueueSave
  <2>3. [now.cp EXCEPT !.queued = kept] \in Checkpoints
    BY <2>1 DEF Checkpoints
  <2>4. cps' \in Seq(Checkpoints) /\ Len(cps') = Len(cps)
    BY <1>0, <2>1, <2>2, <2>3 DEF FilesOK
  <2>5. FilesOK' /\ OutsideOK' /\ runs' = runs
    BY <1>0, <1>2, <2>4 DEF QueueSave, operators, FilesOK, OutsideOK
  <2> QED
    BY <1>e, <1>2, <2>5 DEF QueueSave, Goto, At, Steps, WithRun
<1>3. CASE QueueComplete(t)
  <2>1. FilesOK' /\ OutsideOK' /\ runs' = runs
    BY <1>0, <1>3, <1>f DEF QueueComplete, Completed, operators, FilesOK, OutsideOK, ItemStates
  <2>2. CASE NextTrigger(t)
    BY <1>d, <2>1, <2>2
  <2>3. CASE ~NextTrigger(t)
    <3> DEFINE m == [Blank EXCEPT !.triggers = now.triggers]
    <3>1. m \in Minds /\ m.todo = {} /\ m.run = 0 /\ m.triggers = now.triggers
      BY <1>a, BlankParts DEF Minds
    <3>2. mem' = [mem EXCEPT ![t] = m] /\ pc' = [pc EXCEPT ![t] = "accept"]
      BY <1>3, <2>3 DEF QueueComplete, Goto
    <3> HIDE DEF m
    <3>3. Fits(m, "accept", Len(runs))
      BY <1>a, <1>c, <3>1 DEF Fits, Steps, WithRun, WithTrigger
    <3> QED
      BY <2>1, <3>2, <3>3, MindSame DEF Shape
  <2> QED
    BY <2>2, <2>3
<1>4. CASE Accept(t)
  <2>1. FilesOK' /\ OutsideOK' /\ runs' = runs
    BY <1>0, <1>4 DEF Accept, files, operators, FilesOK, OutsideOK
  <2> QED
    BY <1>d, <1>e, <1>4, <2>1 DEF Accept, Goto, Steps, WithRun
<1>5. CASE Budget(t)
  <2>1. FilesOK' /\ OutsideOK' /\ runs' = runs
    BY <1>0, <1>5 DEF Budget, files, operators, FilesOK, OutsideOK
  <2> QED
    BY <1>d, <1>e, <1>5, <2>1 DEF Budget, Goto, Steps, WithRun
<1>6. CASE Complete(t)
  <2>1. FilesOK' /\ OutsideOK' /\ runs' = runs
    BY <1>0, <1>6, <1>f DEF Complete, Completed, operators, FilesOK, OutsideOK, ItemStates
  <2> QED
    BY <1>d, <1>6, <2>1 DEF Complete
<1> QED
  BY <1>1, <1>2, <1>3, <1>4, <1>5, <1>6

\* The types over the steps that launch a run.
LEMMA LaunchShape ==
  ASSUME Shape, NEW t \in Tickers, Create(t) \/ Account(t) \/ Checkpoint(t) \/ Dedupe(t)
  PROVE  Shape'
<1> DEFINE now == mem[t]
<1>0. /\ MindsOK /\ FilesOK /\ OutsideOK
      /\ now \in Minds /\ Fits(now, pc[t], Len(runs))
  BY DEF Shape, MindsOK
<1>a. /\ now.triggers \in Seq(Keys) /\ now.triggers # <<>> /\ Len(now.triggers) <= 2
  BY <1>0 DEF Fits, Minds, WithTrigger, Create, Account, Checkpoint, Dedupe, At
<1>b. Trigger(t) \in Keys
  BY <1>a DEF Trigger
<1>c. Len(runs) \in Nat /\ runs \in Seq(Runs) /\ cps \in Seq(Checkpoints)
  BY <1>0 DEF FilesOK
<1>1. CASE Create(t)
  <2> DEFINE new == [key |-> Trigger(t), state |-> "live", spent |-> FALSE]
             m == [now EXCEPT !.run = Len(runs) + 1, !.seen = "live"]
  <2>1. new \in Runs /\ Unwritten \in Checkpoints
    BY <1>b DEF Runs, RunStatus, Unwritten, Checkpoints
  <2>2. runs' = Append(runs, new) /\ cps' = Append(cps, Unwritten)
    BY <1>1 DEF Create
  <2> HIDE DEF new
  <2>3. /\ runs' \in Seq(Runs) /\ cps' \in Seq(Checkpoints)
        /\ Len(runs') = Len(runs) + 1 /\ Len(cps') = Len(cps) + 1 /\ Len(runs) <= Len(runs')
    BY <1>c, <2>1, <2>2
  <2>4. FilesOK'
    BY <1>0, <1>1, <2>3 DEF Create, FilesOK
  <2>5. late' \in [Tickers -> Nat]
    BY <1>0, <1>1 DEF Create, OutsideOK
  <2>6. OutsideOK'
    BY <1>0, <1>1, <2>5 DEF Create, operators, OutsideOK
  <2>7. /\ m \in Minds /\ m.todo = now.todo /\ m.run = Len(runs) + 1 /\ m.triggers = now.triggers
    <3>1. Len(runs) + 1 \in Nat /\ "live" \in RunStatus
      BY <1>c DEF RunStatus
    <3> QED
      BY <1>0, <3>1 DEF Minds
  <2>8. mem' = [mem EXCEPT ![t] = m] /\ pc' = [pc EXCEPT ![t] = "ledger"]
    BY <1>0, <1>1 DEF Create, Goto, MindsOK
  <2> HIDE DEF m
  <2>9. m.todo \subseteq 1..Len(runs') /\ m.run \in 1..Len(runs') /\ m.run \in 0..Len(runs')
    BY <1>0, <1>c, <2>3, <2>7 DEF Fits
  <2>10. Fits(m, "ledger", Len(runs'))
    BY <1>a, <2>7, <2>9 DEF Fits, Steps, WithRun, WithTrigger
  <2> QED
    BY <1>c, <2>3, <2>4, <2>6, <2>8, <2>10, MindStep DEF Shape
<1>2. ASSUME NEW step \in {"checkpoint", "launch_persist", "complete"}, Goto(t, step), UNCHANGED mem,
             runs' = runs, FilesOK', OutsideOK', step = "complete" \/ pc[t] \in WithRun
      PROVE  Shape'
  <2>1. mem' = [mem EXCEPT ![t] = now] /\ pc' = [pc EXCEPT ![t] = step]
    BY <1>0, <1>2 DEF MindsOK, Goto
  <2>2. Fits(now, step, Len(runs))
    BY <1>0, <1>a, <1>2 DEF Fits, Steps, WithRun, WithTrigger
  <2> QED
    BY <1>2, <2>1, <2>2, MindSame DEF Shape
<1>3. CASE Account(t)
  <2>1. ledger' \in [launched : Nat, active : Nat]
    BY <1>0, <1>3 DEF Account, FilesOK
  <2>2. FilesOK' /\ OutsideOK' /\ runs' = runs
    BY <1>0, <1>3, <2>1 DEF Account, operators, FilesOK, OutsideOK
  <2> QED
    BY <1>2, <1>3, <2>2 DEF Account, At, WithRun
<1>4. CASE Checkpoint(t)
  <2>1. now.run \in 1..Len(runs) /\ [status |-> "launched", queued |-> {}] \in Checkpoints
    BY <1>0, <1>4 DEF Checkpoint, At, Fits, WithRun, Checkpoints, ActiveStatus
  <2>2. cps' \in Seq(Checkpoints) /\ Len(cps') = Len(cps)
    BY <1>0, <1>4, <2>1 DEF Checkpoint, FilesOK
  <2>3. FilesOK' /\ OutsideOK' /\ runs' = runs
    BY <1>0, <1>4, <2>2 DEF Checkpoint, operators, FilesOK, OutsideOK
  <2> QED
    BY <1>2, <1>4, <2>3 DEF Checkpoint, At, WithRun
<1>5. CASE Dedupe(t)
  <2>1. FilesOK' /\ OutsideOK' /\ runs' = runs
    BY <1>0, <1>5, <1>b DEF Dedupe, operators, FilesOK, OutsideOK
  <2> QED
    BY <1>2, <1>5, <2>1 DEF Dedupe
<1> QED
  BY <1>1, <1>3, <1>4, <1>5

\* The types over the steps of everyone else.
LEMMA EnvironmentShape == Shape /\ Environment => Shape'
<1> SUFFICES ASSUME Shape, Environment PROVE Shape'
  OBVIOUS
<1>0. /\ MindsOK /\ FilesOK /\ OutsideOK
  BY DEF Shape
<1>a. ASSUME UNCHANGED <<pc, mem>>, Len(runs') = Len(runs) PROVE MindsOK'
  BY <1>0, <1>a DEF MindsOK
<1>b. ASSUME NEW r \in DOMAIN runs, NEW run \in Runs, runs' = [runs EXCEPT ![r] = run]
      PROVE  runs' \in Seq(Runs) /\ Len(runs') = Len(runs)
  BY <1>0, <1>b DEF FilesOK
<1>1. CASE Enqueue \/ Cancel
  <2>1. inbox' \in [Items -> ItemStates]
    BY <1>0, <1>1 DEF Enqueue, Cancel, FilesOK, ItemStates
  <2>2. controls' \in 0..MaxControls
    BY <1>0, <1>1, BoundAssumption DEF Enqueue, Cancel, operators, OutsideOK
  <2>3. FilesOK' /\ OutsideOK' /\ UNCHANGED <<pc, mem, runs>>
    BY <1>0, <1>1, <2>1, <2>2 DEF Enqueue, Cancel, operators, outside, FilesOK, OutsideOK
  <2> QED
    BY <2>3, <1>a DEF Shape
<1>2. CASE Pause \/ Unpause \/ Unkill \/ Pass
  <2>1. controls' \in 0..MaxControls /\ clock' \in 0..MaxTime
    BY <1>0, <1>2, BoundAssumption DEF Pause, Unpause, Unkill, Pass, OutsideOK
  <2>2. FilesOK' /\ OutsideOK' /\ UNCHANGED <<pc, mem, runs>>
    BY <1>0, <1>2, <2>1 DEF Pause, Unpause, Unkill, Pass, files, outside, FilesOK, OutsideOK
  <2> QED
    BY <2>2, <1>a DEF Shape
<1>3. CASE Kill
  <2>1. controls' \in 0..MaxControls /\ late' \in [Tickers -> Nat]
    BY <1>0, <1>3, BoundAssumption DEF Kill, OutsideOK
  <2>2. FilesOK' /\ OutsideOK' /\ UNCHANGED <<pc, mem, runs>>
    BY <1>0, <1>3, <2>1 DEF Kill, files, FilesOK, OutsideOK
  <2> QED
    BY <2>2, <1>a DEF Shape
<1>4. CASE OpenEdit
  <2>1. edit' \in [enabled : BOOLEAN, fired : Nat \cup {Never}, open : BOOLEAN] /\ edits' \in 0..MaxEdits
    BY <1>0, <1>4, BoundAssumption DEF OpenEdit, FilesOK, OutsideOK, Schedules
  <2>2. FilesOK' /\ OutsideOK' /\ UNCHANGED <<pc, mem, runs>>
    BY <1>0, <1>4, <2>1 DEF OpenEdit, files, outside, FilesOK, OutsideOK
  <2> QED
    BY <2>2, <1>a DEF Shape
<1>5. CASE SaveEdit
  <2>1. /\ edit' \in [enabled : BOOLEAN, fired : Nat \cup {Never}, open : BOOLEAN]
        /\ schedule' \in Schedules
    BY <1>0, <1>5 DEF SaveEdit, NoEdit, OutsideOK, Schedules
  <2>2. FilesOK' /\ OutsideOK' /\ UNCHANGED <<pc, mem, runs>>
    BY <1>0, <1>5, <2>1 DEF SaveEdit, outside, FilesOK, OutsideOK
  <2> QED
    BY <2>2, <1>a DEF Shape
<1>6. CASE Drive
  <2>1. PICK r \in DOMAIN runs, state \in Moves \ {"spent"} : runs' = [runs EXCEPT ![r].state = state]
    BY <1>6 DEF Drive
  <2>2. runs[r] \in Runs /\ state \in RunStatus
    BY <1>0, MovesAssumption DEF FilesOK, RunStatus
  <2>3. [runs[r] EXCEPT !.state = state] \in Runs
    BY <2>2 DEF Runs
  <2>4. runs' \in Seq(Runs) /\ Len(runs') = Len(runs)
    BY <2>1, <2>3, <1>b
  <2>5. FilesOK' /\ OutsideOK' /\ UNCHANGED <<pc, mem>>
    BY <1>0, <1>6, <2>4 DEF Drive, operators, outside, FilesOK, OutsideOK
  <2> QED
    BY <2>4, <2>5, <1>a DEF Shape
<1>7. CASE Exhaust
  <2>1. PICK r \in DOMAIN runs : runs' = [runs EXCEPT ![r].spent = TRUE]
    BY <1>7 DEF Exhaust
  <2>2. runs[r] \in Runs
    BY <1>0 DEF FilesOK
  <2>3. [runs[r] EXCEPT !.spent = TRUE] \in Runs
    BY <2>2 DEF Runs
  <2>4. runs' \in Seq(Runs) /\ Len(runs') = Len(runs)
    BY <2>1, <2>3, <1>b
  <2>5. FilesOK' /\ OutsideOK' /\ UNCHANGED <<pc, mem>>
    BY <1>0, <1>7, <2>4 DEF Exhaust, operators, outside, FilesOK, OutsideOK
  <2> QED
    BY <2>4, <2>5, <1>a DEF Shape
<1>8. CASE Crash
  <2>1. Fits(Blank, "idle", Len(runs))
    BY <1>0, BlankParts DEF FilesOK, Fits, Steps, WithRun, WithTrigger
  <2>2. MindsOK' /\ FilesOK'
    BY <1>0, <1>8, <2>1, BlankParts DEF Crash, files, MindsOK, FilesOK, Steps
  <2>3. NoEdit \in [enabled : BOOLEAN, fired : Nat \cup {Never}, open : BOOLEAN] /\ crashes' \in 0..MaxCrashes
    BY <1>0, <1>8, BoundAssumption DEF Crash, NoEdit, OutsideOK
  <2>4. OutsideOK'
    BY <1>0, <1>8, <2>3 DEF Crash, OutsideOK
  <2> QED
    BY <2>2, <2>4 DEF Shape
<1> QED
  BY <1>1, <1>2, <1>3, <1>4, <1>5, <1>6, <1>7, <1>8 DEF Environment

LEMMA ShapeInit == Init => Shape
<1> SUFFICES ASSUME Init PROVE Shape
  OBVIOUS
<1>1. Fits(Blank, "idle", 0)
  BY BlankParts DEF Fits, Steps, WithRun, WithTrigger
<1>2. MindsOK
  BY <1>1, BlankParts DEF Init, MindsOK, Steps
<1>3. FilesOK
  <2>1. /\ schedule \in Schedules /\ ledger \in [launched : Nat, active : Nat]
        /\ inbox \in [Items -> ItemStates]
    BY ScheduleAssumption DEF Init, ItemStates, Schedules
  <2>2. <<>> \in Seq(Runs) /\ <<>> \in Seq(Checkpoints) /\ {} \subseteq Keys
    OBVIOUS
  <2>3. runs = <<>> /\ cps = <<>> /\ dedupe = {} /\ Len(cps) = Len(runs)
    BY DEF Init
  <2> QED
    BY <2>1, <2>2, <2>3 DEF FilesOK
<1>4. OutsideOK
  <2>1. NoEdit \in [enabled : BOOLEAN, fired : Nat \cup {Never}, open : BOOLEAN]
    BY DEF NoEdit
  <2>2. 0 \in 0..MaxTime /\ 0 \in 0..MaxControls /\ 0 \in 0..MaxEdits /\ 0 \in 0..MaxCrashes
    BY BoundAssumption
  <2>3. late \in [Tickers -> Nat]
    BY DEF Init
  <2> QED
    BY <2>1, <2>2, <2>3 DEF Init, OutsideOK
<1> QED
  BY <1>2, <1>3, <1>4 DEF Shape

LEMMA ShapeStep == Shape /\ [Next]_vars => Shape'
<1>1. ASSUME Shape, UNCHANGED vars PROVE Shape'
  <2>1. MindsOK'
    BY <1>1 DEF vars, Shape, MindsOK
  <2>2. FilesOK' /\ OutsideOK'
    BY <1>1 DEF vars, Shape, FilesOK, OutsideOK
  <2> QED
    BY <2>1, <2>2 DEF Shape
<1> QED
  BY <1>1, ObserveShape, PersistShape, PollShape, InterruptShape, LaunchShape, EnvironmentShape DEF Next, Step

-----------------------------------------------------------------------------
\* Type correctness of the supervisor, with any number of tickers.
THEOREM SupervisorTypes == Spec => []TypeOK
<1>1. Spec => []Shape
  BY ShapeInit, ShapeStep, PTL DEF Spec
<1> QED
  BY <1>1, ShapeTypes, PTL

\* The kill switch is looked at between the acceptance of a trigger and the next.
LEMMA KillStep == Shape /\ KillInv /\ [Next]_vars => KillInv'
<1> SUFFICES ASSUME Shape, KillInv, [Next]_vars PROVE KillInv'
  OBVIOUS
<1>0. /\ pc \in [Tickers -> Steps] /\ mem \in [Tickers -> Minds] /\ late \in [Tickers -> Nat]
  BY DEF Shape, MindsOK, OutsideOK
<1>1. ASSUME NEW t \in Tickers, Create(t) PROVE KillInv'
  <2>1. pc[t] = "create" /\ pc' = [pc EXCEPT ![t] = "ledger"] /\ killed' = killed
    BY <1>1 DEF Create, At, Goto, operators
  <2>2. late' = [late EXCEPT ![t] = IF killed THEN @ + 1 ELSE @]
    BY <1>1 DEF Create
  <2> QED
    BY <1>0, <2>1, <2>2 DEF KillInv
<1>2. ASSUME NEW t \in Tickers, NEW step, pc' = [pc EXCEPT ![t] = step], late' = late, killed' = killed,
             killed /\ step \in {"budget", "create"} => pc[t] = "budget"
      PROVE  KillInv'
  BY <1>0, <1>2 DEF KillInv
<1>3. ASSUME NEW t \in Tickers, Tick(t) \/ Step(t), ~Create(t)
      PROVE  late' = late /\ killed' = killed /\
             \E step : pc' = [pc EXCEPT ![t] = step]
                       /\ (killed /\ step \in {"budget", "create"} => pc[t] = "budget")
  <2>h. \A triggers : Handle(t, triggers) => \E step \in {"idle", "route"} : pc' = [pc EXCEPT ![t] = step]
    BY DEF Handle, Goto
  <2>1. CASE Accept(t) \/ Budget(t)
    BY <2>1 DEF Accept, Budget, Welcome, At, Goto, NextTrigger, Handle, operators
  <2>2. CASE Tick(t) \/ Load(t) \/ Evaluate(t) \/ Settle(t) \/ SaveCheckpoint(t) \/ Persist(t)
    <3>1. late' = late /\ killed' = killed
      BY <2>2 DEF Tick, Load, Evaluate, Settle, SaveCheckpoint, Persist, operators
    <3>2. \E step \in {"observe", "evaluate", "settle", "save", "persist", "queue_complete", "dedupe"} :
             pc' = [pc EXCEPT ![t] = step]
      <4>1. CASE Tick(t) \/ Load(t)
        BY <4>1 DEF Tick, Load, Goto
      <4>2. CASE Evaluate(t)
        BY <4>2 DEF Evaluate, Goto
      <4>3. CASE Settle(t) \/ SaveCheckpoint(t)
        BY <4>3 DEF Settle, SaveCheckpoint, Goto
      <4>4. CASE Persist(t)
        BY <4>4 DEF Persist, At, Goto
      <4> QED
        BY <2>2, <4>1, <4>2, <4>3, <4>4
    <3> QED
      BY <3>1, <3>2
  <2>3. CASE Poll(t) \/ Claim(t) \/ Due(t) \/ Fire(t) \/ Fired(t)
    <3>1. CASE Poll(t)
      BY <3>1, <2>h DEF Poll, Goto, operators
    <3>2. CASE Claim(t) \/ Fire(t)
      BY <3>2 DEF Claim, Fire, Goto, operators
    <3>3. CASE Due(t)
      <4>1. late' = late /\ killed' = killed
        BY <3>3 DEF Due, operators
      <4>2. Goto(t, "fire") \/ Handle(t, mem[t].triggers)
        BY <3>3 DEF Due
      <4> QED
        BY <4>1, <4>2, <2>h DEF Goto
    <3>4. CASE Fired(t)
      BY <3>4, <2>h DEF Fired, operators
    <3> QED
      BY <2>3, <3>1, <3>2, <3>3, <3>4
  <2>4. CASE Route(t) \/ QueueSave(t) \/ QueueComplete(t)
    <3>1. CASE Route(t)
      <4>1. late' = late /\ killed' = killed
        BY <3>1 DEF Route, operators
      <4>2. Goto(t, "accept") \/ Goto(t, "queue") \/ NextTrigger(t)
        BY <3>1 DEF Route
      <4> QED
        BY <4>1, <4>2, <2>h DEF Goto, NextTrigger
    <3>2. CASE QueueSave(t)
      <4>1. late' = late /\ killed' = killed /\ pc' = [pc EXCEPT ![t] = "queue_persist"]
        BY <3>2 DEF QueueSave, Goto, operators
      <4>2. "queue_persist" \notin {"budget", "create"}
        OBVIOUS
      <4> QED
        BY <4>1, <4>2, Zenon
    <3>3. CASE QueueComplete(t)
      BY <3>3, <2>h DEF QueueComplete, NextTrigger, Goto, operators
    <3> QED
      BY <2>4, <3>1, <3>2, <3>3
  <2>5. CASE Account(t) \/ Checkpoint(t) \/ Dedupe(t) \/ Complete(t)
    BY <2>h, <2>5 DEF Account, Checkpoint, Dedupe, Complete, NextTrigger, Goto, operators
  <2> QED
    BY <1>3, <2>1, <2>2, <2>3, <2>4, <2>5 DEF Step
<1>4. CASE Environment
  BY <1>0, <1>4 DEF KillInv, Environment, Enqueue, Cancel, Pause, Unpause, Kill, Unkill, OpenEdit, SaveEdit,
                    Drive, Exhaust, Pass, Crash, operators, outside
<1>5. CASE UNCHANGED vars
  BY <1>5 DEF KillInv, vars
<1> QED
  BY <1>1, <1>2, <1>3, <1>4, <1>5 DEF Next

\* Once the kill switch is on, each ticker launches the run it has accepted and
\* no other, however many tickers overlap (accept_trigger, launch_run).
THEOREM KillLagHolds == Spec => []KillLag
<1>1. Init => Shape /\ KillInv
  BY ShapeInit DEF Init, KillInv
<1>2. Shape /\ KillInv /\ [Next]_vars => Shape' /\ KillInv'
  BY ShapeStep, KillStep
<1>3. KillInv => KillLag
  BY DEF KillInv, KillLag
<1> QED
  BY <1>1, <1>2, <1>3, PTL DEF Spec

-----------------------------------------------------------------------------
\* A step after which no ticker holds an item it did not hold, no run is new
\* and no item can be claimed again keeps the items apart.
LEMMA ItemQuiet ==
  ASSUME ItemInv,
         \A u \in Tickers, i \in Items : Holds(u, ItemKey(i))' => Holds(u, ItemKey(i)),
         \A u \in Tickers : \A j \in DOMAIN mem'[u].triggers : mem'[u].triggers[j].kind = "inbox" => j = 1,
         \A i \in Items : inbox'[i] \in {"absent", "pending"} => inbox[i] \in {"absent", "pending"},
         DOMAIN runs' = DOMAIN runs, \A r \in DOMAIN runs : runs'[r].key = runs[r].key,
         \A u \in Tickers : \/ pc[u] \in Launched => pc'[u] \in Launched
                            \/ \A i \in Items : ~Holds(u, ItemKey(i))'
  PROVE  ItemInv'
BY DEF ItemInv

\* What a step of one ticker does to what it holds.
LEMMA ItemSame ==
  ASSUME Shape, ItemInv, NEW t \in Tickers, NEW m \in Minds, NEW step, m.triggers = mem[t].triggers,
         mem' = [mem EXCEPT ![t] = m], pc' = [pc EXCEPT ![t] = step],
         pc[t] \in Launched => step \in Launched,
         \A i \in Items : inbox'[i] \in {"absent", "pending"} => inbox[i] \in {"absent", "pending"},
         DOMAIN runs' = DOMAIN runs, \A r \in DOMAIN runs : runs'[r].key = runs[r].key
  PROVE  ItemInv'
<1>1. \A u \in Tickers : mem'[u].triggers = mem[u].triggers /\ (pc[u] \in Launched => pc'[u] \in Launched)
  BY DEF Shape, MindsOK
<1>2. \A u \in Tickers : \A key : Holds(u, key)' => Holds(u, key)
  BY <1>1 DEF Holds
<1>3. \A u \in Tickers : \A j \in DOMAIN mem'[u].triggers : mem'[u].triggers[j].kind = "inbox" => j = 1
  BY <1>1 DEF ItemInv
<1> QED
  BY <1>1, <1>2, <1>3, ItemQuiet

\* A ticker goes on with triggers that hold no item.
LEMMA ItemDrop ==
  ASSUME Shape, ItemInv, NEW t \in Tickers, NEW m, NEW step,
         \A j \in DOMAIN m.triggers : m.triggers[j].kind # "inbox",
         mem' = [mem EXCEPT ![t] = m], pc' = [pc EXCEPT ![t] = step],
         \A i \in Items : inbox'[i] \in {"absent", "pending"} => inbox[i] \in {"absent", "pending"},
         DOMAIN runs' = DOMAIN runs, \A r \in DOMAIN runs : runs'[r].key = runs[r].key
  PROVE  ItemInv'
<1>1. \A u \in Tickers : IF u = t THEN mem'[u].triggers = m.triggers
                         ELSE mem'[u].triggers = mem[u].triggers /\ pc'[u] = pc[u]
  BY DEF Shape, MindsOK
<1>2. \A i \in Items : ~Holds(t, ItemKey(i))'
  BY <1>1, KeyKinds DEF Holds
<1>3. \A u \in Tickers, i \in Items : Holds(u, ItemKey(i))' => Holds(u, ItemKey(i))
  BY <1>1, <1>2 DEF Holds
<1>4. \A u \in Tickers : \A j \in DOMAIN mem'[u].triggers : mem'[u].triggers[j].kind = "inbox" => j = 1
  BY <1>1 DEF ItemInv
<1> QED
  BY <1>1, <1>2, <1>3, <1>4, ItemQuiet

\* The two ways to go on to the next trigger.
LEMMA ItemHandle ==
  ASSUME Shape, ItemInv, NEW t \in Tickers, NEW triggers, Handle(t, triggers),
         \A i \in Items : inbox'[i] \in {"absent", "pending"} => inbox[i] \in {"absent", "pending"},
         DOMAIN runs' = DOMAIN runs, \A r \in DOMAIN runs : runs'[r].key = runs[r].key,
         \/ triggers = <<>>
         \/ triggers = Tail(mem[t].triggers) /\ mem[t].triggers # <<>>
         \/ triggers = mem[t].triggers /\ pc[t] \notin Launched
  PROVE  ItemInv'
<1> DEFINE m == [Blank EXCEPT !.triggers = triggers]
           step == IF triggers = <<>> THEN "idle" ELSE "route"
<1>0. m.triggers = triggers
  BY DEF Blank
<1>1. mem' = [mem EXCEPT ![t] = m] /\ pc' = [pc EXCEPT ![t] = step]
  BY DEF Handle, Goto
<1>2. mem[t].triggers \in Seq(Keys)
  BY DEF Shape, MindsOK, Minds
<1>3. CASE triggers = <<>>
  <2>1. \A j \in DOMAIN m.triggers : m.triggers[j].kind # "inbox"
    BY <1>0, <1>3
  <2> HIDE DEF m, step
  <2> QED
    BY <1>1, <2>1, ItemDrop
<1>4. CASE triggers = Tail(mem[t].triggers) /\ mem[t].triggers # <<>>
  <2>1. \A j \in DOMAIN triggers : j + 1 \in DOMAIN mem[t].triggers /\ triggers[j] = mem[t].triggers[j + 1] /\ j + 1 # 1
    BY <1>2, <1>4
  <2>2. \A j \in DOMAIN m.triggers : m.triggers[j].kind # "inbox"
    BY <1>0, <2>1 DEF ItemInv
  <2> HIDE DEF m, step
  <2> QED
    BY <1>1, <2>2, ItemDrop
<1>5. CASE triggers = mem[t].triggers /\ pc[t] \notin Launched
  <2>1. m \in Minds
    BY <1>2, <1>5, BlankParts DEF Minds
  <2> HIDE DEF m, step
  <2> QED
    BY <1>0, <1>1, <1>5, <2>1, ItemSame
<1> QED
  BY <1>3, <1>4, <1>5

\* One ticker at a time takes an item out of the inbox.
LEMMA ItemClaim == ASSUME Shape, ItemInv, NEW t \in Tickers, Claim(t) PROVE ItemInv'
<1>0. /\ mem \in [Tickers -> Minds] /\ pc \in [Tickers -> Steps] /\ mem[t].triggers = <<>>
      /\ inbox \in [Items -> ItemStates]
  BY DEF Shape, MindsOK, Fits, FilesOK, Claim, At
<1>1. pc' = [pc EXCEPT ![t] = "due"] /\ runs' = runs
  BY DEF Claim, Goto
<1>2. CASE UNCHANGED <<inbox, mem>>
  <2>1. mem' = [mem EXCEPT ![t] = mem[t]] /\ mem[t] \in Minds /\ pc[t] \notin Launched
    BY <1>0, <1>2 DEF Claim, At, Launched
  <2> QED
    BY <1>1, <1>2, <2>1, ItemSame
<1>3. ASSUME NEW i \in Items, inbox[i] = "pending", inbox' = [inbox EXCEPT ![i] = "claimed"],
             mem' = [mem EXCEPT ![t].triggers = <<ItemKey(i)>>]
      PROVE  ItemInv'
  <2>1. \A u \in Tickers : IF u = t THEN mem'[u].triggers = <<ItemKey(i)>>
                           ELSE mem'[u].triggers = mem[u].triggers /\ pc'[u] = pc[u]
    BY <1>0, <1>1, <1>3 DEF Minds
  <2>2. \A key : Holds(t, key)' <=> key = ItemKey(i)
    BY <2>1 DEF Holds
  <2>3. \A u \in Tickers : u # t => \A key : Holds(u, key)' <=> Holds(u, key)
    BY <2>1 DEF Holds
  <2>4. /\ \A r \in DOMAIN runs : runs[r].key # ItemKey(i)
        /\ \A u \in Tickers : ~Holds(u, ItemKey(i))
    BY <1>3 DEF ItemInv
  <2>5. \A u \in Tickers : \A j \in DOMAIN mem'[u].triggers : mem'[u].triggers[j].kind = "inbox" => j = 1
    BY <2>1 DEF ItemInv
  <2>6. \A k \in Items : inbox'[k] \in {"absent", "pending"} => k # i /\ inbox[k] \in {"absent", "pending"}
    BY <1>0, <1>3
  <2>7. \A k \in Items : k # i => ItemKey(k) # ItemKey(i)
    BY KeyKinds
  <2>8. \A k \in Items : inbox'[k] \in {"absent", "pending"} =>
         /\ \A r \in DOMAIN runs : runs[r].key # ItemKey(k)
         /\ \A u \in Tickers : ~Holds(u, ItemKey(k))'
    BY <2>2, <2>3, <2>6, <2>7 DEF ItemInv
  <2>9. \A k \in Items, u, v \in Tickers : Holds(u, ItemKey(k))' /\ Holds(v, ItemKey(k))' => u = v
    BY <2>2, <2>3, <2>4, <2>7 DEF ItemInv
  <2>10. \A k \in Items, u \in Tickers, r \in DOMAIN runs :
           Holds(u, ItemKey(k))' /\ runs[r].key = ItemKey(k) => pc'[u] \in Launched
    BY <2>1, <2>2, <2>3, <2>4, <2>7 DEF ItemInv
  <2> QED
    BY <1>1, <2>5, <2>8, <2>9, <2>10 DEF ItemInv
<1> QED
  BY <1>2, <1>3 DEF Claim, Pending

\* A run is created for an item that has none.
LEMMA ItemCreate == ASSUME Shape, ItemInv, NEW t \in Tickers, Create(t) PROVE ItemInv'
<1> DEFINE key == Trigger(t)
<1>0. /\ mem \in [Tickers -> Minds] /\ pc \in [Tickers -> Steps] /\ runs \in Seq(Runs)
      /\ mem[t].triggers \in Seq(Keys) /\ mem[t].triggers # <<>>
  BY DEF Shape, MindsOK, Fits, FilesOK, Create, At, WithTrigger, Minds
<1>1. /\ pc[t] \notin Launched /\ pc' = [pc EXCEPT ![t] = "ledger"] /\ inbox' = inbox
      /\ runs' = Append(runs, [key |-> key, state |-> "live", spent |-> FALSE])
  BY DEF Create, At, Goto, Launched
<1>2. \A u \in Tickers : mem'[u].triggers = mem[u].triggers
  BY <1>0 DEF Create, Minds
<1>3. \A u \in Tickers : (\A k : Holds(u, k)' <=> Holds(u, k)) /\ (pc[u] \in Launched => pc'[u] \in Launched)
  BY <1>0, <1>1, <1>2 DEF Holds, Launched
<1>4. Holds(t, key) /\ pc'[t] \in Launched
  BY <1>0, <1>1 DEF Holds, Trigger, Launched
<1>5. /\ DOMAIN runs' = DOMAIN runs \cup {Len(runs) + 1}
      /\ runs'[Len(runs) + 1].key = key /\ \A r \in DOMAIN runs : runs'[r] = runs[r]
  BY <1>0, <1>1
<1> HIDE DEF key
<1>6. \A i \in Items : key = ItemKey(i) => /\ inbox[i] \notin {"absent", "pending"}
                                          /\ \A r \in DOMAIN runs : runs[r].key # ItemKey(i)
                                          /\ \A u \in Tickers : Holds(u, ItemKey(i)) => u = t
  BY <1>1, <1>4 DEF ItemInv
<1>7. \A u \in Tickers : \A j \in DOMAIN mem'[u].triggers : mem'[u].triggers[j].kind = "inbox" => j = 1
  BY <1>2 DEF ItemInv
<1>8. \A i \in Items : inbox'[i] \in {"absent", "pending"} =>
        /\ \A r \in DOMAIN runs' : runs'[r].key # ItemKey(i)
        /\ \A u \in Tickers : ~Holds(u, ItemKey(i))'
  BY <1>1, <1>3, <1>5, <1>6 DEF ItemInv
<1>9. \A i \in Items, u, v \in Tickers : Holds(u, ItemKey(i))' /\ Holds(v, ItemKey(i))' => u = v
  BY <1>3 DEF ItemInv
<1>10. \A i \in Items, q, r \in DOMAIN runs' :
         runs'[q].key = ItemKey(i) /\ runs'[r].key = ItemKey(i) => q = r
  BY <1>5, <1>6 DEF ItemInv
<1>11. \A i \in Items, u \in Tickers, r \in DOMAIN runs' :
         Holds(u, ItemKey(i))' /\ runs'[r].key = ItemKey(i) => pc'[u] \in Launched
  BY <1>3, <1>4, <1>5, <1>6 DEF ItemInv
<1> QED
  BY <1>7, <1>8, <1>9, <1>10, <1>11 DEF ItemInv

\* The drivers of a run leave it its key.
LEMMA EnvironmentKeys ==
  ASSUME Shape, Environment
  PROVE  DOMAIN runs' = DOMAIN runs /\ \A r \in DOMAIN runs : runs'[r].key = runs[r].key
<1>0. runs \in Seq(Runs)
  BY DEF Shape, FilesOK
<1>1. CASE Drive \/ Exhaust
  <2>1. PICK r, state : /\ r \in DOMAIN runs
                        /\ \/ runs' = [runs EXCEPT ![r].state = state]
                           \/ runs' = [runs EXCEPT ![r].spent = TRUE]
    BY <1>1 DEF Drive, Exhaust
  <2>2. runs[r] \in Runs
    BY <1>0, <2>1
  <2>3. /\ [runs[r] EXCEPT !.state = state].key = runs[r].key
        /\ [runs[r] EXCEPT !.spent = TRUE].key = runs[r].key
    BY <2>2 DEF Runs
  <2> QED
    BY <2>1, <2>3
<1>2. CASE ~Drive /\ ~Exhaust
  BY <1>2 DEF Environment, Enqueue, Cancel, Pause, Unpause, Kill, Unkill, OpenEdit, SaveEdit, Pass, Crash, files
<1> QED
  BY <1>1, <1>2

LEMMA ItemStep == Shape /\ ItemInv /\ [Next]_vars => ItemInv'
<1> SUFFICES ASSUME Shape, ItemInv, [Next]_vars PROVE ItemInv'
  OBVIOUS
<1>0. /\ mem \in [Tickers -> Minds] /\ runs \in Seq(Runs) /\ inbox \in [Items -> ItemStates]
  BY DEF Shape, MindsOK, FilesOK
<1> DEFINE Taken == \A i \in Items : inbox'[i] \in {"absent", "pending"} => inbox[i] \in {"absent", "pending"}
           Same == DOMAIN runs' = DOMAIN runs /\ \A r \in DOMAIN runs : runs'[r].key = runs[r].key
<1>1. ASSUME NEW t \in Tickers, Tick(t) \/ Load(t) \/ Evaluate(t) \/ Settle(t) \/ SaveCheckpoint(t)
      PROVE  ItemInv'
  <2>1. Taken /\ Same
    BY <1>1 DEF Tick, Load, Evaluate, Settle, SaveCheckpoint, files
  <2>2. CASE Tick(t)
    <3> DEFINE m == [Blank EXCEPT !.todo = ActiveRuns]
    <3>1. m.triggers = <<>> /\ mem' = [mem EXCEPT ![t] = m] /\ pc' = [pc EXCEPT ![t] = "observe"]
      BY <2>2 DEF Tick, Goto, Blank
    <3>2. \A j \in DOMAIN m.triggers : m.triggers[j].kind # "inbox"
      BY <3>1
    <3> HIDE DEF m
    <3> QED
      BY <2>1, <3>1, <3>2, ItemDrop
  <2>3. CASE ~Tick(t)
    <3>1. pc[t] \notin Launched /\ \E step : pc' = [pc EXCEPT ![t] = step]
      BY <1>1, <2>3 DEF Load, Evaluate, Settle, SaveCheckpoint, At, Goto, Launched
    <3>2. mem'[t] \in Minds
      BY <1>1, ObserveShape DEF Shape, MindsOK
    <3>3. mem'[t].triggers = mem[t].triggers /\ mem' = [mem EXCEPT ![t] = mem'[t]]
      <4>1. CASE Load(t)
        <5>1. PICK r : mem' = [mem EXCEPT ![t] = [mem[t] EXCEPT !.todo = @ \ {r}, !.run = r,
                                                               !.seen = runs[r].state, !.cp = cps[r]]]
          BY <4>1 DEF Load
        <5> DEFINE m == [mem[t] EXCEPT !.todo = @ \ {r}, !.run = r, !.seen = runs[r].state, !.cp = cps[r]]
        <5>2. m.triggers = mem[t].triggers
          BY <1>0 DEF Minds
        <5> HIDE DEF m
        <5>3. mem' = [mem EXCEPT ![t] = m]
          BY <5>1 DEF m
        <5> QED
          BY <1>0, <5>2, <5>3
      <4>2. CASE Evaluate(t)
        BY <1>0, <4>2 DEF Evaluate, Minds
      <4>3. CASE Settle(t) \/ SaveCheckpoint(t)
        BY <1>0, <4>3 DEF Settle, SaveCheckpoint
      <4> QED
        BY <1>1, <2>3, <4>1, <4>2, <4>3
    <3> QED
      BY <2>1, <3>1, <3>2, <3>3, ItemSame
  <2> QED
    BY <2>2, <2>3
<1>2. ASSUME NEW t \in Tickers, Persist(t) PROVE ItemInv'
  <2>1. Taken /\ Same
    BY <1>0, <1>2 DEF Persist, Runs
  <2>2. CASE At(t, "persist")
    <3> DEFINE m == [Blank EXCEPT !.todo = mem[t].todo]
    <3>1. m.triggers = <<>> /\ mem' = [mem EXCEPT ![t] = m] /\ pc' = [pc EXCEPT ![t] = "observe"]
      BY <1>2, <2>2 DEF Persist, Goto, Blank, At
    <3>2. \A j \in DOMAIN m.triggers : m.triggers[j].kind # "inbox"
      BY <3>1
    <3> HIDE DEF m
    <3> QED
      BY <2>1, <3>1, <3>2, ItemDrop
  <2>3. CASE pc[t] = "queue_persist"
    <3>1. /\ mem' = [mem EXCEPT ![t] = mem[t]] /\ mem[t] \in Minds /\ pc[t] \notin Launched
          /\ pc' = [pc EXCEPT ![t] = "queue_complete"]
      BY <1>0, <1>2, <2>3 DEF Persist, Goto, At, Launched
    <3> QED
      BY <2>1, <3>1, ItemSame
  <2>4. CASE pc[t] = "launch_persist"
    <3>1. /\ mem' = [mem EXCEPT ![t] = mem[t]] /\ mem[t] \in Minds /\ "dedupe" \in Launched
          /\ pc' = [pc EXCEPT ![t] = "dedupe"]
      BY <1>0, <1>2, <2>4 DEF Persist, Goto, At, Launched
    <3> QED
      BY <2>1, <3>1, ItemSame
  <2> QED
    BY <1>2, <2>2, <2>3, <2>4 DEF Persist, At
<1>3. ASSUME NEW t \in Tickers, Poll(t) \/ Claim(t) \/ Due(t) \/ Fire(t) \/ Fired(t) PROVE ItemInv'
  <2>1. ~Claim(t) => Taken /\ Same
    BY <1>3 DEF Poll, Due, Fire, Fired, files
  <2>2. CASE Poll(t)
    <3>1. CASE Handle(t, <<>>)
      BY <2>1, <2>2, <3>1, ItemHandle, ItemClaim
    <3>2. CASE ~Handle(t, <<>>)
      <4> DEFINE m == [Blank EXCEPT !.now = clock]
      <4>1. m.triggers = <<>> /\ mem' = [mem EXCEPT ![t] = m] /\ pc' = [pc EXCEPT ![t] = "claim"]
        BY <2>2, <3>2 DEF Poll, Goto, Blank
      <4>2. (\A j \in DOMAIN m.triggers : m.triggers[j].kind # "inbox") /\ ~Claim(t)
        BY <2>2, <4>1 DEF Claim, Poll, At
      <4> HIDE DEF m
      <4> QED
        BY <2>1, <4>1, <4>2, ItemDrop
    <3> QED
      BY <3>1, <3>2
  <2>3. CASE Claim(t)
    BY <2>3, ItemClaim
  <2>4. CASE Due(t) /\ IsDue(schedule, mem[t].now)
    <3> DEFINE key == BucketKey(mem[t].now)
    <3>1. /\ mem' = [mem EXCEPT ![t].triggers = Append(@, key)] /\ pc' = [pc EXCEPT ![t] = "fire"]
          /\ inbox' = inbox /\ runs' = runs /\ pc[t] \notin Launched
      BY <2>4 DEF Due, Goto, At, files, Launched
    <3>2. mem[t].triggers \in Seq(Keys) /\ mem[t].now \in Nat
      BY <1>0 DEF Minds
    <3>3. key.kind = "schedule" /\ \A i \in Items : key # ItemKey(i)
      BY <3>2, KeyKinds
    <3> HIDE DEF key
    <3>4. \A u \in Tickers : IF u = t THEN mem'[u].triggers = Append(mem[u].triggers, key)
                             ELSE mem'[u].triggers = mem[u].triggers /\ pc'[u] = pc[u]
      BY <1>0, <3>1 DEF Shape, MindsOK, Minds
    <3>5. \A j \in DOMAIN Append(mem[t].triggers, key) :
            \/ Append(mem[t].triggers, key)[j] = key
            \/ j \in DOMAIN mem[t].triggers /\ Append(mem[t].triggers, key)[j] = mem[t].triggers[j]
      BY <3>2
    <3>6. \A u \in Tickers, i \in Items : Holds(u, ItemKey(i))' => Holds(u, ItemKey(i))
      BY <3>3, <3>4, <3>5 DEF Holds
    <3>7. \A u \in Tickers : \A j \in DOMAIN mem'[u].triggers : mem'[u].triggers[j].kind = "inbox" => j = 1
      <4>1. \A j \in DOMAIN Append(mem[t].triggers, key) :
              Append(mem[t].triggers, key)[j].kind = "inbox" => j = 1
        BY <3>3, <3>5 DEF ItemInv
      <4> QED
        BY <3>4, <4>1 DEF ItemInv
    <3> QED
      BY <3>1, <3>4, <3>6, <3>7, ItemQuiet
  <2>5. CASE Due(t) /\ ~IsDue(schedule, mem[t].now)
    <3>1. Handle(t, mem[t].triggers) /\ pc[t] \notin Launched /\ Taken /\ Same
      BY <2>5 DEF Due, At, Launched, files
    <3> QED
      BY <3>1, ItemHandle
  <2>6. CASE Fire(t)
    <3> DEFINE m == [mem[t] EXCEPT !.held = [schedule EXCEPT !.fired = mem[t].now]]
    <3>1. mem' = [mem EXCEPT ![t] = m] /\ pc' = [pc EXCEPT ![t] = "fired"] /\ pc[t] \notin Launched
      BY <1>0, <2>6 DEF Fire, Goto, At, Launched
    <3>2. m.triggers = mem[t].triggers
      BY <1>0 DEF Minds
    <3>3. m \in Minds
      <4>1. mem'[t] \in Minds
        BY <2>6, PollShape DEF Shape, MindsOK
      <4> QED
        BY <1>0, <3>1, <4>1
    <3>4. Taken /\ Same
      BY <2>6 DEF Fire, files
    <3> HIDE DEF m
    <3> QED
      BY <3>1, <3>2, <3>3, <3>4, ItemSame
  <2>7. CASE Fired(t)
    <3>1. Handle(t, mem[t].triggers) /\ pc[t] \notin Launched /\ Taken /\ Same
      BY <2>7 DEF Fired, At, Launched
    <3> QED
      BY <3>1, ItemHandle
  <2> QED
    BY <1>3, <2>2, <2>3, <2>4, <2>5, <2>6, <2>7
<1>4. ASSUME NEW t \in Tickers,
             Route(t) \/ QueueSave(t) \/ QueueComplete(t) \/ Accept(t) \/ Budget(t) \/ Complete(t)
      PROVE  ItemInv'
  <2>1. Same /\ mem[t].triggers # <<>>
    BY <1>4 DEF Route, QueueSave, QueueComplete, Accept, Budget, Complete, files, At, Shape, MindsOK, Fits, WithTrigger
  <2>2. Taken
    <3>1. CASE QueueComplete(t) \/ Complete(t)
      BY <1>0, <3>1 DEF QueueComplete, Complete, Completed
    <3>2. CASE Route(t) \/ QueueSave(t) \/ Accept(t) \/ Budget(t)
      BY <3>2 DEF Route, QueueSave, Accept, Budget, files
    <3> QED
      BY <1>4, <3>1, <3>2
  <2>3. CASE NextTrigger(t)
    BY <2>1, <2>2, <2>3, ItemHandle DEF NextTrigger
  <2>4. CASE ~NextTrigger(t)
    <3>1. pc[t] \notin Launched /\ \E step : pc' = [pc EXCEPT ![t] = step]
      BY <1>4, <2>4 DEF Route, QueueSave, QueueComplete, Accept, Budget, Complete, At, Goto, Launched
    <3>2. mem'[t] \in Minds
      BY <1>4, InterruptShape DEF Shape, MindsOK
    <3>3. mem'[t].triggers = mem[t].triggers /\ mem' = [mem EXCEPT ![t] = mem'[t]]
      <4>1. CASE Route(t)
        <5>1. \/ UNCHANGED mem
              \/ \E r \in ActiveRuns, decision \in {"queue", "stay"} :
                   mem' = [mem EXCEPT ![t].run = r, ![t].cp = cps[r], ![t].seen = runs[r].state,
                                      ![t].next = decision]
          BY <2>4, <4>1 DEF Route, Decisions
        <5>2. ASSUME NEW r, NEW decision,
                     mem' = [mem EXCEPT ![t].run = r, ![t].cp = cps[r], ![t].seen = runs[r].state,
                                        ![t].next = decision]
              PROVE  mem'[t].triggers = mem[t].triggers /\ mem' = [mem EXCEPT ![t] = mem'[t]]
          <6> DEFINE m == [mem[t] EXCEPT !.run = r, !.cp = cps[r], !.seen = runs[r].state, !.next = decision]
          <6>1. mem' = [mem EXCEPT ![t] = m]
            BY <1>0, <5>2
          <6>2. m.triggers = mem[t].triggers
            BY <1>0 DEF Minds
          <6> HIDE DEF m
          <6> QED
            BY <1>0, <6>1, <6>2
        <5> QED
          BY <1>0, <5>1, <5>2
      <4>2. CASE QueueComplete(t)
        BY <1>0, <2>4, <4>2 DEF QueueComplete, Blank
      <4>3. CASE QueueSave(t) \/ Accept(t) \/ Budget(t)
        BY <1>0, <2>4, <4>3 DEF QueueSave, Accept, Budget
      <4> QED
        BY <1>4, <2>4, <4>1, <4>2, <4>3 DEF Complete
    <3> QED
      BY <2>1, <2>2, <3>1, <3>2, <3>3, ItemSame
  <2> QED
    BY <2>3, <2>4
<1>5. ASSUME NEW t \in Tickers, Account(t) \/ Checkpoint(t) \/ Dedupe(t) PROVE ItemInv'
  <2>1. /\ Taken /\ Same /\ mem' = [mem EXCEPT ![t] = mem[t]] /\ mem[t] \in Minds
        /\ \E step \in Launched : pc' = [pc EXCEPT ![t] = step]
    BY <1>0, <1>5 DEF Account, Checkpoint, Dedupe, Goto, Launched
  <2> QED
    BY <2>1, ItemSame
<1>6. ASSUME UNCHANGED <<pc, mem>>, Taken, Same PROVE ItemInv'
  <2>1. \A u \in Tickers : \A key : Holds(u, key)' <=> Holds(u, key)
    BY <1>6 DEF Holds
  <2> QED
    BY <1>6, <2>1, ItemQuiet DEF ItemInv
<1>7. CASE Environment
  <2>1. CASE Drive \/ Exhaust
    <3>1. Taken /\ UNCHANGED <<pc, mem>>
      BY <2>1 DEF Drive, Exhaust, outside
    <3>2. Same
      BY <1>7, EnvironmentKeys
    <3> QED
      BY <1>6, <3>1, <3>2
  <2>2. CASE Enqueue \/ Cancel
    <3>1. Taken /\ Same /\ UNCHANGED <<pc, mem>>
      BY <1>0, <2>2 DEF Enqueue, Cancel, outside
    <3> QED
      BY <1>6, <3>1
  <2>3. CASE Pause \/ Unpause \/ Kill \/ Unkill \/ OpenEdit \/ SaveEdit \/ Pass
    <3>1. Taken /\ Same /\ UNCHANGED <<pc, mem>>
      BY <2>3 DEF Pause, Unpause, Kill, Unkill, OpenEdit, SaveEdit, Pass, files, outside
    <3> QED
      BY <1>6, <3>1
  <2>4. CASE Crash
    <3>1. Taken /\ Same /\ \A u \in Tickers : mem'[u].triggers = <<>>
      BY <2>4 DEF Crash, files, Blank
    <3>2. \A u \in Tickers : \A key : ~Holds(u, key)'
      BY <3>1 DEF Holds
    <3> QED
      BY <3>1, <3>2, ItemQuiet
  <2> QED
    BY <1>7, <2>1, <2>2, <2>3, <2>4 DEF Environment
<1>8. CASE UNCHANGED vars
  BY <1>6, <1>8 DEF vars
<1> QED
  BY <1>1, <1>2, <1>3, <1>4, <1>5, <1>7, <1>8, ItemCreate DEF Next, Step

\* A set in which no two elements differ has one at most.
LEMMA OneAtMost ==
  ASSUME NEW S, \A x, y \in S : x = y
  PROVE  Cardinality(S) <= 1
<1>1. CASE S = {}
  BY <1>1, FS_EmptySet
<1>2. ASSUME NEW x \in S PROVE Cardinality(S) <= 1
  <2>1. S = {x}
    OBVIOUS
  <2> QED
    BY <2>1, FS_Singleton
<1> QED
  BY <1>1, <1>2

LEMMA ItemKeeps == ItemInv => ItemSpent
<1> SUFFICES ASSUME ItemInv, NEW i \in Items
             PROVE  /\ Cardinality(RunsOf(ItemKey(i))) <= 1
                    /\ Cardinality(HeldBy(ItemKey(i))) <= 1
                    /\ inbox[i] \in {"absent", "pending"} =>
                         RunsOf(ItemKey(i)) = {} /\ HeldBy(ItemKey(i)) = {}
  BY DEF ItemSpent
<1>1. \A q, r \in RunsOf(ItemKey(i)) : q = r
  BY DEF ItemInv, RunsOf
<1>2. \A t, u \in HeldBy(ItemKey(i)) : t = u
  BY DEF ItemInv, HeldBy, Holds
<1>3. inbox[i] \in {"absent", "pending"} => RunsOf(ItemKey(i)) = {} /\ HeldBy(ItemKey(i)) = {}
  BY DEF ItemInv, RunsOf, HeldBy, Holds
<1> QED
  BY <1>1, <1>2, <1>3, OneAtMost

\* An inbox item starts at most one run, and none while it can be claimed, with
\* any number of ticks in progress, cancellations and restarts
\* (claim_inbox_item, complete_inbox_item).
THEOREM ItemSpentHolds == Spec => []ItemSpent
<1>1. Init => ItemInv
  BY DEF Init, ItemInv, Holds, Blank
<1>2. Spec => [](Shape /\ ItemInv)
  BY <1>1, ShapeInit, ShapeStep, ItemStep, PTL DEF Spec
<1> QED
  BY <1>2, ItemKeeps, PTL

-----------------------------------------------------------------------------
\* With one ticker no checkpoint that is final is written over.
FinalKept == \A r \in DOMAIN cps : cps[r].status \in FinalStatus => cps'[r] = cps[r]

\* A step that writes no checkpoint and takes up no run.
LEMMA FinalCalm ==
  ASSUME FinalInv, cps' = cps, mem'[Loop].todo \subseteq mem[Loop].todo,
         pc'[Loop] \notin {"evaluate", "settle", "save", "queue", "ledger", "checkpoint"}
  PROVE  FinalInv' /\ FinalKept
BY DEF FinalInv, FinalKept, ActiveRuns

LEMMA FinalSame ==
  ASSUME FinalInv, UNCHANGED <<cps, mem, pc>>
  PROVE  FinalInv' /\ FinalKept
BY DEF FinalInv, FinalKept, ActiveRuns

LEMMA BlankTodo == \A x, y : /\ [Blank EXCEPT !.triggers = x].todo = {}
                             /\ [Blank EXCEPT !.now = y].todo = {}
                             /\ [Blank EXCEPT !.todo = x].todo = x
BY DEF Blank

\* The steps that observe a run.
LEMMA FinalObserve ==
  ASSUME Shape, FinalInv,
         Tick(Loop) \/ Load(Loop) \/ Evaluate(Loop) \/ Settle(Loop) \/ SaveCheckpoint(Loop) \/ Persist(Loop)
  PROVE  FinalInv' /\ FinalKept
<1> DEFINE now == mem[Loop]
<1>0. /\ mem \in [Tickers -> Minds] /\ pc \in [Tickers -> Steps] /\ Loop \in Tickers
      /\ now \in Minds /\ cps \in Seq(Checkpoints)
  BY TickersAssumption DEF Shape, MindsOK, FilesOK
<1>1. CASE Tick(Loop)
  <2>1. mem'[Loop].todo = ActiveRuns /\ pc'[Loop] = "observe" /\ cps' = cps
    BY <1>0, <1>1, BlankTodo DEF Tick, Goto, files
  <2> QED
    BY <2>1 DEF FinalInv, FinalKept, ActiveRuns
<1>2. CASE Load(Loop)
  <2>1. PICK r \in now.todo : mem' = [mem EXCEPT ![Loop].todo = @ \ {r}, ![Loop].run = r,
                                                 ![Loop].seen = runs[r].state, ![Loop].cp = cps[r]]
    BY <1>2 DEF Load
  <2>2. /\ mem'[Loop].todo = now.todo \ {r} /\ mem'[Loop].run = r /\ mem'[Loop].cp = cps[r]
        /\ pc'[Loop] = "evaluate" /\ cps' = cps
    BY <1>0, <1>2, <2>1 DEF Load, Goto, files, Minds
  <2> QED
    BY <2>2 DEF FinalInv, FinalKept, ActiveRuns
<1>3. CASE Evaluate(Loop)
  <2>1. PICK status : mem' = [mem EXCEPT ![Loop].next = status]
    BY <1>3 DEF Evaluate
  <2>2. /\ mem'[Loop].todo = now.todo /\ mem'[Loop].run = now.run /\ mem'[Loop].cp = now.cp
    BY <1>0, <2>1 DEF Minds
  <2>3. pc[Loop] = "evaluate" /\ pc'[Loop] \in {"settle", "save"} /\ cps' = cps
    BY <1>0, <1>3 DEF Evaluate, At, Goto, files
  <2> QED
    BY <2>2, <2>3 DEF FinalInv, FinalKept, ActiveRuns
<1>4. CASE Settle(Loop)
  <2>1. pc[Loop] = "settle" /\ pc'[Loop] = "save" /\ cps' = cps /\ mem' = mem
    BY <1>0, <1>4 DEF Settle, At, Goto
  <2> QED
    BY <2>1 DEF FinalInv, FinalKept, ActiveRuns
<1>5. CASE SaveCheckpoint(Loop)
  <2>1. PICK cp : cps' = [cps EXCEPT ![now.run] = cp]
    BY <1>5 DEF SaveCheckpoint
  <2>2. pc[Loop] = "save" /\ pc'[Loop] = "persist" /\ mem' = mem
    BY <1>0, <1>5 DEF SaveCheckpoint, At, Goto
  <2>3. now.run \in ActiveRuns /\ now.todo \subseteq ActiveRuns \ {now.run}
    BY <2>2 DEF FinalInv
  <2>4. \A r \in DOMAIN cps : r # now.run => r \in DOMAIN cps' /\ cps'[r] = cps[r]
    BY <1>0, <2>1
  <2>5. now.todo \subseteq ActiveRuns'
    BY <2>3, <2>4 DEF ActiveRuns
  <2>6. FinalKept
    BY <2>3, <2>4 DEF FinalKept, ActiveRuns, ActiveStatus, FinalStatus
  <2> QED
    BY <2>2, <2>5, <2>6 DEF FinalInv
<1>6. CASE Persist(Loop)
  <2>1. mem'[Loop].todo = now.todo /\ cps' = cps
    <3>1. cps' = cps
      BY <1>6 DEF Persist
    <3>2. UNCHANGED mem \/ mem' = [mem EXCEPT ![Loop] = [Blank EXCEPT !.todo = now.todo]]
      BY <1>6 DEF Persist, At
    <3> QED
      BY <1>0, <3>1, <3>2, BlankTodo
  <2>2. pc'[Loop] \in {"observe", "queue_complete", "dedupe"}
    BY <1>0, <1>6 DEF Persist, At, Goto
  <2> QED
    BY <2>1, <2>2, FinalCalm
<1> QED
  BY <1>1, <1>2, <1>3, <1>4, <1>5, <1>6

\* The steps that poll, and those that decide about a trigger.
LEMMA FinalPoll ==
  ASSUME Shape, FinalInv,
         \/ Poll(Loop) \/ Claim(Loop) \/ Due(Loop) \/ Fire(Loop) \/ Fired(Loop)
         \/ Accept(Loop) \/ Budget(Loop) \/ Dedupe(Loop) \/ Complete(Loop) \/ QueueComplete(Loop)
  PROVE  FinalInv' /\ FinalKept
<1>0. /\ mem \in [Tickers -> Minds] /\ pc \in [Tickers -> Steps] /\ Loop \in Tickers
      /\ mem[Loop] \in Minds
  BY TickersAssumption DEF Shape, MindsOK
<1>1. \A triggers : Handle(Loop, triggers) => /\ mem'[Loop].todo = {}
                                              /\ pc'[Loop] \in {"idle", "route"}
  BY <1>0, BlankTodo DEF Handle, Goto
<1>2. mem'[Loop].todo \subseteq mem[Loop].todo
  <2>1. CASE Poll(Loop) \/ Due(Loop) \/ Fired(Loop)
    <3>1. CASE Poll(Loop)
      BY <1>0, <1>1, <3>1, BlankTodo DEF Poll
    <3>2. CASE Due(Loop) /\ IsDue(schedule, mem[Loop].now)
      BY <1>0, <3>2 DEF Due, Minds
    <3>3. CASE Due(Loop) /\ ~IsDue(schedule, mem[Loop].now)
      BY <1>1, <3>3 DEF Due
    <3>4. CASE Fired(Loop)
      BY <1>1, <3>4 DEF Fired
    <3> QED
      BY <2>1, <3>1, <3>2, <3>3, <3>4
  <2>2. CASE Claim(Loop) \/ Fire(Loop)
    <3>1. CASE Claim(Loop)
      <4>1. mem' = mem \/ \E i : mem' = [mem EXCEPT ![Loop] = [mem[Loop] EXCEPT !.triggers = <<ItemKey(i)>>]]
        BY <3>1 DEF Claim
      <4>2. \A i : [mem[Loop] EXCEPT !.triggers = <<ItemKey(i)>>].todo = mem[Loop].todo
        BY <1>0 DEF Minds
      <4>3. mem'[Loop] = mem[Loop] \/ \E i : mem'[Loop] = [mem[Loop] EXCEPT !.triggers = <<ItemKey(i)>>]
        BY <1>0, <4>1
      <4> QED
        BY <4>2, <4>3
    <3>2. CASE Fire(Loop)
      BY <1>0, <3>2, SMTT(60) DEF Fire, Minds
    <3> QED
      BY <2>2, <3>1, <3>2
  <2>3. CASE Accept(Loop) \/ Budget(Loop) \/ Dedupe(Loop) \/ Complete(Loop) \/ QueueComplete(Loop)
    BY <1>0, <1>1, <2>3, BlankTodo DEF Accept, Budget, Dedupe, Complete, QueueComplete, NextTrigger
  <2> QED
    BY <2>1, <2>2, <2>3
<1>3. pc'[Loop] \in {"idle", "route", "claim", "due", "fire", "fired", "budget", "create", "complete", "accept"}
  <2>1. CASE Poll(Loop) \/ Due(Loop) \/ Fired(Loop) \/ Claim(Loop) \/ Fire(Loop)
    BY <1>0, <1>1, <2>1 DEF Poll, Due, Fired, Claim, Fire, Goto
  <2>2. CASE Accept(Loop) \/ Budget(Loop) \/ Dedupe(Loop) \/ Complete(Loop) \/ QueueComplete(Loop)
    BY <1>0, <1>1, <2>2 DEF Accept, Budget, Dedupe, Complete, QueueComplete, NextTrigger, Goto
  <2> QED
    BY <2>1, <2>2
<1>4. cps' = cps
  BY DEF Poll, Claim, Due, Fire, Fired, Accept, Budget, Dedupe, Complete, QueueComplete, files
<1> QED
  BY <1>2, <1>3, <1>4, FinalCalm

\* The steps that interrupt a run or launch one.
LEMMA FinalLaunch ==
  ASSUME Shape, FinalInv,
         Route(Loop) \/ QueueSave(Loop) \/ Create(Loop) \/ Account(Loop) \/ Checkpoint(Loop)
  PROVE  FinalInv' /\ FinalKept
<1> DEFINE now == mem[Loop]
<1>0. /\ mem \in [Tickers -> Minds] /\ pc \in [Tickers -> Steps] /\ Loop \in Tickers
      /\ now \in Minds /\ cps \in Seq(Checkpoints) /\ Len(cps) = Len(runs) /\ now.todo \subseteq ActiveRuns
  BY TickersAssumption DEF Shape, MindsOK, FilesOK, FinalInv
<1>1. CASE Route(Loop)
  <2>1. cps' = cps
    BY <1>1 DEF Route, files
  <2>2. CASE Goto(Loop, "accept") /\ UNCHANGED mem
    BY <1>0, <2>1, <2>2, FinalCalm DEF Goto
  <2>3. CASE NextTrigger(Loop)
    <3>1. mem'[Loop].todo = {} /\ pc'[Loop] \in {"idle", "route"}
      BY <1>0, <2>3, BlankTodo DEF NextTrigger, Handle, Goto
    <3> QED
      BY <2>1, <3>1, FinalCalm
  <2>4. ASSUME NEW r \in ActiveRuns, NEW decision, Goto(Loop, "queue"),
               mem' = [mem EXCEPT ![Loop].run = r, ![Loop].cp = cps[r], ![Loop].seen = runs[r].state,
                                  ![Loop].next = decision]
        PROVE  FinalInv' /\ FinalKept
    <3>1. mem'[Loop].todo = now.todo /\ mem'[Loop].run = r /\ mem'[Loop].cp = cps[r] /\ pc'[Loop] = "queue"
      BY <1>0, <2>4 DEF Goto, Minds
    <3> QED
      BY <1>0, <2>1, <3>1 DEF FinalInv, FinalKept, ActiveRuns
  <2> QED
    BY <1>1, <2>2, <2>3, <2>4 DEF Route
<1>2. CASE QueueSave(Loop)
  <2>1. PICK kept : cps' = [cps EXCEPT ![now.run] = [now.cp EXCEPT !.queued = kept]]
    BY <1>2 DEF QueueSave
  <2>2. pc[Loop] = "queue" /\ pc'[Loop] = "queue_persist" /\ mem' = mem
    BY <1>0, <1>2 DEF QueueSave, At, Goto
  <2>3. now.run \in ActiveRuns /\ now.cp = cps[now.run] /\ now.run \in DOMAIN cps
    BY <2>2 DEF FinalInv, ActiveRuns
  <2>4. /\ DOMAIN cps' = DOMAIN cps /\ cps'[now.run].status = cps[now.run].status
        /\ \A r \in DOMAIN cps : r # now.run => cps'[r] = cps[r]
    <3>1. now.cp \in Checkpoints
      BY <1>0 DEF Minds
    <3>2. [now.cp EXCEPT !.queued = kept].status = now.cp.status
      BY <3>1 DEF Checkpoints
    <3> QED
      BY <1>0, <2>1, <2>3, <3>2
  <2>5. FinalKept
    BY <2>3, <2>4 DEF FinalKept, ActiveRuns, ActiveStatus, FinalStatus
  <2>6. ActiveRuns' = ActiveRuns
    BY <2>4 DEF ActiveRuns
  <2> QED
    BY <1>0, <2>2, <2>5, <2>6 DEF FinalInv
<1>3. CASE Create(Loop)
  <2>1. cps' = Append(cps, Unwritten)
    BY <1>3 DEF Create
  <2>2. /\ DOMAIN cps' = DOMAIN cps \cup {Len(cps) + 1} /\ cps'[Len(cps) + 1] = Unwritten
        /\ \A r \in DOMAIN cps : cps'[r] = cps[r]
    BY <1>0, <2>1
  <2>3. Unwritten.status = "none"
    BY DEF Unwritten
  <2>4. ActiveRuns \subseteq ActiveRuns'
    BY <2>2 DEF ActiveRuns
  <2>5. mem'[Loop].todo = now.todo /\ mem'[Loop].run = Len(cps) + 1 /\ pc'[Loop] = "ledger"
    BY <1>0, <1>3 DEF Create, Goto, Minds
  <2> QED
    BY <1>0, <2>2, <2>3, <2>4, <2>5 DEF FinalInv, FinalKept
<1>4. CASE Account(Loop)
  <2>1. pc[Loop] = "ledger" /\ pc'[Loop] = "checkpoint" /\ mem' = mem /\ cps' = cps
    BY <1>0, <1>4 DEF Account, At, Goto
  <2> QED
    BY <2>1 DEF FinalInv, FinalKept, ActiveRuns
<1>5. CASE Checkpoint(Loop)
  <2>1. pc[Loop] = "checkpoint" /\ pc'[Loop] = "launch_persist" /\ mem' = mem
    BY <1>0, <1>5 DEF Checkpoint, At, Goto
  <2>2. cps' = [cps EXCEPT ![now.run] = [status |-> "launched", queued |-> {}]]
    BY <1>5 DEF Checkpoint
  <2>3. cps[now.run].status = "none"
    BY <2>1 DEF FinalInv
  <2>4. DOMAIN cps' = DOMAIN cps /\ \A r \in DOMAIN cps : r # now.run => cps'[r] = cps[r]
    BY <1>0, <2>2
  <2>5. ActiveRuns \subseteq ActiveRuns'
    BY <2>3, <2>4 DEF ActiveRuns, ActiveStatus
  <2>6. FinalKept
    BY <2>3, <2>4 DEF FinalKept, FinalStatus
  <2> QED
    BY <1>0, <2>1, <2>5, <2>6 DEF FinalInv
<1> QED
  BY <1>1, <1>2, <1>3, <1>4, <1>5

LEMMA FinalStep ==
  ASSUME Tickers = {Loop}
  PROVE  Shape /\ FinalInv /\ [Next]_vars => FinalInv' /\ FinalKept
<1> SUFFICES ASSUME Shape, FinalInv, [Next]_vars PROVE FinalInv' /\ FinalKept
  OBVIOUS
<1>1. ASSUME Tick(Loop) \/ Step(Loop) PROVE FinalInv' /\ FinalKept
  BY <1>1, FinalObserve, FinalPoll, FinalLaunch DEF Step
<1>2. CASE Environment
  <2>1. CASE Crash
    <3>1. cps' = cps /\ mem'[Loop].todo = {} /\ pc'[Loop] = "idle"
      BY <2>1, TickersAssumption DEF Crash, files, Blank
    <3> QED
      BY <3>1, FinalCalm
  <2>2. CASE ~Crash
    <3>1. UNCHANGED <<cps, mem, pc>>
      BY <1>2, <2>2 DEF Environment, Enqueue, Cancel, Pause, Unpause, Kill, Unkill, OpenEdit, SaveEdit,
                        Drive, Exhaust, Pass, files, outside
    <3> QED
      BY <3>1, FinalSame
  <2> QED
    BY <2>1, <2>2
<1>3. CASE UNCHANGED vars
  BY <1>3, FinalSame DEF vars
<1> QED
  BY <1>1, <1>2, <1>3 DEF Next

LEMMA FinalInit == Init => FinalInv
BY TickersAssumption DEF Init, FinalInv, Blank

\* With one ticker, a run recorded as completed or stopped is not taken up
\* again, over any number of restarts (observe_run, launch_run).
THEOREM FinalHolds == Tickers = {Loop} => (Spec => FinalStays)
<1> SUFFICES ASSUME Tickers = {Loop} PROVE Spec => FinalStays
  OBVIOUS
<1>1. Shape /\ FinalInv /\ [Next]_vars => Shape' /\ FinalInv' /\ [FinalKept]_vars
  BY ShapeStep, FinalStep
<1> QED
  BY <1>1, ShapeInit, FinalInit, PTL DEF Spec, FinalStays, FinalKept

-----------------------------------------------------------------------------
\* With one ticker the ledger tracks the checkpoints.
LEMMA ActiveFinite ==
  ASSUME Shape
  PROVE  /\ IsFiniteSet(ActiveRuns) /\ Cardinality(ActiveRuns) \in Nat
         /\ ledger.active \in Nat /\ ledger.launched \in Nat /\ crashes \in Nat /\ Len(runs) \in Nat
<1>1. ActiveRuns \subseteq 1..Len(cps) /\ Len(cps) \in Nat /\ Len(runs) \in Nat
  BY DEF Shape, FilesOK, ActiveRuns
<1>2. IsFiniteSet(1..Len(cps))
  BY <1>1, FS_Interval
<1>3. IsFiniteSet(ActiveRuns) /\ Cardinality(ActiveRuns) \in Nat
  BY <1>1, <1>2, FS_Subset, FS_CardinalityType
<1>4. ledger.active \in Nat /\ ledger.launched \in Nat
  BY DEF Shape, FilesOK
<1>5. crashes \in Nat
  BY BoundAssumption DEF Shape, OutsideOK
<1> QED
  BY <1>1, <1>3, <1>4, <1>5

LEMMA LedgerCalm ==
  ASSUME LedgerInv, ActiveRuns' = ActiveRuns, UNCHANGED <<ledger, crashes>>, Len(runs') = Len(runs),
         pc[Loop] \notin {"save", "checkpoint", "ledger"},
         pc'[Loop] \notin {"settle", "save", "checkpoint", "ledger"},
         pc'[Loop] = "create" => Affordable
  PROVE  LedgerInv'
<1>1. Ahead = 0 /\ Ahead' = 0
  BY DEF Ahead, Booked, Settled
<1> QED
  BY <1>1 DEF LedgerInv, Affordable

\* Which steps leave the active runs as they are.
LEMMA ActiveSame == ASSUME cps' = cps PROVE ActiveRuns' = ActiveRuns
BY DEF ActiveRuns

LEMMA LedgerStep ==
  ASSUME Shape, FinalInv, LedgerInv, Tick(Loop) \/ Step(Loop) \/ Environment
  PROVE  LedgerInv'
<1> DEFINE now == mem[Loop]
           n == Cardinality(ActiveRuns)
<1>0. /\ mem \in [Tickers -> Minds] /\ pc \in [Tickers -> Steps] /\ Loop \in Tickers
      /\ now \in Minds /\ cps \in Seq(Checkpoints) /\ Len(cps) = Len(runs) /\ runs \in Seq(Runs)
  BY TickersAssumption DEF Shape, MindsOK, FilesOK
<1>a. /\ IsFiniteSet(ActiveRuns) /\ n \in Nat /\ ledger.active \in Nat /\ ledger.launched \in Nat
      /\ crashes \in Nat /\ Len(runs) \in Nat /\ MaxRuns \in Nat /\ MaxParallel \in Nat
  BY ActiveFinite, BudgetAssumption
<1>h. \A triggers : Handle(Loop, triggers) => pc'[Loop] \in {"idle", "route"}
  BY <1>0 DEF Handle, Goto
<1>1. CASE Tick(Loop) \/ Load(Loop) \/ Persist(Loop)
  <2>1. cps' = cps /\ UNCHANGED <<ledger, crashes>>
    BY <1>1 DEF Tick, Load, Persist, files
  <2>2. Len(runs') = Len(runs)
    <3>1. CASE Tick(Loop) \/ Load(Loop)
      BY <3>1 DEF Tick, Load, files
    <3>2. CASE Persist(Loop)
      <4>1. runs' = [runs EXCEPT ![now.run].state = now.seen]
        BY <3>2 DEF Persist
      <4> HIDE DEF now
      <4> QED
        BY <1>0, <4>1
    <3> QED
      BY <1>1, <3>1, <3>2
  <2>3. /\ pc[Loop] \notin {"save", "checkpoint", "ledger"}
        /\ pc'[Loop] \notin {"settle", "save", "checkpoint", "ledger", "create"}
    BY <1>0, <1>1 DEF Tick, Load, Persist, At, Goto
  <2> QED
    BY <2>1, <2>2, <2>3, LedgerCalm, ActiveSame
<1>2. CASE Poll(Loop) \/ Claim(Loop) \/ Due(Loop) \/ Fire(Loop) \/ Fired(Loop)
  <2>1. cps' = cps /\ UNCHANGED <<ledger, crashes, runs>>
    BY <1>2 DEF Poll, Claim, Due, Fire, Fired, files
  <2>2. pc[Loop] \notin {"save", "checkpoint", "ledger"}
    BY <1>2 DEF Poll, Claim, Due, Fire, Fired, At
  <2>3. pc'[Loop] \notin {"settle", "save", "checkpoint", "ledger", "create"}
    BY <1>0, <1>2, <1>h DEF Poll, Claim, Due, Fire, Fired, Goto
  <2> QED
    BY <2>1, <2>2, <2>3, LedgerCalm, ActiveSame
<1>3. CASE Route(Loop) \/ QueueComplete(Loop) \/ Accept(Loop) \/ Budget(Loop) \/ Dedupe(Loop) \/ Complete(Loop)
  <2>1. cps' = cps /\ UNCHANGED <<ledger, crashes, runs>>
    BY <1>3 DEF Route, QueueComplete, Accept, Budget, Dedupe, Complete, files
  <2>2. pc[Loop] \notin {"save", "checkpoint", "ledger"}
    BY <1>3 DEF Route, QueueComplete, Accept, Budget, Dedupe, Complete, At
  <2>3. /\ pc'[Loop] \notin {"settle", "save", "checkpoint", "ledger"}
        /\ pc'[Loop] = "create" => Affordable
    <3>1. CASE Route(Loop)
      <4>1. Goto(Loop, "accept") \/ Goto(Loop, "queue") \/ NextTrigger(Loop)
        BY <3>1 DEF Route
      <4> QED
        BY <1>0, <1>h, <4>1 DEF Goto, NextTrigger
    <3>2. CASE QueueComplete(Loop) \/ Accept(Loop) \/ Dedupe(Loop) \/ Complete(Loop)
      BY <1>0, <1>h, <3>2 DEF QueueComplete, Accept, Dedupe, Complete, NextTrigger, Goto
    <3>3. CASE Budget(Loop)
      BY <1>0, <1>h, <3>3 DEF Budget, NextTrigger, Goto
    <3> QED
      BY <1>3, <3>1, <3>2, <3>3
  <2> QED
    BY <2>1, <2>2, <2>3, LedgerCalm, ActiveSame
<1>4. CASE QueueSave(Loop)
  <2>1. PICK kept : cps' = [cps EXCEPT ![now.run] = [now.cp EXCEPT !.queued = kept]]
    BY <1>4 DEF QueueSave
  <2>2. pc[Loop] = "queue" /\ pc'[Loop] = "queue_persist" /\ UNCHANGED <<ledger, crashes, runs>>
    BY <1>0, <1>4 DEF QueueSave, At, Goto
  <2>3. now.cp = cps[now.run] /\ now.run \in DOMAIN cps
    BY <2>2 DEF FinalInv, ActiveRuns
  <2>4. [now.cp EXCEPT !.queued = kept].status = now.cp.status
    BY <1>0 DEF Minds, Checkpoints
  <2>5. DOMAIN cps' = DOMAIN cps /\ \A r \in DOMAIN cps : cps'[r].status = cps[r].status
    BY <1>0, <2>1, <2>3, <2>4
  <2>6. ActiveRuns' = ActiveRuns
    BY <2>5 DEF ActiveRuns
  <2> QED
    BY <2>2, <2>6, LedgerCalm
<1>5. CASE Evaluate(Loop)
  <2>1. PICK status \in Verdicts(now.run, now.seen) :
          /\ mem' = [mem EXCEPT ![Loop].next = status]
          /\ Goto(Loop, IF status \in FinalStatus /\ now.cp.status \notin FinalStatus THEN "settle" ELSE "save")
    BY <1>5 DEF Evaluate
  <2>2. now.cp.status \notin FinalStatus /\ pc[Loop] = "evaluate"
    BY <1>5 DEF Evaluate, At, FinalInv, ActiveRuns, ActiveStatus, FinalStatus
  <2>3. mem'[Loop].next = status
    BY <1>0, <2>1 DEF Minds
  <2>4. pc'[Loop] = IF status \in FinalStatus THEN "settle" ELSE "save"
    BY <1>0, <2>1, <2>2 DEF Goto
  <2>5. cps' = cps /\ UNCHANGED <<ledger, crashes, runs>>
    BY <1>5 DEF Evaluate, files
  <2>6. Ahead = 0 /\ Ahead' = 0
    BY <2>2, <2>3, <2>4 DEF Ahead, Booked, Settled
  <2> QED
    BY <2>2, <2>3, <2>4, <2>5, <2>6, ActiveSame DEF LedgerInv
<1>6. CASE Settle(Loop)
  <2>1. /\ ledger'.active = IF ledger.active > 0 THEN ledger.active - 1 ELSE 0
        /\ ledger'.launched = ledger.launched
    BY <1>6 DEF Settle, Shape, FilesOK
  <2>2. pc[Loop] = "settle" /\ pc'[Loop] = "save" /\ mem' = mem /\ cps' = cps /\ UNCHANGED <<crashes, runs>>
    BY <1>0, <1>6 DEF Settle, At, Goto
  <2>3. Ahead = 0 /\ Ahead' = -1
    BY <2>2 DEF Ahead, Booked, Settled, LedgerInv
  <2>4. n >= 1
    <3>1. now.run \in ActiveRuns
      BY <2>2 DEF FinalInv
    <3> QED
      BY <3>1, <1>a, FS_EmptySet
  <2> QED
    BY <1>a, <2>1, <2>2, <2>3, <2>4, ActiveSame, SMTT(60) DEF LedgerInv
<1>7. CASE SaveCheckpoint(Loop)
  <2>1. PICK kept : cps' = [cps EXCEPT ![now.run] = [status |-> now.next, queued |-> kept]]
    BY <1>7 DEF SaveCheckpoint
  <2>2. pc[Loop] = "save" /\ pc'[Loop] = "persist" /\ mem' = mem /\ UNCHANGED <<ledger, crashes, runs>>
    BY <1>0, <1>7 DEF SaveCheckpoint, At, Goto
  <2>3. now.run \in ActiveRuns /\ now.run \in DOMAIN cps
    BY <2>2 DEF FinalInv, ActiveRuns
  <2>4. /\ DOMAIN cps' = DOMAIN cps /\ cps'[now.run].status = now.next
        /\ \A r \in DOMAIN cps : r # now.run => cps'[r] = cps[r]
    BY <1>0, <2>1, <2>3
  <2>5. Ahead' = 0 /\ Ahead = IF now.next \in FinalStatus THEN -1 ELSE 0
    BY <2>2 DEF Ahead, Booked, Settled
  <2>6. CASE now.next \in FinalStatus
    <3>1. ActiveRuns' = ActiveRuns \ {now.run}
      BY <2>4, <2>6 DEF ActiveRuns, ActiveStatus, FinalStatus
    <3>2. Cardinality(ActiveRuns') = n - 1
      BY <1>a, <2>3, <3>1, FS_RemoveElement
    <3> QED
      BY <1>a, <2>2, <2>5, <2>6, <3>2, SMTT(60) DEF LedgerInv
  <2>7. CASE now.next \notin FinalStatus
    <3>1. now.next \in ActiveStatus
      <4>1. Fits(now, pc[Loop], Len(runs))
        BY <1>0 DEF Shape, MindsOK
      <4> QED
        BY <2>2, <2>7, <4>1 DEF Fits, Verdict
    <3>2. ActiveRuns' = ActiveRuns
      BY <2>3, <2>4, <3>1 DEF ActiveRuns
    <3> QED
      BY <1>a, <2>2, <2>5, <2>7, <3>2 DEF LedgerInv
  <2> QED
    BY <2>6, <2>7
<1>8. CASE Create(Loop)
  <2>1. /\ Len(runs') = Len(runs) + 1 /\ cps' = Append(cps, Unwritten) /\ UNCHANGED <<ledger, crashes>>
        /\ pc[Loop] = "create" /\ pc'[Loop] = "ledger"
    BY <1>0, <1>8 DEF Create, At, Goto
  <2>2. /\ DOMAIN cps' = DOMAIN cps \cup {Len(cps) + 1} /\ cps'[Len(cps) + 1] = Unwritten
        /\ \A r \in DOMAIN cps : cps'[r] = cps[r]
    BY <1>0, <2>1
  <2>3. ActiveRuns' = ActiveRuns
    BY <2>2 DEF ActiveRuns, Unwritten, ActiveStatus
  <2>4. Ahead = 0 /\ Ahead' = 0
    BY <2>1 DEF Ahead, Booked, Settled
  <2> QED
    BY <1>a, <2>1, <2>3, <2>4 DEF LedgerInv
<1>9. CASE Account(Loop)
  <2>1. ledger'.active = ledger.active + 1 /\ ledger'.launched = ledger.launched + 1
    BY <1>9 DEF Account
  <2>2. pc[Loop] = "ledger" /\ pc'[Loop] = "checkpoint" /\ mem' = mem /\ cps' = cps /\ UNCHANGED <<crashes, runs>>
    BY <1>0, <1>9 DEF Account, At, Goto
  <2>3. Ahead = 0 /\ Ahead' = 1
    BY <2>2 DEF Ahead, Booked, Settled
  <2>4. ActiveRuns' = ActiveRuns
    BY <2>2, ActiveSame
  <2>5. /\ ledger.active - n <= crashes /\ n - ledger.active <= crashes /\ n <= MaxParallel + crashes
        /\ ledger.active < MaxParallel /\ ledger.launched < MaxRuns
        /\ Len(runs) <= ledger.launched + crashes + 1
    BY <1>a, <2>2, <2>3 DEF LedgerInv
  <2>6. /\ ledger'.active - n <= crashes + 1 /\ n - ledger'.active <= crashes - 1
        /\ ledger'.active <= MaxParallel /\ ledger'.launched <= MaxRuns
        /\ Len(runs) <= ledger'.launched + crashes
    <3> HIDE DEF n
    <3>1. ledger'.active - n <= crashes + 1 /\ n - ledger'.active <= crashes - 1
      BY <1>a, <2>1, <2>5, SMTT(60)
    <3>2. ledger'.active <= MaxParallel
      BY <1>a, <2>1, <2>5
    <3>3. ledger'.launched <= MaxRuns
      BY <1>a, <2>1, <2>5
    <3>4. Len(runs) <= ledger'.launched + crashes
      BY <1>a, <2>1, <2>5
    <3> QED
      BY <3>1, <3>2, <3>3, <3>4
  <2>7. crashes' = crashes /\ Len(runs') = Len(runs) /\ Cardinality(ActiveRuns') = n
    BY <2>2, <2>4
  <2>8. Cardinality(ActiveRuns') <= MaxParallel + crashes'
    BY <2>5, <2>7
  <2>9. Len(runs') <= ledger'.launched + crashes' + IF pc'[Loop] = "ledger" THEN 1 ELSE 0
    BY <1>a, <2>1, <2>2, <2>6, <2>7
  <2> QED
    BY <1>a, <2>2, <2>3, <2>6, <2>7, <2>8, <2>9 DEF LedgerInv
<1>10. CASE Checkpoint(Loop)
  <2>1. pc[Loop] = "checkpoint" /\ pc'[Loop] = "launch_persist" /\ UNCHANGED <<ledger, crashes, runs>>
    BY <1>0, <1>10 DEF Checkpoint, At, Goto
  <2>2. cps' = [cps EXCEPT ![now.run] = [status |-> "launched", queued |-> {}]]
    BY <1>10 DEF Checkpoint
  <2>3. cps[now.run].status = "none" /\ now.run \in DOMAIN cps
    BY <1>0, <2>1 DEF FinalInv, Shape, MindsOK, Fits, WithRun
  <2>4. /\ DOMAIN cps' = DOMAIN cps /\ cps'[now.run].status = "launched"
        /\ \A r \in DOMAIN cps : r # now.run => cps'[r] = cps[r]
    BY <1>0, <2>2, <2>3
  <2>5. ActiveRuns' = ActiveRuns \cup {now.run} /\ now.run \notin ActiveRuns
    BY <2>3, <2>4 DEF ActiveRuns, ActiveStatus
  <2>6. Cardinality(ActiveRuns') = n + 1
    BY <1>a, <2>5, FS_AddElement
  <2>7. Ahead = 1 /\ Ahead' = 0
    BY <2>1 DEF Ahead, Booked, Settled
  <2> QED
    BY <1>a, <2>1, <2>6, <2>7, SMTT(60) DEF LedgerInv
<1>11. CASE Environment
  <2>1. CASE Crash
    <3>1. /\ cps' = cps /\ UNCHANGED <<ledger, runs>> /\ crashes' = crashes + 1
          /\ pc'[Loop] = "idle"
      BY <1>0, <2>1 DEF Crash, files
    <3>2. Ahead \in {-1, 0, 1} /\ Ahead' = 0
      BY <3>1 DEF Ahead, Booked, Settled
    <3>3. ActiveRuns' = ActiveRuns
      BY <3>1, ActiveSame
    <3>4. /\ ledger.active - n <= crashes + 1 /\ n - ledger.active <= crashes + 1
          /\ n <= MaxParallel + crashes + 1 /\ Len(runs) <= ledger.launched + crashes + 1
          /\ ledger.active <= MaxParallel /\ ledger.launched <= MaxRuns
      <4>1. /\ ledger.active - n <= crashes + Ahead /\ n - ledger.active <= crashes - Ahead
            /\ n <= MaxParallel + crashes
            /\ ledger.active <= MaxParallel /\ ledger.launched <= MaxRuns
            /\ Len(runs) <= ledger.launched + crashes + IF pc[Loop] = "ledger" THEN 1 ELSE 0
        BY DEF LedgerInv
      <4> HIDE DEF n
      <4>2. ledger.active - n <= crashes + 1
        BY <1>a, <3>2, <4>1
      <4>3. n - ledger.active <= crashes + 1
        BY <1>a, <3>2, <4>1
      <4>4. n <= MaxParallel + crashes + 1
        BY <1>a, <4>1
      <4>5. Len(runs) <= ledger.launched + crashes + 1
        BY <1>a, <4>1
      <4> QED
        BY <4>1, <4>2, <4>3, <4>4, <4>5
    <3> QED
      BY <1>a, <3>1, <3>2, <3>3, <3>4 DEF LedgerInv
  <2>2. CASE ~Crash
    <3>1. UNCHANGED <<cps, mem, pc, ledger, crashes>>
      BY <1>11, <2>2 DEF Environment, Enqueue, Cancel, Pause, Unpause, Kill, Unkill, OpenEdit, SaveEdit,
                         Drive, Exhaust, Pass, files, outside
    <3>2. Len(runs') = Len(runs)
      <4>1. CASE Drive \/ Exhaust
        BY <1>0, <4>1 DEF Drive, Exhaust
      <4>2. CASE ~Drive /\ ~Exhaust
        BY <1>11, <2>2, <4>2 DEF Environment, Enqueue, Cancel, Pause, Unpause, Kill, Unkill, OpenEdit, SaveEdit,
                                 Pass, files
      <4> QED
        BY <4>1, <4>2
    <3>3. Ahead' = Ahead
      BY <3>1 DEF Ahead, Booked, Settled
    <3> QED
      BY <3>1, <3>2, <3>3, ActiveSame DEF LedgerInv
  <2> QED
    BY <2>1, <2>2
<1> QED
  BY <1>1, <1>2, <1>3, <1>4, <1>5, <1>6, <1>7, <1>8, <1>9, <1>10, <1>11 DEF Step

LEMMA LedgerInit == Init => LedgerInv
<1> SUFFICES ASSUME Init PROVE LedgerInv
  OBVIOUS
<1>1. ActiveRuns = {} /\ pc[Loop] = "idle" /\ Len(runs) = 0
  BY TickersAssumption DEF Init, ActiveRuns
<1>2. Cardinality(ActiveRuns) = 0
  BY <1>1, FS_EmptySet
<1>3. Ahead = 0
  BY <1>1 DEF Ahead, Booked, Settled
<1> QED
  BY <1>1, <1>2, <1>3, BudgetAssumption DEF Init, LedgerInv

-----------------------------------------------------------------------------
\* With one ticker a key starts one run, and one more for a restart.
LEMMA RunsOfFinite ==
  ASSUME Shape, NEW key
  PROVE  /\ IsFiniteSet(RunsOf(key)) /\ Cardinality(RunsOf(key)) \in Nat
         /\ RunsOf(key) \subseteq 1..Len(runs)
<1>1. RunsOf(key) \subseteq 1..Len(runs) /\ Len(runs) \in Nat
  BY DEF Shape, FilesOK, RunsOf
<1>2. IsFiniteSet(1..Len(runs))
  BY <1>1, FS_Interval
<1> QED
  BY <1>1, <1>2, FS_Subset, FS_CardinalityType

LEMMA KeyCalm ==
  ASSUME KeyInv, DOMAIN runs' = DOMAIN runs,
         \A r \in DOMAIN runs : runs'[r].key = runs[r].key, UNCHANGED <<dedupe, crashes>>,
         \/ UNCHANGED <<pc[Loop], mem[Loop]>>
         \/ /\ pc[Loop] \notin Unrecorded /\ pc'[Loop] \notin Unrecorded
            /\ pc'[Loop] \in {"budget", "create"} => Head(mem'[Loop].triggers) \notin dedupe
         \/ /\ pc[Loop] \in Unrecorded /\ pc'[Loop] \in Unrecorded /\ mem'[Loop] = mem[Loop]
  PROVE  KeyInv'
<1>1. \A key : RunsOf(key)' = RunsOf(key)
  BY DEF RunsOf
<1>2. \A key : InHand(key)' = InHand(key)
  BY DEF InHand
<1>3. pc'[Loop] \in Unrecorded \cup {"budget", "create"} => Head(mem'[Loop].triggers) \notin dedupe
  BY DEF KeyInv
<1> QED
  BY <1>1, <1>2, <1>3 DEF KeyInv

LEMMA KeyStep ==
  ASSUME Shape, KeyInv, Tick(Loop) \/ Step(Loop) \/ Environment
  PROVE  KeyInv'
<1> DEFINE now == mem[Loop]
<1>0. /\ mem \in [Tickers -> Minds] /\ pc \in [Tickers -> Steps] /\ Loop \in Tickers
      /\ now \in Minds /\ runs \in Seq(Runs) /\ crashes \in Nat
  BY TickersAssumption, BoundAssumption DEF Shape, MindsOK, FilesOK, OutsideOK
<1>h. \A triggers : Handle(Loop, triggers) => pc'[Loop] \in {"idle", "route"}
  BY <1>0 DEF Handle, Goto
<1>1. CASE Tick(Loop) \/ Load(Loop) \/ Evaluate(Loop) \/ Settle(Loop) \/ SaveCheckpoint(Loop)
  <2>1. UNCHANGED <<runs, dedupe, crashes>>
    BY <1>1 DEF Tick, Load, Evaluate, Settle, SaveCheckpoint, files
  <2>2. /\ pc[Loop] \in {"idle", "observe", "evaluate", "settle", "save"}
        /\ pc'[Loop] \in {"observe", "evaluate", "settle", "save", "persist"}
    BY <1>0, <1>1 DEF Tick, Load, Evaluate, Settle, SaveCheckpoint, At, Goto
  <2> QED
    BY <2>1, <2>2, KeyCalm DEF Unrecorded
<1>2. CASE Persist(Loop)
  <2>1. runs' = [runs EXCEPT ![now.run].state = now.seen] /\ UNCHANGED <<dedupe, crashes>>
    BY <1>2 DEF Persist
  <2>2. DOMAIN runs' = DOMAIN runs /\ \A r \in DOMAIN runs : runs'[r].key = runs[r].key
    <3> HIDE DEF now
    <3> QED
      BY <1>0, <2>1 DEF Runs
  <2>3. \/ pc[Loop] = "persist" /\ pc'[Loop] = "observe"
        \/ pc[Loop] = "queue_persist" /\ pc'[Loop] = "queue_complete"
        \/ pc[Loop] = "launch_persist" /\ pc'[Loop] = "dedupe" /\ mem' = mem
    BY <1>0, <1>2 DEF Persist, At, Goto
  <2> QED
    BY <2>1, <2>2, <2>3, KeyCalm DEF Unrecorded
<1>3. CASE Poll(Loop) \/ Claim(Loop) \/ Due(Loop) \/ Fire(Loop) \/ Fired(Loop)
  <2>1. UNCHANGED <<runs, dedupe, crashes>>
    BY <1>3 DEF Poll, Claim, Due, Fire, Fired, files
  <2>2. pc[Loop] \in {"observe", "claim", "due", "fire", "fired"}
    BY <1>3 DEF Poll, Claim, Due, Fire, Fired, At
  <2>3. pc'[Loop] \in {"idle", "route", "claim", "due", "fire", "fired"}
    BY <1>0, <1>3, <1>h DEF Poll, Claim, Due, Fire, Fired, Goto
  <2> QED
    BY <2>1, <2>2, <2>3, KeyCalm DEF Unrecorded
<1>4. CASE Route(Loop) \/ QueueSave(Loop) \/ QueueComplete(Loop) \/ Complete(Loop)
  <2>1. UNCHANGED <<runs, dedupe, crashes>>
    BY <1>4 DEF Route, QueueSave, QueueComplete, Complete, files
  <2>2. pc[Loop] \in {"route", "queue", "queue_complete", "complete"}
    BY <1>4 DEF Route, QueueSave, QueueComplete, Complete, At
  <2>3. pc'[Loop] \in {"idle", "route", "queue", "queue_persist", "accept"}
    <3>1. CASE Route(Loop)
      <4>1. Goto(Loop, "accept") \/ Goto(Loop, "queue") \/ NextTrigger(Loop)
        BY <3>1 DEF Route
      <4> QED
        BY <1>0, <1>h, <4>1 DEF Goto, NextTrigger
    <3>2. CASE QueueSave(Loop) \/ QueueComplete(Loop) \/ Complete(Loop)
      BY <1>0, <1>h, <3>2 DEF QueueSave, QueueComplete, Complete, NextTrigger, Goto
    <3> QED
      BY <1>4, <3>1, <3>2
  <2> QED
    BY <2>1, <2>2, <2>3, KeyCalm DEF Unrecorded
<1>5. CASE Accept(Loop) \/ Budget(Loop)
  <2>1. UNCHANGED <<runs, dedupe, crashes>> /\ pc[Loop] \in {"accept", "budget"}
    BY <1>5 DEF Accept, Budget, files, At
  <2>2. CASE pc'[Loop] \in {"idle", "route"}
    BY <2>1, <2>2, KeyCalm DEF Unrecorded
  <2>3. CASE pc'[Loop] \notin {"idle", "route"}
    <3>1. mem' = mem /\ pc'[Loop] \in {"budget", "create"} /\ Head(now.triggers) \notin dedupe
      BY <1>0, <1>5, <1>h, <2>3 DEF Accept, Budget, NextTrigger, Goto, Welcome, Trigger, At, KeyInv
    <3> QED
      BY <2>1, <3>1, KeyCalm DEF Unrecorded
  <2> QED
    BY <2>2, <2>3
<1>6. CASE Account(Loop) \/ Checkpoint(Loop)
  <2>1. UNCHANGED <<runs, dedupe, crashes, mem>>
    BY <1>6 DEF Account, Checkpoint
  <2>2. pc[Loop] \in {"ledger", "checkpoint"} /\ pc'[Loop] \in {"checkpoint", "launch_persist"}
    BY <1>0, <1>6 DEF Account, Checkpoint, At, Goto
  <2> QED
    BY <2>1, <2>2, KeyCalm DEF Unrecorded
<1>7. CASE Create(Loop)
  <2> DEFINE trigger == Head(now.triggers)
             run == [key |-> trigger, state |-> "live", spent |-> FALSE]
  <2>1. /\ pc[Loop] = "create" /\ pc'[Loop] = "ledger" /\ runs' = Append(runs, run)
        /\ UNCHANGED <<dedupe, crashes>>
    BY <1>0, <1>7 DEF Create, At, Goto, Trigger
  <2>2. mem'[Loop].triggers = now.triggers
    BY <1>0, <1>7 DEF Create, Minds
  <2>3. trigger \notin dedupe /\ \A key : ~InHand(key)
    BY <2>1 DEF KeyInv, InHand, Unrecorded
  <2>4. \A key : InHand(key)' <=> key = trigger
    BY <2>1, <2>2 DEF InHand, Unrecorded
  <2> HIDE DEF trigger
  <2>5. /\ DOMAIN runs' = DOMAIN runs \cup {Len(runs) + 1} /\ runs'[Len(runs) + 1].key = trigger
        /\ \A r \in DOMAIN runs : runs'[r] = runs[r]
    BY <1>0, <2>1
  <2>6. ASSUME NEW key \in Keys
        PROVE  Cardinality(RunsOf(key)') <= crashes + IF key \in dedupe \/ InHand(key)' THEN 1 ELSE 0
    <3>1. IsFiniteSet(RunsOf(key)) /\ Cardinality(RunsOf(key)) \in Nat /\ Len(runs) + 1 \notin RunsOf(key)
      <4>1. Len(runs) \in Nat /\ RunsOf(key) \subseteq 1..Len(runs)
        BY <1>0, RunsOfFinite
      <4> QED
        BY <4>1, RunsOfFinite
    <3>2. Cardinality(RunsOf(key)) <= crashes + IF key \in dedupe THEN 1 ELSE 0
      BY <2>3 DEF KeyInv
    <3>3. CASE key = trigger
      <4>1. RunsOf(key)' = RunsOf(key) \cup {Len(runs) + 1}
        BY <2>5, <3>3 DEF RunsOf
      <4>2. Cardinality(RunsOf(key)') = Cardinality(RunsOf(key)) + 1
        BY <3>1, <4>1, FS_AddElement
      <4>3. Cardinality(RunsOf(key)) <= crashes
        BY <1>0, <2>3, <3>2, <3>3
      <4> QED
        BY <1>0, <2>4, <3>1, <3>3, <4>2, <4>3
    <3>4. CASE key # trigger
      <4>1. RunsOf(key)' = RunsOf(key)
        BY <2>5, <3>4 DEF RunsOf
      <4> QED
        BY <2>4, <3>2, <3>4, <4>1
    <3> QED
      BY <3>3, <3>4
  <2> QED
    BY <2>1, <2>2, <2>3, <2>6 DEF KeyInv, trigger
<1>8. CASE Dedupe(Loop)
  <2> DEFINE trigger == Head(now.triggers)
  <2>1. /\ pc[Loop] = "dedupe" /\ pc'[Loop] = "complete" /\ UNCHANGED <<runs, crashes>>
        /\ dedupe' = dedupe \cup {trigger}
    BY <1>0, <1>8 DEF Dedupe, At, Goto, Trigger
  <2>2. \A key : InHand(key) <=> key = trigger
    BY <2>1 DEF InHand, Unrecorded
  <2>3. \A key : RunsOf(key)' = RunsOf(key) /\ (key \in dedupe' <=> key \in dedupe \/ InHand(key))
    BY <2>1, <2>2 DEF RunsOf
  <2>4. \A key : ~InHand(key)'
    BY <2>1 DEF InHand, Unrecorded
  <2> QED
    BY <2>1, <2>3, <2>4 DEF KeyInv, Unrecorded
<1>9. CASE Crash
  <2>1. UNCHANGED <<runs, dedupe>> /\ crashes' = crashes + 1 /\ pc'[Loop] = "idle"
    BY <1>0, <1>9 DEF Crash, files
  <2>2. ASSUME NEW key \in Keys
        PROVE  Cardinality(RunsOf(key)') <= crashes' + IF key \in dedupe' \/ InHand(key)' THEN 1 ELSE 0
    <3>1. RunsOf(key)' = RunsOf(key) /\ Cardinality(RunsOf(key)) \in Nat
      BY <2>1, RunsOfFinite DEF RunsOf
    <3>2. Cardinality(RunsOf(key)) <= crashes + IF key \in dedupe \/ InHand(key) THEN 1 ELSE 0
      BY DEF KeyInv
    <3>3. Cardinality(RunsOf(key)) <= crashes + 1
      BY <1>0, <3>1, <3>2
    <3> QED
      BY <1>0, <2>1, <3>1, <3>3
  <2> QED
    BY <2>1, <2>2 DEF KeyInv, Unrecorded
<1>10. CASE Environment /\ ~Crash
  <2>1. UNCHANGED <<dedupe, crashes, pc, mem>>
    BY <1>10 DEF Environment, Enqueue, Cancel, Pause, Unpause, Kill, Unkill, OpenEdit, SaveEdit,
                 Drive, Exhaust, Pass, files, outside
  <2>2. DOMAIN runs' = DOMAIN runs /\ \A r \in DOMAIN runs : runs'[r].key = runs[r].key
    BY <1>10, EnvironmentKeys
  <2> QED
    BY <2>1, <2>2, KeyCalm
<1> QED
  BY <1>1, <1>2, <1>3, <1>4, <1>5, <1>6, <1>7, <1>8, <1>9, <1>10 DEF Step

LEMMA KeyInit == Init => KeyInv
<1> SUFFICES ASSUME Init PROVE KeyInv
  OBVIOUS
<1>1. pc[Loop] = "idle" /\ crashes = 0 /\ dedupe = {} /\ \A key : RunsOf(key) = {} /\ ~InHand(key)
  BY TickersAssumption DEF Init, RunsOf, InHand, Unrecorded
<1> QED
  BY <1>1, FS_EmptySet DEF KeyInv, Unrecorded

-----------------------------------------------------------------------------
\* With one ticker an item that became an interrupt starts no run.

\* An item comes into the hands of a ticker by a claim.
LEMMA HeldStep ==
  ASSUME Shape, Tick(Loop) \/ Step(Loop), ~Claim(Loop), NEW i \in Items, Holds(Loop, ItemKey(i))'
  PROVE  Holds(Loop, ItemKey(i))
<1> DEFINE now == mem[Loop]
           after == mem'[Loop].triggers
<1>0. /\ mem \in [Tickers -> Minds] /\ Loop \in Tickers /\ now \in Minds
      /\ now.triggers \in Seq(Keys) /\ now.now \in Nat
      /\ pc[Loop] \in WithTrigger => now.triggers # <<>>
  BY TickersAssumption DEF Shape, MindsOK, Minds, Fits
<1>h. \A triggers : Handle(Loop, triggers) => after = triggers
  <2>1. \A triggers : [Blank EXCEPT !.triggers = triggers].triggers = triggers
    BY DEF Blank
  <2> QED
    BY <1>0, <2>1 DEF Handle
<1>1. ASSUME after = now.triggers PROVE Holds(Loop, ItemKey(i))
  BY <1>1 DEF Holds
<1>2. ASSUME after = <<>> PROVE FALSE
  BY <1>2 DEF Holds
<1>3. ASSUME after = Tail(now.triggers), now.triggers # <<>> PROVE Holds(Loop, ItemKey(i))
  <2>1. PICK j \in DOMAIN after : after[j] = ItemKey(i)
    BY DEF Holds
  <2>2. j + 1 \in DOMAIN now.triggers /\ now.triggers[j + 1] = ItemKey(i)
    BY <1>0, <1>3, <2>1
  <2> QED
    BY <2>2 DEF Holds
<1>4. CASE Tick(Loop) \/ Poll(Loop)
  BY <1>0, <1>2, <1>4, <1>h DEF Tick, Poll, Blank
<1>5. CASE Load(Loop) \/ Evaluate(Loop) \/ Fire(Loop)
  <2>1. CASE Load(Loop)
    BY <1>0, <1>1, <2>1 DEF Load, Minds
  <2>2. CASE Evaluate(Loop)
    BY <1>0, <1>1, <2>2 DEF Evaluate, Minds
  <2>3. CASE Fire(Loop)
    BY <1>0, <1>1, <2>3 DEF Fire, Minds
  <2> QED
    BY <1>5, <2>1, <2>2, <2>3
<1>6. CASE Settle(Loop) \/ SaveCheckpoint(Loop) \/ QueueSave(Loop) \/ Account(Loop) \/ Checkpoint(Loop) \/ Dedupe(Loop)
  BY <1>1, <1>6 DEF Settle, SaveCheckpoint, QueueSave, Account, Checkpoint, Dedupe
<1>7. CASE Persist(Loop)
  <2>1. CASE At(Loop, "persist")
    BY <1>0, <1>2, <1>7, <2>1 DEF Persist, Blank, At
  <2>2. CASE ~At(Loop, "persist")
    BY <1>1, <1>7, <2>2 DEF Persist, At
  <2> QED
    BY <2>1, <2>2
<1>8. CASE Fired(Loop)
  BY <1>1, <1>8, <1>h DEF Fired
<1>9. CASE Due(Loop)
  <2>1. CASE Handle(Loop, now.triggers)
    BY <1>1, <1>h, <2>1
  <2>2. CASE ~Handle(Loop, now.triggers)
    <3> DEFINE key == BucketKey(now.now)
    <3>1. after = Append(now.triggers, key)
      BY <1>0, <1>9, <2>2 DEF Due, Minds
    <3>2. key # ItemKey(i)
      BY <1>0, KeyKinds
    <3> HIDE DEF key
    <3>3. PICK j \in DOMAIN after : after[j] = ItemKey(i)
      BY DEF Holds
    <3>4. j \in DOMAIN now.triggers /\ now.triggers[j] = ItemKey(i)
      BY <1>0, <3>1, <3>2, <3>3
    <3> QED
      BY <3>4 DEF Holds
  <2> QED
    BY <2>1, <2>2
<1>10. CASE Route(Loop) \/ Create(Loop)
  <2>1. CASE NextTrigger(Loop) /\ Route(Loop)
    BY <1>0, <1>3, <1>h, <2>1 DEF NextTrigger, Route, At, WithTrigger
  <2>2. CASE Route(Loop) /\ ~NextTrigger(Loop)
    <3>1. \/ UNCHANGED mem
          \/ \E run, decision :
               mem' = [mem EXCEPT ![Loop].run = run, ![Loop].cp = cps[run], ![Loop].seen = runs[run].state,
                                  ![Loop].next = decision]
      BY <2>2 DEF Route
    <3>2. ASSUME NEW run, NEW decision,
                 mem' = [mem EXCEPT ![Loop].run = run, ![Loop].cp = cps[run], ![Loop].seen = runs[run].state,
                                    ![Loop].next = decision]
          PROVE  after = now.triggers
      <4> DEFINE m == [now EXCEPT !.run = run, !.cp = cps[run], !.seen = runs[run].state, !.next = decision]
      <4>1. mem' = [mem EXCEPT ![Loop] = m]
        BY <1>0, <3>2
      <4>2. m.triggers = now.triggers
        BY <1>0 DEF Minds
      <4> HIDE DEF m
      <4> QED
        BY <1>0, <4>1, <4>2
    <3> QED
      BY <1>1, <3>1, <3>2
  <2>3. CASE Create(Loop)
    BY <1>0, <1>1, <2>3 DEF Create, Minds
  <2> QED
    BY <1>10, <2>1, <2>2, <2>3
<1>11. CASE QueueComplete(Loop) \/ Accept(Loop) \/ Budget(Loop) \/ Complete(Loop)
  <2>1. pc[Loop] \in WithTrigger
    BY <1>11 DEF QueueComplete, Accept, Budget, Complete, At, WithTrigger
  <2>2. CASE NextTrigger(Loop)
    BY <1>0, <1>3, <1>h, <2>1, <2>2 DEF NextTrigger
  <2>3. CASE ~NextTrigger(Loop)
    BY <1>0, <1>1, <1>11, <2>3 DEF QueueComplete, Accept, Budget, Complete, Blank
  <2> QED
    BY <2>2, <2>3
<1> QED
  BY <1>4, <1>5, <1>6, <1>7, <1>8, <1>9, <1>10, <1>11 DEF Step

LEMMA InterruptCalm ==
  ASSUME InterruptInv, crashes' = crashes,
         \A i \in Items : inbox'[i] \in {"absent", "pending"} => inbox[i] \in {"absent", "pending"},
         DOMAIN runs' = DOMAIN runs, \A r \in DOMAIN runs : runs'[r].key = runs[r].key,
         DOMAIN cps' = DOMAIN cps, \A r \in DOMAIN cps : cps'[r].queued \subseteq cps[r].queued,
         \A i \in Items : Holds(Loop, ItemKey(i))' =>
            /\ Holds(Loop, ItemKey(i))
            /\ crashes = 0 /\ MaxParallel = 1 /\ pc[Loop] \in Interrupted /\ ActiveRuns # {} =>
                 pc'[Loop] \in Interrupted /\ ActiveRuns' # {}
  PROVE  InterruptInv'
BY DEF InterruptInv

LEMMA InterruptStep ==
  ASSUME Shape, ItemInv, FinalInv, LedgerInv, InterruptInv, Tick(Loop) \/ Step(Loop) \/ Environment
  PROVE  InterruptInv'
<1> DEFINE now == mem[Loop]
           Taken == \A i \in Items : inbox'[i] \in {"absent", "pending"} => inbox[i] \in {"absent", "pending"}
           Same == DOMAIN runs' = DOMAIN runs /\ \A r \in DOMAIN runs : runs'[r].key = runs[r].key
<1>0. /\ mem \in [Tickers -> Minds] /\ pc \in [Tickers -> Steps] /\ Loop \in Tickers
      /\ now \in Minds /\ cps \in Seq(Checkpoints) /\ runs \in Seq(Runs) /\ now.triggers \in Seq(Keys)
      /\ inbox \in [Items -> ItemStates] /\ Len(cps) = Len(runs)
      /\ pc[Loop] \in WithTrigger => now.triggers # <<>>
  BY TickersAssumption DEF Shape, MindsOK, FilesOK, Minds, Fits
<1>h. \A triggers : Handle(Loop, triggers) => pc'[Loop] \in {"idle", "route"}
  BY <1>0 DEF Handle, Goto
<1>k. ASSUME NextTrigger(Loop), pc[Loop] \in WithTrigger PROVE \A i \in Items : ~Holds(Loop, ItemKey(i))'
  <2> DEFINE m == [Blank EXCEPT !.triggers = Tail(now.triggers)]
  <2>1. mem'[Loop].triggers = Tail(now.triggers)
    BY <1>0, <1>k DEF NextTrigger, Handle, Blank
  <2>2. \A j \in DOMAIN Tail(now.triggers) : /\ j + 1 \in DOMAIN now.triggers /\ j + 1 # 1
                                           /\ Tail(now.triggers)[j] = now.triggers[j + 1]
    BY <1>0, <1>k
  <2>3. \A j \in DOMAIN Tail(now.triggers) : Tail(now.triggers)[j].kind # "inbox"
    BY <1>0, <2>2 DEF ItemInv
  <2> QED
    BY <2>1, <2>3, KeyKinds DEF Holds
<1>1. CASE Claim(Loop)
  <2>1. UNCHANGED <<cps, runs, crashes>> /\ pc[Loop] = "claim" /\ now.triggers = <<>>
    <3>1. Fits(now, pc[Loop], Len(runs))
      BY <1>0 DEF Shape, MindsOK
    <3> QED
      BY <1>1, <3>1 DEF Claim, At, Fits
  <2>2. CASE UNCHANGED <<inbox, mem>>
    <3>1. \A i \in Items : ~Holds(Loop, ItemKey(i))'
      BY <2>1, <2>2 DEF Holds
    <3> QED
      BY <2>1, <2>2, <3>1, InterruptCalm
  <2>3. ASSUME NEW i \in Items, inbox[i] = "pending", inbox' = [inbox EXCEPT ![i] = "claimed"],
               mem' = [mem EXCEPT ![Loop].triggers = <<ItemKey(i)>>]
        PROVE  InterruptInv'
    <3>1. mem'[Loop].triggers = <<ItemKey(i)>>
      BY <1>0, <2>3 DEF Minds
    <3>2. \A key : Holds(Loop, key)' => key = ItemKey(i)
      BY <3>1 DEF Holds
    <3>3. \A k \in Items : inbox'[k] \in {"absent", "pending"} => inbox[k] \in {"absent", "pending"}
      BY <1>0, <2>3
    <3> QED
      BY <2>1, <2>3, <3>2, <3>3 DEF InterruptInv
  <2> QED
    BY <1>1, <2>2, <2>3 DEF Claim, Pending
<1>2. CASE QueueSave(Loop)
  <2>1. PICK kept : /\ kept \subseteq now.cp.queued \cup {Head(now.triggers)}
                    /\ cps' = [cps EXCEPT ![now.run] = [now.cp EXCEPT !.queued = kept]]
    BY <1>2 DEF QueueSave, Trigger
  <2>2. /\ pc[Loop] = "queue" /\ pc'[Loop] = "queue_persist" /\ UNCHANGED <<inbox, runs, crashes, mem>>
        /\ now.triggers # <<>>
    BY <1>0, <1>2 DEF QueueSave, At, Goto, WithTrigger
  <2>3. now.cp = cps[now.run] /\ now.run \in ActiveRuns /\ now.run \in DOMAIN cps
    BY <2>2 DEF FinalInv, ActiveRuns
  <2>4. /\ [now.cp EXCEPT !.queued = kept].status = now.cp.status
        /\ [now.cp EXCEPT !.queued = kept].queued = kept
    BY <1>0 DEF Minds, Checkpoints
  <2>5. /\ DOMAIN cps' = DOMAIN cps
        /\ \A r \in DOMAIN cps : /\ cps'[r].status = cps[r].status
                                /\ cps'[r].queued \subseteq cps[r].queued \cup {Head(now.triggers)}
    BY <1>0, <2>1, <2>3, <2>4
  <2>6. ActiveRuns' # {}
    BY <2>3, <2>5 DEF ActiveRuns
  <2>7. \A i \in Items : Head(now.triggers) = ItemKey(i) =>
          /\ inbox[i] \notin {"absent", "pending"} /\ \A q \in DOMAIN runs : runs[q].key # ItemKey(i)
    <3>1. Holds(Loop, Head(now.triggers))
      BY <1>0, <2>2 DEF Holds
    <3> QED
      BY <1>0, <2>2, <3>1 DEF ItemInv, Launched
  <2> QED
    BY <2>2, <2>5, <2>6, <2>7 DEF InterruptInv, Interrupted
<1>3. CASE Create(Loop)
  <2> DEFINE key == Head(now.triggers)
  <2>1. /\ pc[Loop] = "create" /\ UNCHANGED <<inbox, crashes>> /\ now.triggers # <<>>
        /\ runs' = Append(runs, [key |-> key, state |-> "live", spent |-> FALSE])
        /\ cps' = Append(cps, Unwritten)
    BY <1>0, <1>3 DEF Create, At, Trigger, WithTrigger
  <2>2. Holds(Loop, key)
    BY <1>0, <2>1 DEF Holds
  <2>3. \A i \in Items : Holds(Loop, ItemKey(i))' => Holds(Loop, ItemKey(i))
    BY <1>3, HeldStep DEF Create, Claim, At, Step
  <2> HIDE DEF key
  <2>4. /\ DOMAIN runs' = DOMAIN runs \cup {Len(runs) + 1} /\ runs'[Len(runs) + 1].key = key
        /\ \A r \in DOMAIN runs : runs'[r] = runs[r]
    BY <1>0, <2>1
  <2>5. /\ DOMAIN cps' = DOMAIN cps \cup {Len(cps) + 1} /\ cps'[Len(cps) + 1].queued = {}
        /\ \A r \in DOMAIN cps : cps'[r] = cps[r]
    BY <1>0, <2>1 DEF Unwritten
  <2> QED
    BY <2>1, <2>2, <2>3, <2>4, <2>5 DEF InterruptInv, Interrupted
<1>4. CASE (Tick(Loop) \/ Step(Loop)) /\ ~Claim(Loop) /\ ~QueueSave(Loop) /\ ~Create(Loop)
  <2>1. crashes' = crashes
    BY <1>4 DEF Step, Tick, Load, Evaluate, Settle, SaveCheckpoint, Persist, Poll, Due, Fire, Fired, Route,
                QueueComplete, Accept, Budget, Account, Checkpoint, Dedupe, Complete
  <2>2. Taken
    <3>1. CASE QueueComplete(Loop) \/ Complete(Loop)
      BY <1>0, <3>1 DEF QueueComplete, Complete, Completed
    <3>2. CASE ~QueueComplete(Loop) /\ ~Complete(Loop)
      <4>1. inbox' = inbox
        BY <1>4, <3>2 DEF Step, Tick, Load, Evaluate, Settle, SaveCheckpoint, Persist, Poll, Due, Fire, Fired,
                          Route, Accept, Budget, Account, Checkpoint, Dedupe, files
      <4> QED
        BY <4>1
    <3> QED
      BY <3>1, <3>2
  <2>3. Same
    <3>1. CASE Persist(Loop)
      <4>1. runs' = [runs EXCEPT ![now.run].state = now.seen]
        BY <3>1 DEF Persist
      <4> HIDE DEF now
      <4> QED
        BY <1>0, <4>1 DEF Runs
    <3>2. CASE ~Persist(Loop)
      BY <1>4, <3>2 DEF Step, Tick, Load, Evaluate, Settle, SaveCheckpoint, Poll, Due, Fire, Fired, Route,
                        QueueComplete, Accept, Budget, Account, Checkpoint, Dedupe, Complete, files
    <3> QED
      BY <3>1, <3>2
  <2>4. DOMAIN cps' = DOMAIN cps /\ \A r \in DOMAIN cps : cps'[r].queued \subseteq cps[r].queued
    <3>1. CASE SaveCheckpoint(Loop)
      <4>1. PICK kept : /\ kept \subseteq now.cp.queued
                        /\ cps' = [cps EXCEPT ![now.run] = [status |-> now.next, queued |-> kept]]
        BY <3>1 DEF SaveCheckpoint, Kept
      <4>2. now.cp = cps[now.run] /\ now.run \in DOMAIN cps
        BY <3>1 DEF SaveCheckpoint, At, FinalInv, ActiveRuns
      <4> QED
        BY <1>0, <4>1, <4>2
    <3>2. CASE Checkpoint(Loop)
      BY <1>0, <3>2 DEF Checkpoint
    <3>3. CASE ~SaveCheckpoint(Loop) /\ ~Checkpoint(Loop)
      BY <1>4, <3>3 DEF Step, Tick, Load, Evaluate, Settle, Persist, Poll, Due, Fire, Fired, Route,
                        QueueComplete, Accept, Budget, Account, Dedupe, Complete, files
    <3> QED
      BY <3>1, <3>2, <3>3
  <2>5. ASSUME NEW i \in Items, Holds(Loop, ItemKey(i))', crashes = 0, MaxParallel = 1,
               pc[Loop] \in Interrupted, ActiveRuns # {}
        PROVE  pc'[Loop] \in Interrupted /\ ActiveRuns' # {}
    <3>1. Persist(Loop) \/ QueueComplete(Loop) \/ Accept(Loop) \/ Budget(Loop)
      BY <1>4, <2>5 DEF Step, Tick, Load, Evaluate, Settle, SaveCheckpoint, Poll, Due, Fire, Fired, Route,
                        Account, Checkpoint, Dedupe, Complete, At, Interrupted
    <3>2. ActiveRuns' # {}
      BY <2>5, <3>1, ActiveSame DEF Persist, QueueComplete, Accept, Budget, files
    <3>3. ~NextTrigger(Loop) \/ Persist(Loop)
      BY <1>k, <2>5, <3>1 DEF QueueComplete, Accept, Budget, At, WithTrigger
    <3>4. CASE Persist(Loop)
      BY <1>0, <2>5, <3>2, <3>4 DEF Persist, At, Goto, Interrupted
    <3>5. CASE QueueComplete(Loop) \/ Accept(Loop)
      BY <1>0, <3>2, <3>3, <3>5 DEF QueueComplete, Accept, Goto, Interrupted, Persist, At
    <3>6. CASE Budget(Loop)
      <4>1. Affordable /\ pc[Loop] = "budget"
        BY <3>3, <3>6 DEF Budget, Persist, At
      <4>2. Ahead = 0 /\ Cardinality(ActiveRuns) \in Nat /\ ledger.active \in Nat
        BY <4>1, ActiveFinite DEF Ahead, Booked, Settled
      <4>3. Cardinality(ActiveRuns) - ledger.active <= 0 /\ ledger.active < 1
        BY <2>5, <4>1, <4>2 DEF LedgerInv, Affordable
      <4>4. Cardinality(ActiveRuns) = 0
        BY <4>2, <4>3
      <4> QED
        BY <2>5, <4>4, ActiveFinite, FS_EmptySet
    <3> QED
      BY <3>1, <3>4, <3>5, <3>6
  <2>6. \A i \in Items : Holds(Loop, ItemKey(i))' => Holds(Loop, ItemKey(i))
    BY <1>4, HeldStep
  <2> QED
    BY <2>1, <2>2, <2>3, <2>4, <2>5, <2>6, InterruptCalm
<1>5. CASE Environment
  <2>1. CASE Crash
    <3>1. crashes' = crashes + 1 /\ crashes \in Nat
      BY <2>1, ActiveFinite DEF Crash
    <3>2. crashes' # 0
      BY <3>1
    <3> QED
      BY <3>2 DEF InterruptInv
  <2>2. CASE ~Crash
    <3>1. UNCHANGED <<cps, mem, pc, crashes>>
      BY <1>5, <2>2 DEF Environment, Enqueue, Cancel, Pause, Unpause, Kill, Unkill, OpenEdit, SaveEdit,
                        Drive, Exhaust, Pass, files, outside
    <3>2. Taken
      <4>1. CASE Enqueue \/ Cancel
        BY <1>0, <4>1 DEF Enqueue, Cancel
      <4>2. CASE ~Enqueue /\ ~Cancel
        BY <1>5, <2>2, <4>2 DEF Environment, Pause, Unpause, Kill, Unkill, OpenEdit, SaveEdit,
                                Drive, Exhaust, Pass, files
      <4> QED
        BY <4>1, <4>2
    <3>3. Same
      BY <1>5, <2>2, EnvironmentKeys
    <3>4. \A i \in Items : Holds(Loop, ItemKey(i))' <=> Holds(Loop, ItemKey(i))
      BY <3>1 DEF Holds
    <3> QED
      BY <3>1, <3>2, <3>3, <3>4, ActiveSame, InterruptCalm
  <2> QED
    BY <2>1, <2>2
<1> QED
  BY <1>1, <1>2, <1>3, <1>4, <1>5

-----------------------------------------------------------------------------
\* All of it, over any number of steps of the routes and restarts.
AllInv == Shape /\ KillInv /\ ItemInv /\ (Tickers = {Loop} => AloneInv)

LEMMA AllInit == Init => AllInv
<1> SUFFICES ASSUME Init PROVE AllInv
  OBVIOUS
<1>1. Shape /\ AloneInv
  <2>1. InterruptInv
    BY DEF Init, InterruptInv
  <2> QED
    BY <2>1, ShapeInit, FinalInit, LedgerInit, KeyInit DEF AloneInv
<1>2. KillInv
  BY DEF Init, KillInv
<1>3. ItemInv
  <2>1. \A t \in Tickers : \A key : ~Holds(t, key)
    BY BlankParts DEF Init, Holds
  <2> QED
    BY <2>1, BlankParts DEF Init, ItemInv
<1> QED
  BY <1>1, <1>2, <1>3 DEF AllInv

LEMMA AllStep == AllInv /\ [Next]_vars => AllInv'
<1> SUFFICES ASSUME AllInv, [Next]_vars PROVE AllInv'
  OBVIOUS
<1>1. Shape' /\ KillInv' /\ ItemInv'
  BY ShapeStep, KillStep, ItemStep DEF AllInv
<1>2. ASSUME Tickers = {Loop} PROVE AloneInv'
  <2>0. Shape /\ ItemInv /\ AloneInv
    BY <1>2 DEF AllInv
  <2>1. FinalInv'
    BY <1>2, <2>0, FinalStep DEF AloneInv
  <2>2. CASE Next
    <3>1. Tick(Loop) \/ Step(Loop) \/ Environment
      BY <1>2, <2>2 DEF Next
    <3> QED
      BY <2>0, <2>1, <3>1, LedgerStep, KeyStep, InterruptStep DEF AloneInv
  <2>3. CASE UNCHANGED vars
    <3>1. UNCHANGED <<pc, mem, cps, runs, ledger, crashes, inbox, dedupe>>
      BY <2>3 DEF vars
    <3>2. LedgerInv'
      <4>1. Ahead' = Ahead /\ ActiveRuns' = ActiveRuns
        BY <3>1 DEF Ahead, Booked, Settled, ActiveRuns
      <4> QED
        BY <2>0, <3>1, <4>1 DEF AloneInv, LedgerInv
    <3>3. KeyInv'
      BY <2>0, <3>1, KeyCalm DEF AloneInv
    <3>4. InterruptInv'
      <4>1. ActiveRuns' = ActiveRuns /\ \A i \in Items : Holds(Loop, ItemKey(i))' => Holds(Loop, ItemKey(i))
        BY <3>1 DEF ActiveRuns, Holds
      <4> QED
        BY <2>0, <3>1, <4>1, InterruptCalm DEF AloneInv
    <3> QED
      BY <2>1, <3>2, <3>3, <3>4 DEF AloneInv
  <2> QED
    BY <2>2, <2>3
<1> QED
  BY <1>1, <1>2 DEF AllInv

LEMMA AloneKeeps ==
  ASSUME Tickers = {Loop}, Shape, AloneInv
  PROVE  LaunchBudget /\ KeyOnce /\ ParallelBound /\ LedgerTracks /\ QueuedOrLaunched
<1>0. /\ Cardinality(ActiveRuns) \in Nat /\ ledger.active \in Nat /\ ledger.launched \in Nat
      /\ crashes \in Nat /\ Len(runs) \in Nat /\ MaxRuns \in Nat /\ MaxParallel \in Nat
  BY ActiveFinite, BudgetAssumption
<1>1. LaunchBudget
  <2>1. Cardinality(Tickers) = 1
    BY FS_Singleton
  <2>2. /\ Len(runs) <= ledger.launched + crashes + IF pc[Loop] = "ledger" THEN 1 ELSE 0
        /\ ledger.launched <= MaxRuns
        /\ pc[Loop] = "ledger" => ledger.launched < MaxRuns
    BY DEF AloneInv, LedgerInv
  <2>3. Len(runs) <= MaxRuns + crashes
    <3>1. CASE pc[Loop] = "ledger"
      BY <1>0, <2>2, <3>1
    <3>2. CASE pc[Loop] # "ledger"
      BY <1>0, <2>2, <3>2
    <3> QED
      BY <3>1, <3>2
  <2>4. MaxRuns + (1 - 1) + crashes * 1 = MaxRuns + crashes
    BY <1>0
  <2> QED
    BY <2>1, <2>3, <2>4 DEF LaunchBudget
<1>2. KeyOnce
  <2> SUFFICES ASSUME NEW r \in DOMAIN runs
               PROVE  Cardinality(RunsOf(runs[r].key)) <= 1 + crashes
    BY DEF KeyOnce
  <2>1. runs[r].key \in Keys
    <3>1. runs \in Seq(Runs)
      BY DEF Shape, FilesOK
    <3>2. runs[r] \in Runs
      BY <3>1
    <3> QED
      BY <3>2 DEF Runs
  <2> DEFINE n == Cardinality(RunsOf(runs[r].key))
  <2>2. n \in Nat /\ n <= crashes + IF runs[r].key \in dedupe \/ InHand(runs[r].key) THEN 1 ELSE 0
    BY <2>1, RunsOfFinite DEF AloneInv, KeyInv
  <2> HIDE DEF n
  <2>3. n <= 1 + crashes
    BY <1>0, <2>2
  <2> QED
    BY <2>3 DEF n
<1>3. ParallelBound
  BY DEF AloneInv, LedgerInv, ParallelBound
<1>4. LedgerTracks
  <2>1. ASSUME \A t \in Tickers : pc[t] = "idle" PROVE Ahead = 0
    BY <2>1 DEF Ahead, Booked, Settled
  <2> QED
    BY <1>0, <2>1 DEF AloneInv, LedgerInv, LedgerTracks
<1>5. QueuedOrLaunched
  BY DEF AloneInv, InterruptInv, QueuedOrLaunched, RunsOf, QueuedAt
<1> QED
  BY <1>1, <1>2, <1>3, <1>4, <1>5

\* A trigger is acted on once, for any number of tickers, runs, items and
\* restarts.  With one ticker the budgets are exceeded by the launches a restart
\* kept from the ledger, and an item that became an interrupt starts no run
\* (claim_inbox_item, accept_trigger, launch_run, observe_run).
THEOREM TriggersHold == Spec => []TriggersOnce
<1>1. AllInv => TriggersOnce
  BY ShapeTypes, ItemKeeps, AloneKeeps DEF AllInv, TriggersOnce, KillInv, KillLag
<1> QED
  BY <1>1, AllInit, AllStep, PTL DEF Spec

=============================================================================
