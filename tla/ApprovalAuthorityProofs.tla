----------------------- MODULE ApprovalAuthorityProofs -----------------------
(***************************************************************************)
(* The safety properties of ApprovalAuthority hold for every number of     *)
(* operators, steps, tokens and crashes.                                   *)
(***************************************************************************)
EXTENDS ApprovalAuthority, TLAPS

-----------------------------------------------------------------------------
(* Typing.                                                                 *)

\* A record in memory stays one when a field is replaced by a typed value.
LEMMA ThreadRecordFields ==
  ASSUME NEW m \in ThreadRecords
  PROVE  /\ \A s \in States : [m EXCEPT !.state = s] \in ThreadRecords
         /\ \A s \in States : [m EXCEPT !.target = s] \in ThreadRecords
         /\ \A i \in Steps \cup { NoStep } :
              /\ [m EXCEPT !.pending = i] \in ThreadRecords
              /\ [m EXCEPT !.step = i] \in ThreadRecords
         /\ \A b \in BOOLEAN :
              /\ [m EXCEPT !.approved = b] \in ThreadRecords
              /\ [m EXCEPT !.ok = b] \in ThreadRecords
BY DEF ThreadRecords

\* So does a record of approvals.jsonl.
LEMMA ApprovalRecordFields ==
  ASSUME NEW r \in ApprovalRecords
  PROVE  /\ \A p \in Registries :
              /\ [r EXCEPT !.request = p] \in ApprovalRecords
              /\ [r EXCEPT !.consumption = p] \in ApprovalRecords
         /\ \A d \in { "granted", "denied" } :
              [r EXCEPT !.decision = d] \in ApprovalRecords
         /\ \A k \in Tokens \cup { NoToken } :
              [r EXCEPT !.grant = k] \in ApprovalRecords
BY DEF ApprovalRecords

\* And the folded event log.
LEMMA LogRecordFields ==
  ASSUME NEW l \in LogRecords
  PROVE  /\ \A s \in States : [l EXCEPT !.state = s] \in LogRecords
         /\ \A i \in Steps \cup { NoStep } :
              /\ [l EXCEPT !.pending = i] \in LogRecords
              /\ [l EXCEPT !.latest = i] \in LogRecords
              /\ [l EXCEPT !.selected = i] \in LogRecords
BY DEF LogRecords

\* The states the handlers of this component enter.
LEMMA StatesEntered ==
  /\ { "created", "proposing", "action_selection", "awaiting_approval",
       "executing", "observing", "memory_commit", "reporting" } \subseteq States
  /\ Terminal \subseteq States
BY DEF States, Terminal

\* An empty memory is well typed.
LEMMA BlankType == Blank \in ThreadRecords
BY StatesEntered DEF Blank, ThreadRecords

\* Moving a program counter keeps it in PCs.
LEMMA GotoType ==
  ASSUME pc \in [Threads -> PCs], NEW t \in Threads, NEW label \in PCs,
         Goto(t, label)
  PROVE  pc' \in [Threads -> PCs]
BY DEF Goto

\* Heading for a transition changes the target alone.
LEMMA EnterType ==
  ASSUME pc \in [Threads -> PCs], mem \in [Threads -> ThreadRecords],
         NEW t \in Threads, NEW s \in States, Enter(t, s)
  PROVE  pc' \in [Threads -> PCs] /\ mem' \in [Threads -> ThreadRecords]
<1>1. "save" \in PCs
  BY DEF PCs
<1>2. [mem[t] EXCEPT !.target = s] \in ThreadRecords
  BY ThreadRecordFields
<1> QED
  BY <1>1, <1>2, GotoType DEF Enter

\* The end of a call.
LEMMA ReturnType ==
  ASSUME pc \in [Threads -> PCs], mem \in [Threads -> ThreadRecords],
         NEW t \in Threads, Return(t)
  PROVE  /\ pc' \in [Threads -> PCs] /\ mem' \in [Threads -> ThreadRecords]
         /\ lock' \in Operators \cup { Nobody }
<1>1. { "done", "idle" } \subseteq PCs
  BY DEF PCs
<1> QED
  BY <1>1, GotoType, BlankType DEF Return, Goto

\* A call that is let through.
LEMMA AcceptedType ==
  ASSUME pc \in [Threads -> PCs], mem \in [Threads -> ThreadRecords],
         NEW t \in Threads, NEW a \in Steps,
         NEW token \in Tokens \cup { NoToken }, NEW label \in PCs,
         Accepted(t, a, token, label)
  PROVE  /\ pc' \in [Threads -> PCs] /\ mem' \in [Threads -> ThreadRecords]
         /\ run' \in RunRecords
<1>1. run' \in RunRecords
  BY StatesEntered DEF Accepted, Awaiting, RunRecords
<1>2. [Blank EXCEPT !.state = "awaiting_approval", !.pending = a, !.step = a,
                    !.token = token] \in ThreadRecords
  BY StatesEntered DEF Blank, ThreadRecords
<1> QED
  BY <1>1, <1>2, GotoType DEF Accepted

\* A thread that is about to act on a step has one.
LEMMA StepKnown ==
  ASSUME IInv, NEW t \in Threads, pc[t] \in WithStep
  PROVE  mem[t].step \in Steps
<1>1. CASE t \in Operators
  BY <1>1 DEF IInv, OperatorInv
<1>2. CASE t = Creator
  <2>1. pc[t] # "done"
    BY DEF WithStep
  <2>2. mem[t].step = 1
    BY <1>2, <2>1 DEF IInv, CreatorInv
  <2> QED
    BY <2>2, StepsAssumption DEF Steps
<1> QED
  BY <1>1, <1>2 DEF Threads

\* Every write of a call under way leaves every variable in its type.
LEMMA ProceedTypeOK ==
  ASSUME IInv, NEW t \in Threads, Proceed(t)
  PROVE  TypeOK'
<1> DEFINE m == mem[t]
<1>0. TypeOK
  BY DEF IInv
<1>1. /\ m \in ThreadRecords
      /\ m.state \in States /\ m.target \in States
      /\ m.pending \in Steps \cup { NoStep } /\ m.step \in Steps \cup { NoStep }
      /\ m.token \in Tokens \cup { NoToken }
  BY <1>0 DEF TypeOK, ThreadRecords
<1>2. \A i \in Steps : approvals[i] \in ApprovalRecords
  BY <1>0 DEF TypeOK
<1>3. CASE Select(t)
  <2>1. log' \in LogRecords
    BY <1>0, <1>1, <1>3, LogRecordFields DEF Select, TypeOK
  <2>2. pc' \in [Threads -> PCs]
    <3>1. { "request", "save" } \subseteq PCs
      BY DEF PCs
    <3> QED
      BY <1>0, <1>3, <3>1, GotoType DEF Select, TypeOK
  <2>3. mem' \in [Threads -> ThreadRecords]
    <3>1. [m EXCEPT !.target = "executing", !.approved = FALSE]
            \in ThreadRecords
      BY <1>1, StatesEntered DEF ThreadRecords
    <3> QED
      BY <1>0, <1>3, <3>1 DEF Select, TypeOK
  <2> QED
    BY <1>0, <1>3, <2>1, <2>2, <2>3 DEF Select, TypeOK
<1>4. CASE RecordRequest(t)
  <2>1. approvals' \in [Steps -> ApprovalRecords]
    BY <1>0, <1>2, <1>4, ApprovalRecordFields DEF RecordRequest, TypeOK
  <2>2. "pend" \in PCs
    BY DEF PCs
  <2> QED
    BY <1>0, <1>4, <2>1, <2>2, GotoType DEF RecordRequest, TypeOK
<1>5. CASE SavePending(t)
  <2>1. mem' \in [Threads -> ThreadRecords]
    BY <1>0, <1>1, <1>5, ThreadRecordFields DEF SavePending, TypeOK
  <2>2. run' \in RunRecords
    BY <1>1, <1>5 DEF SavePending, RunRecords
  <2>3. "announce" \in PCs
    BY DEF PCs
  <2> QED
    BY <1>0, <1>5, <2>1, <2>2, <2>3, GotoType DEF SavePending, TypeOK
<1>6. CASE Announce(t)
  <2>1. log' \in LogRecords
    BY <1>0, <1>1, <1>6 DEF Announce, TypeOK, LogRecords
  <2> QED
    BY <1>0, <1>6, <2>1, StatesEntered, EnterType DEF Announce, TypeOK
<1>7. CASE SaveState(t)
  <2>1. mem' \in [Threads -> ThreadRecords]
    BY <1>0, <1>1, <1>7, ThreadRecordFields DEF SaveState, TypeOK
  <2>2. run' \in RunRecords
    BY <1>1, <1>7 DEF SaveState, RunRecords
  <2>3. "log" \in PCs
    BY DEF PCs
  <2> QED
    BY <1>0, <1>7, <2>1, <2>2, <2>3, GotoType DEF SaveState, TypeOK
<1>8. CASE LogState(t)
  <2>1. log' \in LogRecords
    BY <1>0, <1>1, <1>8, LogRecordFields DEF LogState, TypeOK
  <2>2. { "tool", "memory", "snapshot" } \subseteq PCs
    BY DEF PCs
  <2>3. pc' \in [Threads -> PCs] /\ mem' \in [Threads -> ThreadRecords]
    BY <1>0, <1>8, <2>2, GotoType, EnterType, StatesEntered
    DEF LogState, AfterLog, TypeOK, Terminal
  <2> QED
    BY <1>0, <1>8, <2>1, <2>3 DEF LogState, TypeOK
<1>9. CASE WriteSnapshot(t)
  <2>1. snapshot' \in RunRecords
    BY <1>1, <1>9 DEF WriteSnapshot, RunRecords
  <2> QED
    BY <1>0, <1>9, <2>1, ReturnType DEF WriteSnapshot, TypeOK
<1>10. CASE RecordDecision(t)
  <2>1. approvals' \in [Steps -> ApprovalRecords]
    BY <1>0, <1>2, <1>10, ApprovalRecordFields DEF RecordDecision, TypeOK
  <2>2. "grant" \in PCs
    BY DEF PCs
  <2> QED
    BY <1>0, <1>10, <2>1, <2>2, GotoType DEF RecordDecision, TypeOK
<1>11. CASE RecordGrant(t)
  <2>1. approvals' \in [Steps -> ApprovalRecords]
    BY <1>0, <1>1, <1>2, <1>11, ApprovalRecordFields DEF RecordGrant, TypeOK
  <2>2. "resume" \in PCs
    BY DEF PCs
  <2> QED
    BY <1>0, <1>11, <2>1, <2>2, GotoType DEF RecordGrant, TypeOK
<1>12. CASE ContinueGrant(t)
  <2>1. "validate" \in PCs
    BY DEF PCs
  <2>2. m.step \in Steps
    BY <1>12, StepKnown DEF ContinueGrant, At, WithStep, PCs
  <2>3. CASE Accepted(t, m.step, m.token, "validate") /\ UNCHANGED lock
    BY <1>0, <1>1, <1>12, <2>1, <2>2, <2>3, AcceptedType
    DEF ContinueGrant, TypeOK
  <2>4. CASE Return(t) /\ UNCHANGED run
    BY <1>0, <1>12, <2>4, ReturnType DEF ContinueGrant, TypeOK
  <2> QED
    BY <1>12, <2>3, <2>4 DEF ContinueGrant
<1>13. CASE Validate(t)
  <2>1. "consume" \in PCs
    BY DEF PCs
  <2>2. /\ pc' \in [Threads -> PCs] /\ mem' \in [Threads -> ThreadRecords]
        /\ lock' \in Operators \cup { Nobody }
    BY <1>0, <1>13, <2>1, GotoType, EnterType, ReturnType, StatesEntered
    DEF Validate, TypeOK, Terminal
  <2> QED
    BY <1>0, <1>13, <2>2 DEF Validate, TypeOK, disk
<1>14. CASE Consume(t)
  <2>1. "unpend" \in PCs
    BY DEF PCs
  <2>2. /\ pc' \in [Threads -> PCs] /\ mem' \in [Threads -> ThreadRecords]
        /\ lock' \in Operators \cup { Nobody }
    BY <1>0, <1>14, <2>1, GotoType, EnterType, ReturnType, StatesEntered
    DEF Consume, TypeOK, Terminal
  <2>3. registry \in Registries
    BY <1>0 DEF TypeOK
  <2>4. \/ approvals' = approvals
        \/ approvals' = [approvals EXCEPT ![m.step].consumption = registry]
    BY <1>14 DEF Consume
  <2>5. approvals' \in [Steps -> ApprovalRecords]
    <3>1. m.step \in Steps
      BY <1>14, StepKnown DEF Consume, At, WithStep, PCs
    <3>2. [approvals[m.step] EXCEPT !.consumption = registry]
            \in ApprovalRecords
      BY <1>2, <2>3, <3>1, ApprovalRecordFields
    <3> QED
      BY <1>0, <2>4, <3>1, <3>2 DEF TypeOK
  <2> QED
    BY <1>0, <1>14, <2>2, <2>5 DEF Consume, TypeOK
<1>15. CASE SaveUnpended(t)
  <2>1. [m EXCEPT !.pending = NoStep, !.approved = TRUE, !.target = "executing"]
          \in ThreadRecords
    BY <1>1, StatesEntered DEF ThreadRecords
  <2>2. run' \in RunRecords
    BY <1>1, <1>15 DEF SaveUnpended, RunRecords
  <2>3. "save" \in PCs
    BY DEF PCs
  <2> QED
    BY <1>0, <1>15, <2>1, <2>2, <2>3, GotoType DEF SaveUnpended, TypeOK
<1>16. CASE RecordDenial(t)
  <2>1. approvals' \in [Steps -> ApprovalRecords]
    BY <1>0, <1>2, <1>16, ApprovalRecordFields DEF RecordDenial, TypeOK
  <2> QED
    BY <1>0, <1>16, <2>1, EnterType, StatesEntered DEF RecordDenial, TypeOK, Terminal
<1>17. CASE InvokeTool(t)
  <2>1. "receipt" \in PCs
    BY DEF PCs
  <2>2. mem' \in [Threads -> ThreadRecords]
    BY <1>0, <1>1, <1>17, ThreadRecordFields DEF InvokeTool, TypeOK
  <2>3. effects' \in [Steps -> Nat]
    <3>1. \/ effects' = [effects EXCEPT ![m.step] = effects[m.step] + 1]
          \/ effects' = [effects EXCEPT ![m.step] = effects[m.step]]
      BY <1>17 DEF InvokeTool
    <3> QED
      BY <1>0, <3>1 DEF TypeOK
  <2> QED
    BY <1>0, <1>17, <2>1, <2>2, <2>3, GotoType DEF InvokeTool, TypeOK
<1>18. CASE RecordReceipt(t)
  <2>1. "finish" \in PCs
    BY DEF PCs
  <2>2. receipts' \subseteq Steps
    <3>1. m.step \in Steps
      BY <1>18, StepKnown DEF RecordReceipt, At, WithStep, PCs
    <3> QED
      BY <1>0, <1>18, <3>1 DEF RecordReceipt, TypeOK
  <2> QED
    BY <1>0, <1>18, <2>1, <2>2, GotoType DEF RecordReceipt, TypeOK
<1>19. CASE LogFinished(t)
  <2>1. log' \in LogRecords
    BY <1>0, <1>19, LogRecordFields DEF LogFinished, TypeOK
  <2> QED
    BY <1>0, <1>19, <2>1, EnterType, StatesEntered DEF LogFinished, TypeOK
<1>20. CASE CommitMemory(t)
  <2>1. "select" \in PCs
    BY DEF PCs
  <2>2. m.step < NumSteps => m.step + 1 \in Steps
    BY <1>1, StepsAssumption DEF Steps, NoStep
  <2>3. pc' \in [Threads -> PCs] /\ mem' \in [Threads -> ThreadRecords]
    <3>1. CASE \E s \in { "failed", "reporting" } : Enter(t, s)
      BY <1>0, <3>1, EnterType, StatesEntered DEF TypeOK, Terminal
    <3>2. CASE /\ m.step < NumSteps /\ Goto(t, "select")
               /\ mem' = [mem EXCEPT ![t].step = m.step + 1]
      <4>1. [m EXCEPT !.step = m.step + 1] \in ThreadRecords
        BY <1>1, <2>2, <3>2, ThreadRecordFields
      <4> QED
        BY <1>0, <2>1, <3>2, <4>1, GotoType DEF TypeOK
    <3> QED
      BY <1>20, <3>1, <3>2 DEF CommitMemory
  <2> QED
    BY <1>0, <1>20, <2>3 DEF CommitMemory, TypeOK, disk
<1> QED
  BY <1>3, <1>4, <1>5, <1>6, <1>7, <1>8, <1>9, <1>10, <1>11, <1>12, <1>13,
     <1>14, <1>15, <1>16, <1>17, <1>18, <1>19, <1>20 DEF Proceed

\* A call that is let through leaves every variable in its type.
LEMMA CallTypeOK ==
  ASSUME TypeOK, NEW t \in Operators, NEW a \in Steps, Call(t, a)
  PROVE  TypeOK'
<1>1. t \in Threads
  BY DEF Threads
<1>2. { "decide", "validate", "deny", "save" } \subseteq PCs
  BY DEF PCs
<1>3. ASSUME NEW token \in Tokens, Grant(t, a, token)
      PROVE  TypeOK'
  BY <1>1, <1>2, <1>3, AcceptedType DEF Grant, TypeOK
<1>4. ASSUME NEW token \in CallerTokens, Resume(t, a, token)
      PROVE  TypeOK'
  BY <1>1, <1>2, <1>4, AcceptedType, TokensAssumption DEF Resume, TypeOK
<1>5. CASE ResumeDenied(t, a)
  <2>1. [Blank EXCEPT !.state = run.state, !.pending = run.pending,
                      !.target = "halted"] \in ThreadRecords
    BY StatesEntered, BlankType DEF TypeOK, RunRecords, ThreadRecords, Terminal
  <2> QED
    BY <1>1, <1>2, <1>5, <2>1, GotoType DEF ResumeDenied, TypeOK, disk
<1>6. CASE Deny(t, a)
  BY <1>1, <1>2, <1>6, AcceptedType DEF Deny, TypeOK
<1> QED
  BY <1>3, <1>4, <1>5, <1>6 DEF Call

\* So do the environment's steps.
LEMMA EnvironmentTypeOK ==
  ASSUME TypeOK,
         \/ \E kind \in { "request", "grant" }, a \in Steps : Lapse(kind, a)
         \/ Crash
         \/ UNCHANGED vars
  PROVE  TypeOK'
<1>1. ASSUME NEW kind \in { "request", "grant" }, NEW a \in Steps,
             Lapse(kind, a)
      PROVE  TypeOK'
  BY <1>1 DEF Lapse, TypeOK, disk
<1>2. CASE Crash
  <2>1. crashes' \in 0 .. MaxCrashes
    BY <1>2, CrashesAssumption DEF Crash, TypeOK
  <2>2. pc' \in [Threads -> PCs] /\ mem' \in [Threads -> ThreadRecords]
    BY <1>2, BlankType DEF Crash, PCs
  <2> QED
    BY <1>2, <2>1, <2>2 DEF Crash, TypeOK, disk
<1>3. CASE UNCHANGED vars
  BY <1>3 DEF TypeOK, vars
<1> QED
  BY <1>1, <1>2, <1>3

-----------------------------------------------------------------------------
(* What a step of one thread leaves alone.  The run lock is why this is    *)
(* nearly everything: while an operator is inside a call every other       *)
(* operator is idle, and the Creator is past the point where it relies on  *)
(* an untouched journal.                                                   *)

\* The parts of IInv that do not speak of t.
OthersKept(t) ==
  /\ LockInv'
  /\ \A u \in Threads \ { t } : StateInv(u)'
  /\ \A u \in Operators \ { t } : OperatorInv(u)'
  /\ t # Creator => CreatorInv'

\* The parts that speak of t alone.
OwnKept(t) ==
  /\ StateInv(t)'
  /\ t \in Operators => OperatorInv(t)'
  /\ t = Creator => CreatorInv'

\* The journal stays consistent and what was passed stays passed.
JournalStep ==
  JournalInv' /\ \A i \in Steps : Passed(i) => Passed(i)'

\* Together with the types, the journal and the reports they are all of IInv.
LEMMA Assemble ==
  ASSUME NEW t \in Threads, TypeOK', JournalStep, ReportInv', OthersKept(t),
         OwnKept(t)
  PROVE  IInv'
BY ThreadsAssumption DEF IInv, JournalStep, OthersKept, OwnKept, Threads

\* An idle operator relies on nothing.
LEMMA IdleKept ==
  ASSUME NEW u \in Threads, pc'[u] \in { "idle", "done" }
  PROVE  StateInv(u)' /\ OperatorInv(u)'
BY DEF StateInv, OperatorInv, WithStep, Recorded, Taking

\* While t may write, the operators other than t are idle.
LEMMA OthersIdle ==
  ASSUME IInv, NEW t \in Threads, lock = IF t = Creator THEN Nobody ELSE t,
         NEW u \in Operators \ { t }
  PROVE  pc[u] = "idle"
BY ThreadsAssumption DEF IInv, LockInv

\* A thread whose program counter and memory do not change keeps what it says
\* of its own state.
LEMMA StateKept ==
  ASSUME NEW u \in Threads, StateInv(u), pc'[u] = pc[u], mem'[u] = mem[u]
  PROVE  StateInv(u)'
BY DEF StateInv

\* While an operator holds the lock, or once a request is recorded, the
\* Creator does not need the journal any more.
LEMMA CreatorKept ==
  ASSUME IInv, pc'[Creator] = pc[Creator], mem'[Creator] = mem[Creator],
         UNCHANGED << registry, crashes >>,
         pc[Creator] \notin { "select", "request" }
  PROVE  CreatorInv'
BY DEF IInv, CreatorInv

\* One write that leaves the call under way.
LEMMA MoveOn ==
  ASSUME IInv, NEW t \in Threads, pc[t] \notin { "idle", "done" },
         lock = IF t = Creator THEN Nobody ELSE t,
         NEW label \in PCs \ { "idle", "done" }, Goto(t, label),
         \A u \in Threads \ { t } : mem'[u] = mem[u],
         UNCHANGED << lock, registry, crashes >>
  PROVE  OthersKept(t)
<1>1. pc \in [Threads -> PCs]
  BY DEF IInv, TypeOK
<1>2. /\ pc'[t] = label
      /\ \A u \in Threads \ { t } : pc'[u] = pc[u]
  BY <1>1 DEF Goto
<1>3. LockInv'
  BY <1>2, ThreadsAssumption DEF IInv, LockInv, Threads
<1>4. \A u \in Operators \ { t } : pc'[u] = "idle"
  BY <1>2, OthersIdle DEF Threads
<1>5. \A u \in Operators \ { t } : OperatorInv(u)'
  BY <1>4, IdleKept DEF Threads
<1>6. \A u \in Threads \ { t } : StateInv(u)'
  BY <1>2, StateKept DEF IInv
<1>7. t # Creator => CreatorInv'
  <2> SUFFICES ASSUME t # Creator PROVE CreatorInv'
    OBVIOUS
  <2>1. lock # Nobody
    BY ThreadsAssumption DEF Threads
  <2>2. pc[Creator] \notin { "select", "request" }
    BY <2>1 DEF IInv, CreatorInv
  <2> QED
    BY <1>2, <2>2, CreatorKept DEF Threads
<1> QED
  BY <1>3, <1>5, <1>6, <1>7 DEF OthersKept

\* The end of a call disturbs nobody and leaves nothing to rely on.
LEMMA LeaveKeeps ==
  ASSUME IInv, NEW t \in Threads, pc[t] \notin { "idle", "done" },
         lock = IF t = Creator THEN Nobody ELSE t,
         Return(t), UNCHANGED << registry, crashes >>
  PROVE  OthersKept(t) /\ OwnKept(t)
<1>1. pc \in [Threads -> PCs] /\ mem \in [Threads -> ThreadRecords]
  BY DEF IInv, TypeOK
<1>2. /\ pc'[t] = IF t = Creator THEN "done" ELSE "idle"
      /\ \A u \in Threads \ { t } : pc'[u] = pc[u] /\ mem'[u] = mem[u]
      /\ lock' = Nobody
  BY <1>1 DEF Return, Goto
<1>3. \A u \in Operators \ { t } : pc[u] = "idle"
  BY OthersIdle
<1>4. \A u \in Operators : pc'[u] = "idle"
  BY <1>2, <1>3, ThreadsAssumption DEF Threads
<1>5. LockInv'
  BY <1>2, <1>4, ThreadsAssumption DEF LockInv, Threads
<1>6. \A u \in Operators : OperatorInv(u)'
  BY <1>4, IdleKept DEF Threads
<1>7. \A u \in Threads : StateInv(u)'
  <2>1. StateInv(t)'
    BY <1>2, IdleKept
  <2>2. ASSUME NEW u \in Threads \ { t } PROVE StateInv(u)'
    BY <1>2, StateKept DEF IInv
  <2> QED
    BY <2>1, <2>2
<1>8. CreatorInv'
  <2>1. CASE t = Creator
    BY <1>2, <2>1 DEF IInv, CreatorInv
  <2>2. CASE t # Creator
    <3>1. lock # Nobody
      BY <2>2, ThreadsAssumption DEF Threads
    <3>2. pc[Creator] \notin { "select", "request" }
      BY <3>1 DEF IInv, CreatorInv
    <3> QED
      BY <1>2, <2>2, <3>2, CreatorKept DEF Threads
  <2> QED
    BY <2>1, <2>2
<1> QED
  BY <1>5, <1>6, <1>7, <1>8 DEF OthersKept, OwnKept

\* A new call finds every other operator idle.
LEMMA EnterCall ==
  ASSUME IInv, NEW t \in Operators, pc[t] = "idle", lock = Nobody, lock' = t,
         NEW label \in PCs \ { "idle", "done" }, Goto(t, label),
         \A u \in Threads \ { t } : mem'[u] = mem[u],
         UNCHANGED << registry, crashes >>,
         pc[Creator] \notin { "select", "request" }
  PROVE  OthersKept(t)
<1>1. pc \in [Threads -> PCs]
  BY DEF IInv, TypeOK
<1>2. /\ pc'[t] = label
      /\ \A u \in Threads \ { t } : pc'[u] = pc[u]
  BY <1>1 DEF Goto, Threads
<1>3. \A u \in Operators : pc[u] = "idle"
  BY ThreadsAssumption DEF IInv, LockInv
<1>4. LockInv'
  BY <1>2, <1>3 DEF LockInv, Threads
<1>5. \A u \in Operators \ { t } : OperatorInv(u)'
  BY <1>2, <1>3, IdleKept DEF Threads
<1>6. \A u \in Threads \ { t } : StateInv(u)'
  BY <1>2, StateKept DEF IInv
<1>7. CreatorInv'
  BY <1>2, CreatorKept, ThreadsAssumption DEF Threads
<1> QED
  BY <1>4, <1>5, <1>6, <1>7 DEF OthersKept

\* The invariant of the journal speaks of three files.
LEMMA JournalKept ==
  ASSUME IInv, UNCHANGED << approvals, effects, receipts >>
  PROVE  JournalStep
BY DEF IInv, JournalStep, JournalInv, Coherent, Passed, Cleared, Untouched,
   Authorized

\* Only an operator gets past the snapshot that ends the Creator's call.
LEMMA OperatorOnly ==
  ASSUME IInv, NEW t \in Threads,
         pc[t] \notin { "done", "select", "request", "pend", "announce",
                        "save", "log", "snapshot" }
  PROVE  t \in Operators /\ t # Creator /\ OperatorInv(t)
BY ThreadsAssumption DEF IInv, CreatorInv, Threads

\* What Goto says, point by point.
LEMMA GotoFacts ==
  ASSUME IInv, NEW t \in Threads, NEW label, Goto(t, label)
  PROVE  pc'[t] = label /\ \A u \in Threads \ { t } : pc'[u] = pc[u]
BY DEF IInv, TypeOK, Goto

\* What Enter says, point by point.
LEMMA EnterFacts ==
  ASSUME IInv, NEW t \in Threads, NEW s \in States, Enter(t, s)
  PROVE  /\ pc'[t] = "save" /\ Goto(t, "save") /\ "save" \in PCs
         /\ mem'[t].target = s /\ mem'[t].state = mem[t].state
         /\ mem'[t].step = mem[t].step /\ mem'[t].approved = mem[t].approved
         /\ \A u \in Threads \ { t } : mem'[u] = mem[u]
<1>1. mem \in [Threads -> ThreadRecords]
  BY DEF IInv, TypeOK
<1>2. mem[t] \in ThreadRecords
  BY <1>1
<1>3. mem'[t] = [mem[t] EXCEPT !.target = s]
  BY <1>1 DEF Enter
<1>4. /\ mem'[t].target = s /\ mem'[t].state = mem[t].state
      /\ mem'[t].step = mem[t].step /\ mem'[t].approved = mem[t].approved
  BY <1>2, <1>3 DEF ThreadRecords
<1>5. \A u \in Threads \ { t } : mem'[u] = mem[u]
  BY <1>1 DEF Enter
<1> QED
  BY <1>4, <1>5, GotoFacts DEF Enter, PCs

\* A thread on its way to a state that needs no approval relies only on the
\* transition being legal and, when it reports, on every step being passed.
LEMMA EnterKeeps ==
  ASSUME IInv, NEW t \in Threads, pc[t] \notin { "idle", "done" },
         lock = IF t = Creator THEN Nobody ELSE t,
         NEW s \in { "awaiting_approval", "reporting", "completed", "failed",
                     "halted" },
         Enter(t, s), CanTransition(mem[t].state, s),
         t = Creator => s = "awaiting_approval",
         s \in { "reporting", "completed" } => \A j \in Steps : Passed(j)',
         UNCHANGED << lock, registry, crashes >>
  PROVE  OthersKept(t) /\ OwnKept(t)
<1>1. s \in States
  BY StatesEntered DEF Terminal
<1>2. /\ pc'[t] = "save" /\ Goto(t, "save") /\ "save" \in PCs
      /\ mem'[t].target = s /\ mem'[t].state = mem[t].state
      /\ mem'[t].step = mem[t].step
      /\ \A u \in Threads \ { t } : mem'[u] = mem[u]
  BY <1>1, EnterFacts
<1>3. OthersKept(t)
  BY <1>2, MoveOn
<1>4. StateInv(t)'
  BY <1>2 DEF StateInv
<1>5. t \in Operators => OperatorInv(t)'
  BY <1>2 DEF OperatorInv, WithStep, Recorded, Taking
<1>6. t = Creator => CreatorInv'
  BY <1>2 DEF IInv, CreatorInv
<1> QED
  BY <1>3, <1>4, <1>5, <1>6 DEF OwnKept

-----------------------------------------------------------------------------
(* Every write keeps the invariant.                                        *)

\* Selecting a step: a gated one goes on to ask, and in the build that started
\* the run step 1 is gated, so the Creator never goes on to execute.
LEMMA SelectKeeps ==
  ASSUME IInv, NEW t \in Threads, Select(t)
  PROVE  JournalStep /\ OthersKept(t) /\ OwnKept(t)
<1> DEFINE i == mem[t].step
<1>1. /\ pc[t] = "select" /\ lock = IF t = Creator THEN Nobody ELSE t
      /\ UNCHANGED << approvals, effects, receipts, registry, lock, crashes >>
  BY DEF Select, At
<1>2. JournalStep
  BY <1>1, JournalKept
<1>3. mem[t].state \in { "action_selection", "memory_commit" }
  BY <1>1 DEF IInv, StateInv
<1>4. CASE Gated(i) /\ Goto(t, "request") /\ UNCHANGED mem
  <2>1. pc'[t] = "request" /\ "request" \in PCs
    BY <1>4, GotoFacts DEF PCs
  <2>2. OthersKept(t)
    BY <1>1, <1>4, <2>1, MoveOn
  <2>3. StateInv(t)'
    BY <1>3, <1>4, <2>1 DEF StateInv
  <2>4. t \in Operators => OperatorInv(t)'
    BY <1>1, <1>4, <2>1 DEF IInv, OperatorInv, WithStep, PCs, Recorded, Taking,
       Untouched, Front, Passed, Cleared
  <2>5. t = Creator => CreatorInv'
    BY <1>1, <1>4, <2>1 DEF IInv, CreatorInv, Untouched
  <2> QED
    BY <1>2, <2>2, <2>3, <2>4, <2>5 DEF OwnKept
<1>5. CASE /\ ~Gated(i) /\ Goto(t, "save")
           /\ mem' = [mem EXCEPT ![t].target = "executing",
                                 ![t].approved = FALSE]
  <2>1. /\ mem \in [Threads -> ThreadRecords]
        /\ mem[t] \in ThreadRecords
    BY DEF IInv, TypeOK
  <2>2. mem'[t] = [mem[t] EXCEPT !.target = "executing", !.approved = FALSE]
    BY <1>5, <2>1
  <2>3. /\ mem'[t].target = "executing" /\ mem'[t].state = mem[t].state
        /\ mem'[t].step = i /\ mem'[t].approved = FALSE
    BY <2>1, <2>2 DEF ThreadRecords
  <2>4. pc'[t] = "save" /\ "save" \in PCs
    BY <1>5, GotoFacts DEF PCs
  <2>5. t # Creator
    <3>1. Gated(1) \/ registry # "v1"
      BY StepsAssumption DEF Gated
    <3> QED
      BY <1>1, <1>5, <3>1 DEF IInv, CreatorInv
  <2>6. OthersKept(t)
    BY <1>1, <1>5, <2>1, <2>4, MoveOn
  <2>7. StateInv(t)'
    BY <1>3, <2>3, <2>4 DEF StateInv, CanTransition, Transitions
  <2>8. t \in Operators => OperatorInv(t)'
    BY <1>1, <1>5, <2>3, <2>4 DEF IInv, OperatorInv, WithStep, PCs, Recorded, Taking,
       Untouched, Front, Passed, Cleared, Gated
  <2> QED
    BY <1>2, <2>5, <2>6, <2>7, <2>8 DEF OwnKept
<1> QED
  BY <1>4, <1>5 DEF Select

\* Recording a request: the step was untouched and is now at the front, with
\* every earlier step passed and every later one untouched.
LEMMA RecordRequestKeeps ==
  ASSUME IInv, NEW t \in Threads, RecordRequest(t)
  PROVE  JournalStep /\ OthersKept(t) /\ OwnKept(t)
<1> DEFINE i == mem[t].step
<1>1. /\ pc[t] = "request" /\ lock = IF t = Creator THEN Nobody ELSE t
      /\ Goto(t, "pend")
      /\ UNCHANGED << effects, receipts, registry, lock, mem, crashes >>
  BY DEF RecordRequest, At
<1>2. pc'[t] = "pend" /\ "pend" \in PCs
  BY <1>1, GotoFacts DEF PCs
<1>3. i \in Steps /\ Untouched(i) /\ Front(i)
  <2>1. CASE t \in Operators
    BY <1>1, <2>1, StepKnown DEF IInv, OperatorInv, WithStep, PCs
  <2>2. CASE t = Creator
    <3>1. /\ i = 1 /\ 1 \in Steps
          /\ \A j \in Steps : Untouched(j)
      BY <1>1, <2>2, StepsAssumption DEF IInv, CreatorInv, Steps
    <3> QED
      BY <3>1 DEF Front, Steps, Untouched, Passed, Cleared
  <2> QED
    BY <2>1, <2>2 DEF Threads
<1>4. /\ approvals \in [Steps -> ApprovalRecords]
      /\ registry \in Registries /\ registry # Unbound
  BY DEF IInv, TypeOK, Registries, Unbound
<1>5. /\ \A a \in Steps \ { i } : approvals'[a] = approvals[a]
      /\ approvals'[i] = [approvals[i] EXCEPT !.request = registry]
  BY <1>3, <1>4 DEF RecordRequest
<1>6. /\ approvals'[i].request = registry
      /\ approvals'[i].decision = approvals[i].decision
      /\ approvals'[i].grant = approvals[i].grant
      /\ approvals'[i].consumption = approvals[i].consumption
  BY <1>3, <1>4, <1>5 DEF ApprovalRecords
<1>7. /\ approvals[i].decision = "none" /\ approvals[i].grant = NoToken
      /\ approvals[i].consumption = Unbound
  BY <1>3, <1>4 DEF IInv, JournalInv, Coherent, Untouched, ApprovalRecords
<1>8. JournalStep
  <2>1. ASSUME NEW a \in Steps PROVE Coherent(a)'
    <3>1. CASE a = i
      BY <1>6, <1>7, <3>1 DEF Coherent
    <3>2. CASE a # i
      <4>1. approvals'[a] = approvals[a] /\ Coherent(a)
        BY <1>5, <3>2 DEF IInv, JournalInv
      <4> QED
        BY <4>1 DEF Coherent
    <3> QED
      BY <3>1, <3>2
  <2>2. \A a \in Steps : Passed(a) => Passed(a)'
    BY <1>1, <1>3, <1>5 DEF Passed, Cleared, Untouched
  <2>6. ASSUME NEW a \in Steps
        PROVE  (Passed(a) \/ \A j \in Steps : j > a => Untouched(j))'
    <3>1. CASE a < i
      BY <1>3, <2>2, <3>1 DEF Front
    <3>2. CASE a >= i
      BY <1>1, <1>3, <1>5, <3>2 DEF Front, Untouched, Steps
    <3> QED
      BY <1>3, <3>1, <3>2 DEF Steps
  <2>3. \A j \in Steps : effects'[j] <= 1
    BY <1>1 DEF IInv, JournalInv
  <2>4. ASSUME NEW j \in Steps, effects'[j] > 0,
               approvals'[j].request # Unbound
        PROVE  Authorized(j)'
    <3>1. j # i
      BY <1>1, <1>3, <2>4 DEF Untouched
    <3>2. approvals'[j] = approvals[j]
      BY <1>5, <3>1
    <3> QED
      BY <1>1, <2>4, <3>2 DEF IInv, JournalInv, Authorized
  <2>5. \A j \in receipts' : Passed(j)'
    BY <1>1, <2>2 DEF IInv, TypeOK, JournalInv
  <2> QED
    BY <2>1, <2>2, <2>3, <2>4, <2>5, <2>6 DEF JournalStep, JournalInv
<1>9. OthersKept(t)
  BY <1>1, <1>2, MoveOn
<1>10. StateInv(t)'
  BY <1>1, <1>2 DEF IInv, StateInv
<1>11. t \in Operators => OperatorInv(t)'
  BY <1>1, <1>2, <1>3 DEF OperatorInv, WithStep, Recorded, Taking
<1>12. t = Creator => CreatorInv'
  BY <1>1, <1>2 DEF IInv, CreatorInv
<1> QED
  BY <1>8, <1>9, <1>10, <1>11, <1>12 DEF OwnKept

\* Saving the pending approval touches run.json alone.
LEMMA SavePendingKeeps ==
  ASSUME IInv, NEW t \in Threads, SavePending(t)
  PROVE  JournalStep /\ OthersKept(t) /\ OwnKept(t)
<1>1. /\ pc[t] = "pend" /\ lock = IF t = Creator THEN Nobody ELSE t
      /\ Goto(t, "announce")
      /\ mem' = [mem EXCEPT ![t].pending = mem[t].step]
      /\ UNCHANGED << approvals, effects, receipts, registry, lock, crashes >>
  BY DEF SavePending, At
<1>2. pc'[t] = "announce" /\ "announce" \in PCs
  BY <1>1, GotoFacts DEF PCs
<1>3. mem \in [Threads -> ThreadRecords] /\ mem[t] \in ThreadRecords
  BY DEF IInv, TypeOK
<1>4. /\ mem'[t] = [mem[t] EXCEPT !.pending = mem[t].step]
      /\ \A u \in Threads \ { t } : mem'[u] = mem[u]
  BY <1>1, <1>3
<1>5. mem'[t].state = mem[t].state /\ mem'[t].step = mem[t].step
  BY <1>3, <1>4 DEF ThreadRecords
<1>6. JournalStep
  BY <1>1, JournalKept
<1>7. OthersKept(t)
  BY <1>1, <1>2, <1>4, MoveOn
<1>8. StateInv(t)'
  BY <1>1, <1>2, <1>5 DEF IInv, StateInv
<1>9. t \in Operators => OperatorInv(t)'
  <2>1. mem[t].step \in Steps
    BY <1>1, StepKnown DEF WithStep, PCs
  <2> QED
    BY <1>2, <1>5, <2>1 DEF OperatorInv, WithStep, Recorded, Taking
<1>10. t = Creator => CreatorInv'
  BY <1>1, <1>2, <1>5 DEF IInv, CreatorInv
<1> QED
  BY <1>6, <1>7, <1>8, <1>9, <1>10 DEF OwnKept

\* Announcing the request leads to awaiting_approval.
LEMMA AnnounceKeeps ==
  ASSUME IInv, NEW t \in Threads, Announce(t)
  PROVE  JournalStep /\ OthersKept(t) /\ OwnKept(t)
<1>1. /\ pc[t] = "announce" /\ lock = IF t = Creator THEN Nobody ELSE t
      /\ Enter(t, "awaiting_approval")
      /\ UNCHANGED << approvals, effects, receipts, registry, lock, crashes >>
  BY DEF Announce, At
<1>2. CanTransition(mem[t].state, "awaiting_approval")
  BY <1>1 DEF IInv, StateInv, CanTransition, Transitions
<1> QED
  BY <1>1, <1>2, JournalKept, EnterKeeps

\* Saving a transition carries over what holds on the way to it.
LEMMA SaveStateKeeps ==
  ASSUME IInv, NEW t \in Threads, SaveState(t)
  PROVE  JournalStep /\ OthersKept(t) /\ OwnKept(t)
<1>1. /\ pc[t] = "save" /\ lock = IF t = Creator THEN Nobody ELSE t
      /\ Goto(t, "log")
      /\ mem' = [mem EXCEPT ![t].state = mem[t].target]
      /\ UNCHANGED << approvals, effects, receipts, registry, lock, crashes >>
  BY DEF SaveState, At
<1>2. pc'[t] = "log" /\ "log" \in PCs
  BY <1>1, GotoFacts DEF PCs
<1>3. mem \in [Threads -> ThreadRecords] /\ mem[t] \in ThreadRecords
  BY DEF IInv, TypeOK
<1>4. /\ mem'[t] = [mem[t] EXCEPT !.state = mem[t].target]
      /\ \A u \in Threads \ { t } : mem'[u] = mem[u]
  BY <1>1, <1>3
<1>5. /\ mem'[t].state = mem[t].target /\ mem'[t].target = mem[t].target
      /\ mem'[t].step = mem[t].step /\ mem'[t].approved = mem[t].approved
  BY <1>3, <1>4 DEF ThreadRecords
<1>6. JournalStep
  BY <1>1, JournalKept
<1>7. OthersKept(t)
  BY <1>1, <1>2, <1>4, MoveOn
<1>8. StateInv(t)'
  BY <1>2, <1>5 DEF StateInv
<1>9. t \in Operators => OperatorInv(t)'
  BY <1>1, <1>2, <1>5 DEF IInv, OperatorInv, WithStep, Recorded, Taking, Front, Passed,
     Cleared, Untouched, Authorized, Gated
<1>10. t = Creator => CreatorInv'
  BY <1>1, <1>2, <1>5 DEF IInv, CreatorInv
<1> QED
  BY <1>6, <1>7, <1>8, <1>9, <1>10 DEF OwnKept

\* Logging a transition hands what holds on the way to the state over to the
\* write that comes next in it.
LEMMA LogStateKeeps ==
  ASSUME IInv, NEW t \in Threads, LogState(t)
  PROVE  JournalStep /\ OthersKept(t) /\ OwnKept(t)
<1> DEFINE s == mem[t].state
<1>1. /\ pc[t] = "log" /\ lock = IF t = Creator THEN Nobody ELSE t
      /\ UNCHANGED << approvals, effects, receipts, registry, lock, crashes >>
      /\ s = mem[t].target
  BY DEF LogState, At, IInv, StateInv
<1>2. t = Creator => s = "awaiting_approval"
  BY <1>1 DEF IInv, CreatorInv
<1>3. JournalStep
  BY <1>1, JournalKept
<1>4. CASE s = "executing" /\ Goto(t, "tool") /\ UNCHANGED mem
  <2>1. pc'[t] = "tool" /\ "tool" \in PCs
    BY <1>4, GotoFacts DEF PCs
  <2>2. OthersKept(t)
    BY <1>1, <1>4, <2>1, MoveOn
  <2>3. StateInv(t)'
    BY <1>4, <2>1 DEF StateInv
  <2>4. t \in Operators => OperatorInv(t)'
    BY <1>1, <1>4, <2>1 DEF IInv, OperatorInv, WithStep, Recorded, Taking, Front, Passed,
       Cleared, Untouched, Authorized, Gated
  <2> QED
    BY <1>2, <1>3, <1>4, <2>2, <2>3, <2>4 DEF OwnKept
<1>5. CASE s = "observing" /\ Enter(t, "memory_commit")
  <2>1. /\ pc'[t] = "save" /\ Goto(t, "save") /\ "save" \in PCs
        /\ mem'[t].target = "memory_commit" /\ mem'[t].state = mem[t].state
        /\ mem'[t].step = mem[t].step
        /\ \A u \in Threads \ { t } : mem'[u] = mem[u]
    BY <1>5, EnterFacts, StatesEntered
  <2>2. OthersKept(t)
    BY <1>1, <2>1, MoveOn
  <2>3. StateInv(t)'
    BY <1>5, <2>1 DEF StateInv, CanTransition, Transitions
  <2>4. t \in Operators => OperatorInv(t)'
    <3>1. Recorded(t) /\ mem[t].step = mem'[t].step
      BY <1>1, <1>5, <2>1 DEF Recorded, Taking
    <3>2. ASSUME t \in Operators PROVE LET i == mem[t].step IN i \in Steps /\ Passed(i) /\ Front(i)
      BY <3>1, <3>2 DEF IInv, OperatorInv
    <3>3. LET i == mem[t].step IN (Passed(i) => Passed(i)') /\ (Front(i) => Front(i)')
      BY <1>1, <3>1 DEF Passed, Front, Cleared, Untouched
    <3>4. ASSUME t \in Operators
          PROVE  mem'[t].step \in Steps /\ Passed(mem[t].step)' /\ Front(mem[t].step)'
      BY <3>1, <3>2, <3>3, <3>4
    <3>5. ~Taking(t, "executing")' /\ ~Taking(t, "reporting")' /\ ~Taking(t, "completed")'
      BY <2>1 DEF Taking
    <3> QED
      BY <2>1, <3>4, <3>5 DEF OperatorInv, WithStep
  <2> QED
    BY <1>2, <1>3, <1>5, <2>2, <2>3, <2>4 DEF OwnKept
<1>6. CASE s = "memory_commit" /\ Goto(t, "memory") /\ UNCHANGED mem
  <2>1. pc'[t] = "memory" /\ "memory" \in PCs
    BY <1>6, GotoFacts DEF PCs
  <2>2. OthersKept(t)
    BY <1>1, <1>6, <2>1, MoveOn
  <2>3. StateInv(t)'
    BY <1>6, <2>1 DEF StateInv
  <2>4. t \in Operators => OperatorInv(t)'
    BY <1>1, <1>6, <2>1 DEF IInv, OperatorInv, WithStep, Recorded, Taking, Front, Passed,
       Cleared, Untouched
  <2> QED
    BY <1>2, <1>3, <1>6, <2>2, <2>3, <2>4 DEF OwnKept
<1>7. CASE s = "reporting" /\ Enter(t, "completed")
  <2>1. CanTransition(s, "completed")
    BY <1>7 DEF CanTransition, Transitions
  <2>2. \A j \in Steps : Passed(j)'
    <3>1. t \in Operators
      BY <1>2, <1>7 DEF Threads
    <3>2. \A j \in Steps : Passed(j)
      BY <1>1, <1>7, <3>1 DEF IInv, OperatorInv, Taking
    <3> QED
      BY <1>3, <3>2 DEF JournalStep
  <2> QED
    BY <1>1, <1>2, <1>3, <1>7, <2>1, <2>2, EnterKeeps
<1>8. CASE Goto(t, "snapshot") /\ UNCHANGED mem
  <2>1. pc'[t] = "snapshot" /\ "snapshot" \in PCs
    BY <1>8, GotoFacts DEF PCs
  <2>2. OthersKept(t)
    BY <1>1, <1>8, <2>1, MoveOn
  <2>3. StateInv(t)'
    BY <2>1 DEF StateInv
  <2>4. t \in Operators => OperatorInv(t)'
    BY <2>1 DEF OperatorInv, WithStep, Recorded, Taking
  <2>5. t = Creator => CreatorInv'
    BY <1>1, <1>8, <2>1 DEF IInv, CreatorInv
  <2> QED
    BY <1>3, <2>2, <2>3, <2>4, <2>5 DEF OwnKept
<1> QED
  BY <1>4, <1>5, <1>6, <1>7, <1>8 DEF LogState, AfterLog

\* The snapshot ends the call.
LEMMA WriteSnapshotKeeps ==
  ASSUME IInv, NEW t \in Threads, WriteSnapshot(t)
  PROVE  JournalStep /\ OthersKept(t) /\ OwnKept(t)
BY JournalKept, LeaveKeeps DEF WriteSnapshot, At

-----------------------------------------------------------------------------
(* The writes of the approval journal by an operator.                      *)

\* A rewritten record of approval i leaves the journal consistent when it is
\* coherent, keeps what was passed, and only follows what it authorised.
LEMMA RewriteJournal ==
  ASSUME IInv, NEW i \in Steps, UNCHANGED << effects, receipts >>,
         \A a \in Steps \ { i } : approvals'[a] = approvals[a],
         approvals[i].request # Unbound,
         approvals'[i].request = approvals[i].request,
         approvals[i].consumption = Unbound,
         Coherent(i)'
  PROVE  JournalStep
<1>1. ASSUME NEW a \in Steps PROVE Coherent(a)'
  <2>1. CASE a # i
    <3>1. approvals'[a] = approvals[a] /\ Coherent(a)
      BY <2>1 DEF IInv, JournalInv
    <3> QED
      BY <3>1 DEF Coherent
  <2> QED
    BY <2>1
<1>2. effects[i] = 0 /\ i \notin receipts /\ ~Passed(i)
  BY DEF IInv, TypeOK, JournalInv, Authorized, Passed, Cleared
<1>3. \A a \in Steps :
        (Passed(a) => Passed(a)') /\ (Untouched(a) => Untouched(a)')
  BY <1>2 DEF Passed, Cleared, Untouched
<1>4. ASSUME NEW a \in Steps
      PROVE  (Passed(a) \/ \A j \in Steps : j > a => Untouched(j))'
  BY <1>3 DEF IInv, JournalInv
<1>5. \A j \in Steps : effects'[j] <= 1
  BY DEF IInv, JournalInv
<1>6. ASSUME NEW j \in Steps, effects'[j] > 0, approvals'[j].request # Unbound
      PROVE  Authorized(j)'
  <2>1. j # i
    BY <1>2, <1>6
  <2>2. approvals'[j] = approvals[j]
    BY <2>1
  <2> QED
    BY <1>6, <2>2 DEF IInv, JournalInv, Authorized
<1>7. \A j \in receipts' : Passed(j)'
  BY <1>3 DEF IInv, TypeOK, JournalInv
<1> QED
  BY <1>1, <1>3, <1>4, <1>5, <1>6, <1>7 DEF JournalStep, JournalInv

\* The approval an operator is about to decide is undecided in every record.
LEMMA Undecided ==
  ASSUME IInv, NEW t \in Operators, pc[t] \in { "decide", "deny" }
  PROVE  /\ mem[t].step \in Steps
         /\ approvals[mem[t].step].request # Unbound
         /\ approvals[mem[t].step].decision = "none"
         /\ approvals[mem[t].step].grant = NoToken
         /\ approvals[mem[t].step].consumption = Unbound
<1>1. mem[t].step \in Steps
  BY StepKnown DEF WithStep, PCs, Threads
<1>2. Coherent(mem[t].step)
  BY <1>1 DEF IInv, JournalInv
<1> QED
  BY <1>1, <1>2 DEF IInv, OperatorInv, Coherent

\* The decision: it was open, and no other record followed it.
LEMMA RecordDecisionKeeps ==
  ASSUME IInv, NEW t \in Threads, RecordDecision(t)
  PROVE  JournalStep /\ OthersKept(t) /\ OwnKept(t)
<1> DEFINE i == mem[t].step
<1>1. /\ pc[t] = "decide" /\ lock = IF t = Creator THEN Nobody ELSE t
      /\ approvals' = [approvals EXCEPT ![i].decision = "granted"]
      /\ Goto(t, "grant")
      /\ UNCHANGED << effects, receipts, registry, lock, mem, crashes >>
  BY DEF RecordDecision, At
<1>2. t \in Operators /\ t # Creator
  BY <1>1, OperatorOnly
<1>3. /\ i \in Steps /\ approvals[i].request # Unbound
      /\ approvals[i].grant = NoToken /\ approvals[i].consumption = Unbound
  BY <1>1, <1>2, Undecided
<1>4. /\ approvals \in [Steps -> ApprovalRecords]
      /\ approvals[i] \in ApprovalRecords
  BY <1>3 DEF IInv, TypeOK
<1>5. /\ \A a \in Steps \ { i } : approvals'[a] = approvals[a]
      /\ approvals'[i] = [approvals[i] EXCEPT !.decision = "granted"]
  BY <1>1, <1>3, <1>4
<1>6. /\ approvals'[i].request = approvals[i].request
      /\ approvals'[i].decision = "granted"
      /\ approvals'[i].grant = NoToken
      /\ approvals'[i].consumption = Unbound
  BY <1>3, <1>4, <1>5 DEF ApprovalRecords
<1>7. JournalStep
  BY <1>1, <1>3, <1>5, <1>6, RewriteJournal DEF Coherent
<1>8. pc'[t] = "grant" /\ "grant" \in PCs
  BY <1>1, GotoFacts DEF PCs
<1>9. OthersKept(t)
  BY <1>1, <1>8, MoveOn
<1>10. StateInv(t)'
  BY <1>1, <1>8 DEF IInv, StateInv
<1>11. OperatorInv(t)'
  BY <1>1, <1>3, <1>6, <1>8 DEF OperatorInv, WithStep, Recorded, Taking
<1> QED
  BY <1>2, <1>7, <1>9, <1>10, <1>11 DEF OwnKept

\* The grant completes the decision; nothing was spent yet.
LEMMA RecordGrantKeeps ==
  ASSUME IInv, NEW t \in Threads, RecordGrant(t)
  PROVE  JournalStep /\ OthersKept(t) /\ OwnKept(t)
<1> DEFINE i == mem[t].step
<1>1. /\ pc[t] = "grant" /\ lock = IF t = Creator THEN Nobody ELSE t
      /\ approvals' = [approvals EXCEPT ![i].grant = mem[t].token]
      /\ Goto(t, "resume")
      /\ UNCHANGED << effects, receipts, registry, lock, mem, crashes >>
  BY DEF RecordGrant, At
<1>2. t \in Operators /\ t # Creator
  BY <1>1, OperatorOnly
<1>3. /\ i \in Steps /\ approvals[i].decision = "granted"
      /\ approvals[i].consumption = Unbound
  BY <1>1, <1>2, StepKnown DEF IInv, OperatorInv, WithStep, PCs
<1>4. /\ approvals \in [Steps -> ApprovalRecords]
      /\ approvals[i] \in ApprovalRecords /\ approvals[i].request # Unbound
  BY <1>3 DEF IInv, TypeOK, JournalInv, Coherent
<1>5. /\ \A a \in Steps \ { i } : approvals'[a] = approvals[a]
      /\ approvals'[i] = [approvals[i] EXCEPT !.grant = mem[t].token]
  BY <1>1, <1>3, <1>4
<1>6. /\ approvals'[i].request = approvals[i].request
      /\ approvals'[i].decision = "granted"
      /\ approvals'[i].consumption = Unbound
  BY <1>3, <1>4, <1>5 DEF ApprovalRecords
<1>7. JournalStep
  BY <1>1, <1>3, <1>4, <1>5, <1>6, RewriteJournal DEF Coherent
<1>8. pc'[t] = "resume" /\ "resume" \in PCs
  BY <1>1, GotoFacts DEF PCs
<1>9. OthersKept(t)
  BY <1>1, <1>8, MoveOn
<1>10. StateInv(t)'
  BY <1>1, <1>8 DEF IInv, StateInv
<1>11. OperatorInv(t)'
  BY <1>1, <1>3, <1>8 DEF OperatorInv, WithStep, Recorded, Taking
<1> QED
  BY <1>2, <1>7, <1>9, <1>10, <1>11 DEF OwnKept

\* What _load_authoritative_pending_approval leaves in memory.
LEMMA AcceptedFacts ==
  ASSUME IInv, NEW t \in Threads, NEW a, NEW token, NEW label,
         Accepted(t, a, token, label)
  PROVE  /\ pc'[t] = label /\ Goto(t, label)
         /\ mem'[t].state = "awaiting_approval" /\ mem'[t].step = a
         /\ \A u \in Threads \ { t } : mem'[u] = mem[u]
<1>1. mem \in [Threads -> ThreadRecords]
  BY DEF IInv, TypeOK
<1>2. mem'[t] = [Blank EXCEPT !.state = "awaiting_approval", !.pending = a,
                              !.step = a, !.token = token]
  BY <1>1 DEF Accepted
<1>3. mem'[t].state = "awaiting_approval" /\ mem'[t].step = a
  BY <1>2 DEF Blank
<1>4. \A u \in Threads \ { t } : mem'[u] = mem[u]
  BY <1>1 DEF Accepted
<1> QED
  BY <1>3, <1>4, GotoFacts DEF Accepted

\* resume under the lock of grant_approval.
LEMMA ContinueGrantKeeps ==
  ASSUME IInv, NEW t \in Threads, ContinueGrant(t)
  PROVE  JournalStep /\ OthersKept(t) /\ OwnKept(t)
<1> DEFINE i == mem[t].step
<1>1. /\ pc[t] = "resume" /\ lock = IF t = Creator THEN Nobody ELSE t
      /\ UNCHANGED << approvals, effects, receipts, registry, crashes >>
  BY DEF ContinueGrant, At
<1>2. t \in Operators /\ t # Creator
  BY <1>1, OperatorOnly
<1>3. JournalStep
  BY <1>1, JournalKept
<1>4. CASE Accepted(t, i, mem[t].token, "validate") /\ UNCHANGED lock
  <2>1. i \in Steps /\ "validate" \in PCs
    BY <1>1, StepKnown DEF WithStep, PCs
  <2>2. /\ pc'[t] = "validate" /\ Goto(t, "validate")
        /\ mem'[t].state = "awaiting_approval" /\ mem'[t].step = i
        /\ \A u \in Threads \ { t } : mem'[u] = mem[u]
    BY <1>4, AcceptedFacts
  <2>3. OthersKept(t)
    BY <1>1, <1>4, <2>1, <2>2, MoveOn
  <2>4. StateInv(t)'
    BY <2>2 DEF StateInv
  <2>5. OperatorInv(t)'
    BY <2>1, <2>2 DEF OperatorInv, WithStep, Recorded, Taking
  <2> QED
    BY <1>2, <1>3, <2>3, <2>4, <2>5 DEF OwnKept
<1>5. CASE Return(t)
  BY <1>1, <1>3, <1>5, LeaveKeeps
<1> QED
  BY <1>4, <1>5 DEF ContinueGrant

\* The first validation decides between going on, failing and leaving.
LEMMA ValidateKeeps ==
  ASSUME IInv, NEW t \in Threads, Validate(t)
  PROVE  JournalStep /\ OthersKept(t) /\ OwnKept(t)
<1>1. /\ pc[t] = "validate" /\ lock = IF t = Creator THEN Nobody ELSE t
      /\ UNCHANGED << approvals, effects, receipts, registry, crashes >>
  BY DEF Validate, At, disk
<1>2. t \in Operators /\ t # Creator
  BY <1>1, OperatorOnly
<1>3. mem[t].state = "awaiting_approval"
  BY <1>1 DEF IInv, StateInv
<1>4. JournalStep
  BY <1>1, JournalKept
<1>5. CASE Goto(t, "consume") /\ UNCHANGED << mem, lock >>
  <2>1. pc'[t] = "consume" /\ "consume" \in PCs
    BY <1>5, GotoFacts DEF PCs
  <2>2. OthersKept(t)
    BY <1>1, <1>5, <2>1, MoveOn
  <2>3. StateInv(t)'
    BY <1>3, <1>5, <2>1 DEF StateInv
  <2>4. OperatorInv(t)'
    <3>1. mem[t].step \in Steps
      BY <1>1, StepKnown DEF WithStep, PCs
    <3> QED
      BY <1>5, <2>1, <3>1 DEF OperatorInv, WithStep, Recorded, Taking
  <2> QED
    BY <1>2, <1>4, <2>2, <2>3, <2>4 DEF OwnKept
<1>6. CASE Enter(t, "failed") /\ UNCHANGED lock
  <2>1. CanTransition(mem[t].state, "failed")
    BY <1>3 DEF CanTransition, Terminal
  <2> QED
    BY <1>1, <1>2, <1>4, <1>6, <2>1, EnterKeeps
<1>7. CASE Return(t)
  BY <1>1, <1>4, <1>7, LeaveKeeps
<1> QED
  BY <1>5, <1>6, <1>7 DEF Validate

\* The consumption: a status "granted" means that nothing was spent, so the
\* tool did not run yet and no later step was touched.
LEMMA ConsumeKeeps ==
  ASSUME IInv, NEW t \in Threads, Consume(t)
  PROVE  JournalStep /\ OthersKept(t) /\ OwnKept(t)
<1> DEFINE i == mem[t].step
           r == approvals[i]
<1>1. /\ pc[t] = "consume" /\ lock = IF t = Creator THEN Nobody ELSE t
      /\ UNCHANGED << effects, receipts, registry, crashes >>
  BY DEF Consume, At
<1>2. t \in Operators /\ t # Creator
  BY <1>1, OperatorOnly
<1>3. mem[t].state = "awaiting_approval" /\ i \in Steps
  BY <1>1, StepKnown DEF IInv, StateInv, WithStep, PCs
<1>4. CASE /\ Status(i) = "granted" /\ GrantHolds(i, mem[t].token)
           /\ BindingMatches(i)
           /\ approvals' = [approvals EXCEPT ![i].consumption = registry]
           /\ Goto(t, "unpend") /\ UNCHANGED << mem, lock >>
  <2>1. /\ r.request # Unbound /\ r.decision = "granted"
        /\ r.consumption = Unbound /\ r.grant # NoToken
        /\ r.request = registry
    BY <1>4 DEF Status, GrantHolds, BindingMatches
  <2>2. /\ approvals \in [Steps -> ApprovalRecords]
        /\ r \in ApprovalRecords
    BY <1>3 DEF IInv, TypeOK
  <2>3. /\ \A a \in Steps \ { i } : approvals'[a] = approvals[a]
        /\ approvals'[i] = [r EXCEPT !.consumption = registry]
    BY <1>3, <1>4, <2>2
  <2>4. /\ approvals'[i].request = registry
        /\ approvals'[i].decision = "granted"
        /\ approvals'[i].grant = r.grant
        /\ approvals'[i].consumption = registry
    BY <2>1, <2>2, <2>3 DEF ApprovalRecords
  <2>5. JournalStep
    BY <1>1, <1>3, <2>1, <2>3, <2>4, RewriteJournal DEF Coherent
  <2>6. effects[i] = 0 /\ ~Passed(i)
    BY <1>3, <2>1 DEF IInv, TypeOK, JournalInv, Authorized, Passed, Cleared
  <2>7. Front(i)'
    <3>1. \A j \in Steps : j > i => Untouched(j)
      BY <1>3, <2>6 DEF IInv, JournalInv
    <3>2. \A j \in Steps : j < i => Passed(j)
      BY <1>3, <2>1 DEF IInv, JournalInv, Untouched, Steps
    <3> QED
      BY <1>1, <1>3, <1>4, <2>3, <3>1, <3>2
      DEF Front, Passed, Cleared, Untouched, Steps
  <2>8. pc'[t] = "unpend" /\ "unpend" \in PCs
    BY <1>4, GotoFacts DEF PCs
  <2>9. OthersKept(t)
    BY <1>1, <1>4, <2>8, MoveOn
  <2>10. StateInv(t)'
    BY <1>3, <1>4, <2>8 DEF StateInv
  <2>11. Authorized(i)'
    BY <1>4, <2>1, <2>4 DEF Authorized
  <2>12. OperatorInv(t)'
    BY <1>1, <1>3, <1>4, <2>6, <2>7, <2>8, <2>11
    DEF OperatorInv, WithStep, Recorded, Taking
  <2> QED
    BY <1>2, <2>5, <2>9, <2>10, <2>12 DEF OwnKept
<1>5. CASE Enter(t, "failed") /\ UNCHANGED << approvals, lock >>
  <2>1. CanTransition(mem[t].state, "failed")
    BY <1>3 DEF CanTransition, Terminal
  <2> QED
    BY <1>1, <1>2, <1>5, <2>1, JournalKept, EnterKeeps
<1>6. CASE Return(t) /\ UNCHANGED approvals
  BY <1>1, <1>6, JournalKept, LeaveKeeps
<1> QED
  BY <1>4, <1>5, <1>6 DEF Consume

\* Unpending hands the authorisation over to the execution.
LEMMA SaveUnpendedKeeps ==
  ASSUME IInv, NEW t \in Threads, SaveUnpended(t)
  PROVE  JournalStep /\ OthersKept(t) /\ OwnKept(t)
<1> DEFINE m == mem[t]
<1>1. /\ pc[t] = "unpend" /\ lock = IF t = Creator THEN Nobody ELSE t
      /\ Goto(t, "save")
      /\ mem' = [mem EXCEPT ![t].pending = NoStep, ![t].approved = TRUE,
                            ![t].target = "executing"]
      /\ UNCHANGED << approvals, effects, receipts, registry, lock, crashes >>
  BY DEF SaveUnpended, At
<1>2. t \in Operators /\ t # Creator
  BY <1>1, OperatorOnly
<1>3. mem \in [Threads -> ThreadRecords] /\ m \in ThreadRecords
  BY DEF IInv, TypeOK
<1>4. /\ mem'[t] = [m EXCEPT !.pending = NoStep, !.approved = TRUE,
                             !.target = "executing"]
      /\ \A u \in Threads \ { t } : mem'[u] = mem[u]
  BY <1>1, <1>3
<1>5. /\ mem'[t].state = m.state /\ mem'[t].step = m.step
      /\ mem'[t].approved = TRUE /\ mem'[t].target = "executing"
  BY <1>3, <1>4 DEF ThreadRecords
<1>6. m.state = "awaiting_approval" /\ m.step \in Steps
  BY <1>1, StepKnown DEF IInv, StateInv, WithStep, PCs
<1>7. pc'[t] = "save" /\ "save" \in PCs
  BY <1>1, GotoFacts DEF PCs
<1>8. JournalStep
  BY <1>1, JournalKept
<1>9. OthersKept(t)
  BY <1>1, <1>4, <1>7, MoveOn
<1>10. StateInv(t)'
  BY <1>5, <1>6, <1>7 DEF StateInv, CanTransition, Transitions
<1>11. Authorized(m.step) /\ effects[m.step] = 0 /\ Front(m.step)
  BY <1>1, <1>2 DEF IInv, OperatorInv
<1>12. (/\ Authorized(mem[t].step) /\ effects[mem[t].step] = 0
        /\ Front(mem[t].step))'
  BY <1>1, <1>5, <1>11 DEF Front, Passed, Cleared, Untouched, Authorized
<1>13. OperatorInv(t)'
  BY <1>5, <1>6, <1>7, <1>12 DEF OperatorInv, WithStep, Recorded, Taking
<1> QED
  BY <1>2, <1>8, <1>9, <1>10, <1>13 DEF OwnKept

\* The denial: the decision was open, and the run is on its way to halt.
LEMMA RecordDenialKeeps ==
  ASSUME IInv, NEW t \in Threads, RecordDenial(t)
  PROVE  JournalStep /\ OthersKept(t) /\ OwnKept(t)
<1> DEFINE i == mem[t].step
<1>1. /\ pc[t] = "deny" /\ lock = IF t = Creator THEN Nobody ELSE t
      /\ approvals' = [approvals EXCEPT ![i].decision = "denied"]
      /\ Enter(t, "halted")
      /\ UNCHANGED << effects, receipts, registry, lock, crashes >>
  BY DEF RecordDenial, At
<1>2. t \in Operators /\ t # Creator
  BY <1>1, OperatorOnly
<1>3. /\ i \in Steps /\ approvals[i].request # Unbound
      /\ approvals[i].grant = NoToken /\ approvals[i].consumption = Unbound
  BY <1>1, <1>2, Undecided
<1>4. /\ approvals \in [Steps -> ApprovalRecords]
      /\ approvals[i] \in ApprovalRecords
  BY <1>3 DEF IInv, TypeOK
<1>5. /\ \A a \in Steps \ { i } : approvals'[a] = approvals[a]
      /\ approvals'[i] = [approvals[i] EXCEPT !.decision = "denied"]
  BY <1>1, <1>3, <1>4
<1>6. /\ approvals'[i].request = approvals[i].request
      /\ approvals'[i].grant = NoToken
      /\ approvals'[i].consumption = Unbound
  BY <1>3, <1>4, <1>5 DEF ApprovalRecords
<1>7. JournalStep
  BY <1>1, <1>3, <1>5, <1>6, RewriteJournal DEF Coherent
<1>8. mem[t].state = "awaiting_approval"
  BY <1>1 DEF IInv, StateInv
<1>9. CanTransition(mem[t].state, "halted")
  BY <1>8 DEF CanTransition, Terminal
<1> QED
  BY <1>1, <1>2, <1>7, <1>9, EnterKeeps

-----------------------------------------------------------------------------
(* The execution of an authorised step.                                    *)

\* The tool runs for the first time, for the step at the front, and only
\* behind a spent approval or none that was asked for.
LEMMA InvokeToolKeeps ==
  ASSUME IInv, NEW t \in Threads, InvokeTool(t)
  PROVE  JournalStep /\ OthersKept(t) /\ OwnKept(t)
<1> DEFINE i == mem[t].step
<1>1. /\ pc[t] = "tool" /\ lock = IF t = Creator THEN Nobody ELSE t
      /\ Goto(t, "receipt")
      /\ UNCHANGED << approvals, receipts, registry, lock, crashes >>
  BY DEF InvokeTool, At
<1>2. t \in Operators /\ t # Creator
  BY <1>1, OperatorOnly
<1>3. /\ i \in Steps /\ effects[i] = 0 /\ Front(i)
      /\ mem[t].approved => Authorized(i)
      /\ ~mem[t].approved => approvals[i].request = Unbound /\ ~Gated(i)
  BY <1>1, <1>2 DEF IInv, OperatorInv
<1>4. Cleared(i) /\ ~Passed(i)
  BY <1>3 DEF Passed, Cleared, Authorized
<1>5. /\ effects \in [Steps -> Nat]
      /\ mem \in [Threads -> ThreadRecords] /\ mem[t] \in ThreadRecords
  BY DEF IInv, TypeOK
<1>6. /\ \A j \in Steps \ { i } : effects'[j] = effects[j]
      /\ effects'[i] = 1
  <2>1. effects' = [effects EXCEPT ![i] = effects[i] + 1]
    BY <1>3 DEF InvokeTool
  <2> QED
    BY <1>3, <1>5, <2>1
<1>7. \A j \in Steps : (Passed(j) => Passed(j)')
  BY <1>1, <1>4, <1>6 DEF Passed, Cleared
<1>8. \A j \in Steps \ { i } : (Untouched(j) => Untouched(j)')
  BY <1>1, <1>6 DEF Untouched
<1>9. JournalStep
  <2>1. \A a \in Steps : Coherent(a)'
    BY <1>1 DEF IInv, JournalInv, Coherent
  <2>2. ASSUME NEW a \in Steps
        PROVE  (Passed(a) \/ \A j \in Steps : j > a => Untouched(j))'
    <3>1. CASE Passed(a)
      BY <1>7, <3>1
    <3>2. CASE ~Passed(a)
      <4>1. a >= i
        BY <1>3, <3>2 DEF Front, Steps
      <4> QED
        BY <1>3, <1>8, <4>1 DEF Front, Steps
    <3> QED
      BY <3>1, <3>2
  <2>3. \A j \in Steps : effects'[j] <= 1
    BY <1>6 DEF IInv, JournalInv
  <2>4. ASSUME NEW j \in Steps, effects'[j] > 0,
               approvals'[j].request # Unbound
        PROVE  Authorized(j)'
    <3>1. CASE j = i
      <4>1. Authorized(i)
        BY <1>1, <1>3, <2>4, <3>1
      <4> QED
        BY <1>1, <3>1, <4>1 DEF Authorized
    <3>2. CASE j # i
      BY <1>1, <1>6, <2>4, <3>2 DEF IInv, JournalInv, Authorized
    <3> QED
      BY <3>1, <3>2
  <2>5. \A j \in receipts' : Passed(j)'
    BY <1>1, <1>7 DEF IInv, TypeOK, JournalInv
  <2> QED
    BY <1>7, <2>1, <2>2, <2>3, <2>4, <2>5 DEF JournalStep, JournalInv
<1>10. /\ mem'[t].state = mem[t].state /\ mem'[t].step = i
       /\ \A u \in Threads \ { t } : mem'[u] = mem[u]
  <2>1. PICK ok : mem' = [mem EXCEPT ![t].ok = ok]
    BY DEF InvokeTool
  <2>2. mem'[t] = [mem[t] EXCEPT !.ok = ok]
    BY <1>5, <2>1
  <2>3. mem'[t].state = mem[t].state /\ mem'[t].step = i
    BY <1>5, <2>2 DEF ThreadRecords
  <2> QED
    BY <1>5, <2>1, <2>3
<1>11. pc'[t] = "receipt" /\ "receipt" \in PCs
  BY <1>1, GotoFacts DEF PCs
<1>12. OthersKept(t)
  BY <1>1, <1>10, <1>11, MoveOn
<1>13. StateInv(t)'
  BY <1>1, <1>10, <1>11 DEF IInv, StateInv
<1>14. (Cleared(mem[t].step) /\ Front(mem[t].step))'
  BY <1>1, <1>3, <1>4, <1>7, <1>8, <1>10 DEF Front, Cleared, Steps
<1>15. OperatorInv(t)'
  BY <1>3, <1>6, <1>10, <1>11, <1>14 DEF OperatorInv, WithStep, Recorded, Taking
<1> QED
  BY <1>2, <1>9, <1>12, <1>13, <1>15 DEF OwnKept

\* A receipt is written for a step that was passed.
LEMMA RecordReceiptKeeps ==
  ASSUME IInv, NEW t \in Threads, RecordReceipt(t)
  PROVE  JournalStep /\ OthersKept(t) /\ OwnKept(t)
<1> DEFINE i == mem[t].step
<1>1. /\ pc[t] = "receipt" /\ lock = IF t = Creator THEN Nobody ELSE t
      /\ Goto(t, "finish") /\ receipts' = receipts \cup { i }
      /\ UNCHANGED << approvals, effects, registry, lock, mem, crashes >>
  BY DEF RecordReceipt, At
<1>2. t \in Operators /\ t # Creator
  BY <1>1, OperatorOnly
<1>3. i \in Steps /\ Cleared(i) /\ effects[i] = 1 /\ Front(i)
  BY <1>1, <1>2 DEF IInv, OperatorInv
<1>4. /\ \A j \in Steps : Passed(j) => Passed(j)'
      /\ Cleared(i)' /\ effects'[i] = 1 /\ i \in receipts'
  BY <1>1, <1>3 DEF Passed, Cleared
<1>5. \A j \in Steps \ { i } : Untouched(j) => Untouched(j)'
  BY <1>1 DEF Untouched
<1>6. JournalStep
  <2>1. \A a \in Steps : Coherent(a)'
    BY <1>1 DEF IInv, JournalInv, Coherent
  <2>2. ASSUME NEW a \in Steps
        PROVE  (Passed(a) \/ \A j \in Steps : j > a => Untouched(j))'
    <3>1. CASE Passed(a)
      BY <1>4, <3>1
    <3>2. CASE ~Passed(a)
      <4>1. a >= i
        BY <1>3, <3>2 DEF Front, Steps
      <4> QED
        BY <1>3, <1>5, <4>1 DEF Front, Steps
    <3> QED
      BY <3>1, <3>2
  <2>3. \A j \in Steps : effects'[j] <= 1
    BY <1>1 DEF IInv, JournalInv
  <2>4. \A j \in Steps :
          effects'[j] > 0 /\ approvals'[j].request # Unbound => Authorized(j)'
    BY <1>1 DEF IInv, JournalInv, Authorized
  <2>5. \A j \in receipts' : Passed(j)'
    BY <1>1, <1>3, <1>4 DEF IInv, TypeOK, JournalInv, Passed, Cleared
  <2> QED
    BY <1>4, <2>1, <2>2, <2>3, <2>4, <2>5 DEF JournalStep, JournalInv
<1>7. pc'[t] = "finish" /\ "finish" \in PCs
  BY <1>1, GotoFacts DEF PCs
<1>8. OthersKept(t)
  BY <1>1, <1>7, MoveOn
<1>9. StateInv(t)'
  BY <1>1, <1>7 DEF IInv, StateInv
<1>10. (Passed(mem[t].step) /\ Front(mem[t].step))'
  BY <1>1, <1>3, <1>4, <1>5 DEF Front, Passed, Cleared, Steps
<1>11. OperatorInv(t)'
  BY <1>1, <1>3, <1>7, <1>10 DEF OperatorInv, WithStep, Recorded, Taking
<1> QED
  BY <1>2, <1>6, <1>8, <1>9, <1>11 DEF OwnKept

\* The finished execution is observed.
LEMMA LogFinishedKeeps ==
  ASSUME IInv, NEW t \in Threads, LogFinished(t)
  PROVE  JournalStep /\ OthersKept(t) /\ OwnKept(t)
<1>1. /\ pc[t] = "finish" /\ lock = IF t = Creator THEN Nobody ELSE t
      /\ Enter(t, "observing")
      /\ UNCHANGED << approvals, effects, receipts, registry, lock, crashes >>
  BY DEF LogFinished, At
<1>2. t \in Operators /\ t # Creator
  BY <1>1, OperatorOnly
<1>3. /\ pc'[t] = "save" /\ Goto(t, "save") /\ "save" \in PCs
      /\ mem'[t].target = "observing" /\ mem'[t].state = mem[t].state
      /\ mem'[t].step = mem[t].step
      /\ \A u \in Threads \ { t } : mem'[u] = mem[u]
  BY <1>1, EnterFacts, StatesEntered
<1>4. JournalStep
  BY <1>1, JournalKept
<1>5. OthersKept(t)
  BY <1>1, <1>3, MoveOn
<1>6. StateInv(t)'
  BY <1>1, <1>3 DEF IInv, StateInv, CanTransition, Transitions
<1>7. OperatorInv(t)'
  BY <1>1, <1>2, <1>3 DEF IInv, OperatorInv, WithStep, Recorded, Taking, Front, Passed,
     Cleared, Untouched
<1> QED
  BY <1>2, <1>4, <1>5, <1>6, <1>7 DEF OwnKept

\* After the memory commit the run ends or stands at the next step, which
\* nobody touched yet.
LEMMA CommitMemoryKeeps ==
  ASSUME IInv, NEW t \in Threads, CommitMemory(t)
  PROVE  JournalStep /\ OthersKept(t) /\ OwnKept(t)
<1> DEFINE i == mem[t].step
<1>1. /\ pc[t] = "memory" /\ lock = IF t = Creator THEN Nobody ELSE t
      /\ UNCHANGED << approvals, effects, receipts, registry, lock, crashes >>
  BY DEF CommitMemory, At, disk
<1>2. t \in Operators /\ t # Creator
  BY <1>1, OperatorOnly
<1>3. /\ i \in Steps /\ Passed(i) /\ Front(i)
      /\ mem[t].state = "memory_commit"
  BY <1>1, <1>2 DEF IInv, OperatorInv, Recorded, StateInv
<1>4. JournalStep
  BY <1>1, JournalKept
<1>5. CASE Enter(t, "failed")
  <2>1. CanTransition(mem[t].state, "failed")
    BY <1>3 DEF CanTransition, Terminal
  <2> QED
    BY <1>1, <1>2, <1>4, <1>5, <2>1, EnterKeeps
<1>7. CASE i = NumSteps /\ Enter(t, "reporting")
  <2>1. CanTransition(mem[t].state, "reporting")
    BY <1>3 DEF CanTransition, Transitions
  <2>2. \A j \in Steps : Passed(j)
    BY <1>3, <1>7, StepsAssumption DEF Front, Steps
  <2> QED
    BY <1>1, <1>2, <1>4, <1>7, <2>1, <2>2, EnterKeeps DEF JournalStep
<1>6. CASE /\ i < NumSteps /\ Goto(t, "select")
           /\ mem' = [mem EXCEPT ![t].step = i + 1]
  <2>1. mem \in [Threads -> ThreadRecords] /\ mem[t] \in ThreadRecords
    BY DEF IInv, TypeOK
  <2>2. /\ mem'[t] = [mem[t] EXCEPT !.step = i + 1]
        /\ \A u \in Threads \ { t } : mem'[u] = mem[u]
    BY <1>6, <2>1
  <2>3. mem'[t].state = mem[t].state /\ mem'[t].step = i + 1
    BY <2>1, <2>2 DEF ThreadRecords
  <2>4. i + 1 \in Steps
    BY <1>3, <1>6, StepsAssumption DEF Steps
  <2>5. Untouched(i + 1) /\ Front(i + 1)
    <3>1. \A j \in Steps : j < i + 1 => j < i \/ j = i
      BY <1>3 DEF Steps
    <3>2. \A j \in Steps : j > i + 1 => j > i
      BY <1>3 DEF Steps
    <3>3. i + 1 > i
      BY <1>3 DEF Steps
    <3> QED
      BY <1>3, <2>4, <3>1, <3>2, <3>3 DEF Front
  <2>6. (Untouched(mem[t].step) /\ Front(mem[t].step))'
    BY <1>1, <2>3, <2>5 DEF Front, Passed, Cleared, Untouched
  <2>7. pc'[t] = "select" /\ "select" \in PCs
    BY <1>6, GotoFacts DEF PCs
  <2>8. OthersKept(t)
    BY <1>1, <1>6, <2>2, <2>7, MoveOn
  <2>9. StateInv(t)'
    BY <1>3, <2>3, <2>7 DEF StateInv
  <2>10. OperatorInv(t)'
    BY <2>3, <2>4, <2>6, <2>7 DEF OperatorInv, WithStep, Recorded, Taking
  <2> QED
    BY <1>2, <1>4, <2>8, <2>9, <2>10 DEF OwnKept
<1> QED
  BY <1>5, <1>6, <1>7 DEF CommitMemory

-----------------------------------------------------------------------------
(* Calls, expiries and crashes.                                            *)

\* A call finds a recorded request, so the Creator is past recording it.
LEMMA RequestSeen ==
  ASSUME IInv, NEW a \in Steps, approvals[a].request # Unbound
  PROVE  pc[Creator] \notin { "select", "request" }
BY DEF IInv, CreatorInv, Untouched

\* A call that is let through stands at its first write; for grant and deny
\* the approval is then pending, hence undecided.
LEMMA AcceptedKeeps ==
  ASSUME IInv, NEW t \in Operators, NEW a \in Steps, NEW token,
         NEW label \in { "decide", "validate", "deny" },
         pc[t] = "idle", lock = Nobody, lock' = t,
         approvals[a].request # Unbound,
         label # "validate" => approvals[a].decision = "none",
         Accepted(t, a, token, label),
         UNCHANGED << approvals, effects, receipts, registry, crashes >>
  PROVE  JournalStep /\ OthersKept(t) /\ OwnKept(t)
<1>1. label \in PCs \ { "idle", "done" } /\ label \in WithStep
  BY DEF PCs, WithStep
<1>2. t \in Threads /\ t # Creator
  BY ThreadsAssumption DEF Threads
<1>3. /\ pc'[t] = label /\ Goto(t, label)
      /\ mem'[t].state = "awaiting_approval" /\ mem'[t].step = a
      /\ \A u \in Threads \ { t } : mem'[u] = mem[u]
  BY <1>2, AcceptedFacts
<1>4. JournalStep
  BY JournalKept
<1>5. OthersKept(t)
  BY <1>1, <1>3, RequestSeen, EnterCall
<1>6. StateInv(t)'
  BY <1>3 DEF StateInv
<1>7. OperatorInv(t)'
  BY <1>3 DEF OperatorInv, Recorded, Taking
<1> QED
  BY <1>2, <1>4, <1>5, <1>6, <1>7 DEF OwnKept

\* Every call that is let through keeps the invariant.
LEMMA CallKeeps ==
  ASSUME IInv, NEW t \in Operators, NEW a \in Steps, Call(t, a)
  PROVE  JournalStep /\ OthersKept(t) /\ OwnKept(t)
<1>1. approvals[a].decision \in { "none", "granted", "denied" }
  BY DEF IInv, TypeOK, ApprovalRecords
<1>2. Status(a) = "pending" =>
        approvals[a].request # Unbound /\ approvals[a].decision = "none"
  BY <1>1 DEF Status
<1>3. Status(a) \in { "granted", "denied" } => approvals[a].request # Unbound
  BY DEF Status
<1>4. ASSUME NEW token \in Tokens, Grant(t, a, token)
      PROVE  JournalStep /\ OthersKept(t) /\ OwnKept(t)
  BY <1>2, <1>4, AcceptedKeeps DEF Grant, Accepts
<1>5. ASSUME NEW token \in CallerTokens, Resume(t, a, token)
      PROVE  JournalStep /\ OthersKept(t) /\ OwnKept(t)
  BY <1>2, <1>3, <1>5, AcceptedKeeps DEF Resume, Accepts
<1>6. CASE ResumeDenied(t, a)
  <2>1. t \in Threads /\ t # Creator
    BY ThreadsAssumption DEF Threads
  <2>2. mem \in [Threads -> ThreadRecords] /\ pc \in [Threads -> PCs]
    BY DEF IInv, TypeOK
  <2>3. /\ mem'[t] = [Blank EXCEPT !.state = run.state,
                                   !.pending = run.pending,
                                   !.target = "halted"]
        /\ \A u \in Threads \ { t } : mem'[u] = mem[u]
    BY <1>6, <2>1, <2>2 DEF ResumeDenied
  <2>4. mem'[t].state = run.state /\ mem'[t].target = "halted"
    BY <2>3 DEF Blank
  <2>5. pc'[t] = "save" /\ "save" \in PCs /\ Goto(t, "save")
    BY <1>6, <2>1, GotoFacts DEF ResumeDenied, PCs
  <2>6. JournalStep
    BY <1>6, JournalKept DEF ResumeDenied, disk
  <2>7. OthersKept(t)
    BY <1>3, <1>6, <2>3, <2>5, RequestSeen, EnterCall DEF ResumeDenied
  <2>8. StateInv(t)'
    BY <1>6, <2>4, <2>5 DEF ResumeDenied, StateInv
  <2>9. OperatorInv(t)'
    BY <2>4, <2>5 DEF OperatorInv, WithStep, Recorded, Taking
  <2> QED
    BY <2>1, <2>6, <2>7, <2>8, <2>9 DEF OwnKept
<1>7. CASE Deny(t, a)
  BY <1>2, <1>7, AcceptedKeeps DEF Deny, Accepts
<1> QED
  BY <1>4, <1>5, <1>6, <1>7 DEF Call

\* run.json says reporting or completed only after every step: the one write
\* that puts it there is the transition of a thread that passed them all.
LEMMA ProceedReports ==
  ASSUME IInv, NEW t \in Threads, Proceed(t), JournalStep
  PROVE  ReportInv'
<1>1. \A i \in Steps : Passed(i) => Passed(i)'
  BY DEF JournalStep
<1>2. CASE UNCHANGED run
  BY <1>1, <1>2 DEF IInv, ReportInv
<1>3. CASE SavePending(t)
  <2>1. /\ run'.state = mem[t].state
        /\ mem[t].state \in { "action_selection", "memory_commit" }
    BY <1>3 DEF SavePending, At, IInv, StateInv
  <2> QED
    BY <2>1 DEF ReportInv
<1>4. CASE SaveState(t)
  <2>1. pc[t] = "save" /\ run'.state = mem[t].target
    BY <1>4 DEF SaveState, At
  <2>2. CASE t = Creator
    BY <2>1, <2>2 DEF IInv, CreatorInv, ReportInv
  <2>3. CASE t \in Operators
    <3>1. mem[t].target \in { "reporting", "completed" } =>
            \A i \in Steps : Passed(i)
      BY <2>1, <2>3 DEF IInv, OperatorInv, Taking
    <3> QED
      BY <1>1, <2>1, <3>1 DEF ReportInv
  <2> QED
    BY <2>2, <2>3 DEF Threads
<1>5. CASE run' = Awaiting(mem[t].step)
  BY <1>5 DEF Awaiting, ReportInv
<1>6. CASE SaveUnpended(t)
  <2>1. run'.state = "awaiting_approval"
    BY <1>6 DEF SaveUnpended, At, IInv, StateInv
  <2> QED
    BY <2>1 DEF ReportInv
<1>7. \/ UNCHANGED run
      \/ SavePending(t) \/ SaveState(t) \/ SaveUnpended(t)
      \/ run' = Awaiting(mem[t].step)
  BY DEF Proceed, Select, RecordRequest, Announce, LogState, WriteSnapshot,
     RecordDecision, RecordGrant, ContinueGrant, Accepted, Validate, Consume,
     RecordDenial, InvokeTool, RecordReceipt, LogFinished, CommitMemory, disk
<1> QED
  BY <1>2, <1>3, <1>4, <1>5, <1>6, <1>7

\* A call leaves run.json alone or repairs it to awaiting_approval.
LEMMA CallReports ==
  ASSUME IInv, NEW t \in Operators, NEW a \in Steps, Call(t, a), JournalStep
  PROVE  ReportInv'
<1>1. UNCHANGED run \/ run' = Awaiting(a)
  BY DEF Call, Grant, Resume, ResumeDenied, Deny, Accepted, disk
<1>2. CASE UNCHANGED run
  BY <1>2 DEF IInv, JournalStep, ReportInv
<1>3. CASE run' = Awaiting(a)
  BY <1>3 DEF Awaiting, ReportInv
<1> QED
  BY <1>1, <1>2, <1>3

\* An expiry disturbs nothing the invariant speaks of.
LEMMA QuietKeeps ==
  ASSUME IInv, TypeOK',
         UNCHANGED << run, approvals, effects, receipts, registry, lock, pc,
                      mem, crashes >>
  PROVE  IInv'
<1>1. JournalInv' /\ ReportInv'
  BY JournalKept DEF JournalStep, IInv, ReportInv
<1>2. LockInv'
  BY DEF IInv, LockInv
<1>3. CreatorInv'
  BY DEF IInv, CreatorInv, Untouched
<1>4. \A t \in Operators : OperatorInv(t)'
  BY DEF IInv, OperatorInv, Recorded, Taking, Front, Passed, Cleared, Untouched,
     Authorized, Gated
<1>5. \A t \in Threads : StateInv(t)'
  BY StateKept DEF IInv
<1> QED
  BY <1>1, <1>2, <1>3, <1>4, <1>5 DEF IInv

\* After a crash nobody is left who relied on anything.
LEMMA CrashKeeps ==
  ASSUME IInv, TypeOK', Crash
  PROVE  IInv'
<1>1. JournalInv' /\ ReportInv'
  BY JournalKept DEF Crash, disk, JournalStep, IInv, ReportInv
<1>2. /\ \A t \in Operators : pc'[t] = "idle"
      /\ pc'[Creator] = "done" /\ lock' = Nobody
  BY ThreadsAssumption DEF Crash, Threads
<1>3. LockInv'
  BY <1>2, ThreadsAssumption DEF LockInv
<1>4. CreatorInv'
  <2>1. crashes' # 0
    BY CrashesAssumption DEF Crash, IInv, TypeOK
  <2> QED
    BY <1>2, <2>1 DEF CreatorInv
<1>5. \A t \in Threads : StateInv(t)' /\ OperatorInv(t)'
  BY <1>2, IdleKept DEF Threads
<1> QED
  BY <1>1, <1>3, <1>4, <1>5 DEF IInv, Threads

-----------------------------------------------------------------------------
(* The invariant is inductive, and what follows from it.                   *)

\* A run that stands before its first gated step satisfies the invariant.
LEMMA InitInvariant == Init => IInv
<1> SUFFICES ASSUME Init PROVE IInv
  OBVIOUS
<1>1. /\ pc = [t \in Threads |-> IF t = Creator THEN "select" ELSE "idle"]
      /\ mem = [t \in Threads |->
                  IF t = Creator
                  THEN [Blank EXCEPT !.state = "action_selection", !.step = 1]
                  ELSE Blank]
      /\ approvals = [a \in Steps |-> [request |-> Unbound,
                                       decision |-> "none",
                                       grant |-> NoToken,
                                       consumption |-> Unbound]]
      /\ effects = [i \in Steps |-> 0] /\ receipts = {} /\ crashes = 0
      /\ registry = "v1" /\ lock = Nobody
  BY DEF Init
<1>2. 1 \in Steps
  BY StepsAssumption DEF Steps
<1>3. [Blank EXCEPT !.state = "action_selection", !.step = 1] \in ThreadRecords
  BY <1>2, BlankType, StatesEntered DEF ThreadRecords
<1>4. mem[Creator].state = "action_selection" /\ mem[Creator].step = 1
  BY <1>1 DEF Threads, Blank
<1>5. TypeOK
  <2>1. pc \in [Threads -> PCs] /\ mem \in [Threads -> ThreadRecords]
    BY <1>1, <1>3, BlankType DEF PCs
  <2>2. [request |-> Unbound, decision |-> "none", grant |-> NoToken,
         consumption |-> Unbound] \in ApprovalRecords
    BY DEF ApprovalRecords
  <2>3. /\ run \in RunRecords /\ snapshot \in RunRecords
        /\ log \in LogRecords
    BY StatesEntered DEF Init, RunRecords, LogRecords
  <2>4. crashes \in 0 .. MaxCrashes
    BY <1>1, CrashesAssumption
  <2> QED
    BY <1>1, <2>1, <2>2, <2>3, <2>4 DEF Init, TypeOK, Registries
<1>6. LockInv
  BY <1>1, ThreadsAssumption DEF LockInv, Threads
<1>7. \A i \in Steps : Untouched(i)
  BY <1>1 DEF Untouched
<1>8. CreatorInv
  BY <1>1, <1>4, <1>7 DEF CreatorInv, Threads
<1>9. JournalInv /\ ReportInv
  BY <1>1, <1>7 DEF Init, JournalInv, ReportInv, Coherent, Untouched
<1>10. \A t \in Operators : OperatorInv(t)
  BY <1>1, ThreadsAssumption DEF OperatorInv, WithStep, Recorded, Taking,
     Threads
<1>11. \A t \in Threads : StateInv(t)
  BY <1>1, <1>4 DEF StateInv
<1> QED
  BY <1>5, <1>6, <1>8, <1>9, <1>10, <1>11 DEF IInv

\* Every write of a call under way keeps the invariant.
LEMMA ProceedKeeps ==
  ASSUME IInv, NEW t \in Threads, Proceed(t)
  PROVE  JournalStep /\ OthersKept(t) /\ OwnKept(t)
BY SelectKeeps, RecordRequestKeeps, SavePendingKeeps, AnnounceKeeps,
   SaveStateKeeps, LogStateKeeps, WriteSnapshotKeeps, RecordDecisionKeeps,
   RecordGrantKeeps, ContinueGrantKeeps, ValidateKeeps, ConsumeKeeps,
   SaveUnpendedKeeps, RecordDenialKeeps, InvokeToolKeeps, RecordReceiptKeeps,
   LogFinishedKeeps, CommitMemoryKeeps DEF Proceed

\* So does every step of the system.
LEMMA NextInvariant == IInv /\ [Next]_vars => IInv'
<1> SUFFICES ASSUME IInv, [Next]_vars PROVE IInv'
  OBVIOUS
<1>1. ASSUME NEW t \in Threads, Proceed(t) PROVE IInv'
  BY <1>1, ProceedTypeOK, ProceedKeeps, ProceedReports, Assemble
<1>2. ASSUME NEW t \in Operators, NEW a \in Steps, Call(t, a) PROVE IInv'
  <2>1. t \in Threads /\ TypeOK
    BY DEF Threads, IInv
  <2> QED
    BY <1>2, <2>1, CallTypeOK, CallKeeps, CallReports, Assemble
<1>3. ASSUME NEW kind \in { "request", "grant" }, NEW a \in Steps,
             Lapse(kind, a)
      PROVE  IInv'
  BY <1>3, EnvironmentTypeOK, QuietKeeps DEF IInv, Lapse, disk
<1>4. CASE Crash
  BY <1>4, EnvironmentTypeOK, CrashKeeps DEF IInv
<1>5. CASE UNCHANGED vars
  BY <1>5, EnvironmentTypeOK, QuietKeeps DEF IInv, vars
<1> QED
  BY <1>1, <1>2, <1>3, <1>4, <1>5 DEF Next

\* The invariant behind everything below: what every operator relies on holds
\* at each of its writes, however calls, expiries and crashes interleave.
THEOREM Invariant == Spec => []IInv
BY InitInvariant, NextInvariant, PTL DEF Spec

\* Every variable stays in its type.
THEOREM TypeCorrect == Spec => []TypeOK
<1>1. IInv => TypeOK
  BY DEF IInv
<1> QED
  BY <1>1, Invariant, PTL

\* No tool is invoked twice, whatever operators call and wherever the server
\* dies, for any number of operators, steps and restarts.
THEOREM ToolRunsAtMostOnce == Spec => []AtMostOnce
<1>1. IInv => AtMostOnce
  BY DEF IInv, JournalInv, AtMostOnce
<1> QED
  BY <1>1, Invariant, PTL

\* No gated tool runs, or is about to run, without its decision, its grant
\* and its consumption in the journal.
THEOREM ToolRunsAuthorized == Spec => []EffectsAuthorized
<1>1. IInv => EffectsAuthorized
  <2> SUFFICES ASSUME IInv PROVE EffectsAuthorized
    OBVIOUS
  <2>1. \A i \in Steps :
          effects[i] > 0 /\ approvals[i].request # Unbound => Authorized(i)
    BY DEF IInv, JournalInv
  <2>2. ASSUME NEW t \in Threads, pc[t] = "tool", Gated(mem[t].step)
        PROVE  Authorized(mem[t].step)
    <3>1. t \in Operators
      BY <2>2, OperatorOnly
    <3> QED
      BY <2>2, <3>1 DEF IInv, OperatorInv
  <2> QED
    BY <2>1, <2>2 DEF EffectsAuthorized
<1> QED
  BY <1>1, Invariant, PTL

\* An approval is spent only on what it was requested for.
THEOREM ApprovalSpentAsRequested == Spec => []SpentAsRequested
<1>1. IInv => SpentAsRequested
  BY DEF IInv, JournalInv, Coherent, SpentAsRequested
<1> QED
  BY <1>1, Invariant, PTL

\* Behind a denied approval nothing runs, not its tool and not a later one.
THEOREM DenialIsFinal == Spec => []DenialBlocks
<1>1. IInv => DenialBlocks
  <2> SUFFICES ASSUME IInv, NEW a \in Steps, approvals[a].decision = "denied"
               PROVE  /\ approvals[a].consumption = Unbound
                      /\ \A i \in Steps :
                           i >= a => effects[i] = 0 /\ i \notin receipts
    BY DEF DenialBlocks
  <2>1. /\ approvals[a].request # Unbound /\ approvals[a].consumption = Unbound
        /\ ~Passed(a)
    BY DEF IInv, JournalInv, Coherent, Passed, Cleared
  <2>2. effects[a] = 0 /\ a \notin receipts
    BY <2>1 DEF IInv, TypeOK, JournalInv, Authorized
  <2>3. \A i \in Steps : i > a => effects[i] = 0 /\ i \notin receipts
    BY <2>1 DEF IInv, JournalInv, Untouched
  <2> QED
    BY <2>1, <2>2, <2>3 DEF Steps
<1> QED
  BY <1>1, Invariant, PTL

\* assert_transition never raises in the middle of a call.
THEOREM TransitionsAreLegal == Spec => []NoIllegalTransition
<1>1. IInv => NoIllegalTransition
  BY DEF IInv, StateInv, NoIllegalTransition
<1> QED
  BY <1>1, Invariant, PTL

\* A completed run has invoked every step once and holds every receipt.
THEOREM CompletionIsEarned == Spec => []CompletedMeansDone
<1>1. IInv => CompletedMeansDone
  BY DEF IInv, ReportInv, Passed, CompletedMeansDone
<1> QED
  BY <1>1, Invariant, PTL

\* A write of one field of approval i leaves every other approval alone.
LEMMA OtherRecordsStand ==
  ASSUME IInv, NEW i \in Steps, NEW r,
         approvals' = [approvals EXCEPT ![i] = r], RecordsStand(i)
  PROVE  \A a \in Steps : RecordsStand(a)
BY DEF IInv, TypeOK, RecordsStand

\* No write of a call replaces a decision, a grant or a consumption.
LEMMA ProceedStands ==
  ASSUME IInv, NEW t \in Threads, Proceed(t)
  PROVE  \A a \in Steps : RecordsStand(a)
<1> DEFINE i == mem[t].step
<1>1. CASE approvals' = approvals
  BY <1>1 DEF RecordsStand
<1>2. pc[t] \in WithStep =>
        /\ i \in Steps /\ approvals[i] \in ApprovalRecords
        /\ approvals \in [Steps -> ApprovalRecords]
  BY StepKnown DEF IInv, TypeOK
<1>3. CASE RecordRequest(t)
  <2>1. /\ approvals' = [approvals EXCEPT ![i].request = registry]
        /\ pc[t] \in WithStep
    BY <1>3 DEF RecordRequest, At, WithStep, PCs
  <2>2. approvals'[i] = [approvals[i] EXCEPT !.request = registry]
    BY <1>2, <2>1
  <2>3. RecordsStand(i)
    BY <1>2, <2>1, <2>2 DEF RecordsStand, ApprovalRecords
  <2> QED
    BY <1>2, <2>1, <2>3, OtherRecordsStand
<1>4. CASE RecordDecision(t)
  <2>1. /\ approvals' = [approvals EXCEPT ![i].decision = "granted"]
        /\ pc[t] = "decide" /\ pc[t] \in WithStep
    BY <1>4 DEF RecordDecision, At, WithStep, PCs
  <2>2. approvals'[i] = [approvals[i] EXCEPT !.decision = "granted"]
    BY <1>2, <2>1
  <2>3. approvals[i].decision = "none"
    BY <2>1, OperatorOnly, Undecided
  <2>4. RecordsStand(i)
    BY <1>2, <2>1, <2>2, <2>3 DEF RecordsStand, ApprovalRecords
  <2> QED
    BY <1>2, <2>1, <2>4, OtherRecordsStand
<1>5. CASE RecordGrant(t)
  <2>1. /\ approvals' = [approvals EXCEPT ![i].grant = mem[t].token]
        /\ pc[t] = "grant" /\ pc[t] \in WithStep
    BY <1>5 DEF RecordGrant, At, WithStep, PCs
  <2>2. approvals'[i] = [approvals[i] EXCEPT !.grant = mem[t].token]
    BY <1>2, <2>1
  <2>3. approvals[i].grant = NoToken
    BY <2>1, OperatorOnly DEF OperatorInv
  <2>4. RecordsStand(i)
    BY <1>2, <2>1, <2>2, <2>3 DEF RecordsStand, ApprovalRecords
  <2> QED
    BY <1>2, <2>1, <2>4, OtherRecordsStand
<1>6. CASE /\ Consume(t) /\ approvals' # approvals
  <2>1. /\ approvals' = [approvals EXCEPT ![i].consumption = registry]
        /\ Status(i) = "granted" /\ pc[t] \in WithStep
    BY <1>6 DEF Consume, At, WithStep, PCs
  <2>2. approvals'[i] = [approvals[i] EXCEPT !.consumption = registry]
    BY <1>2, <2>1
  <2>3. approvals[i].consumption = Unbound
    BY <2>1 DEF Status
  <2>4. RecordsStand(i)
    BY <1>2, <2>1, <2>2, <2>3 DEF RecordsStand, ApprovalRecords
  <2> QED
    BY <1>2, <2>1, <2>4, OtherRecordsStand
<1>7. CASE RecordDenial(t)
  <2>1. /\ approvals' = [approvals EXCEPT ![i].decision = "denied"]
        /\ pc[t] = "deny" /\ pc[t] \in WithStep
    BY <1>7 DEF RecordDenial, At, WithStep, PCs
  <2>2. approvals'[i] = [approvals[i] EXCEPT !.decision = "denied"]
    BY <1>2, <2>1
  <2>3. approvals[i].decision = "none"
    BY <2>1, OperatorOnly, Undecided
  <2>4. RecordsStand(i)
    BY <1>2, <2>1, <2>2, <2>3 DEF RecordsStand, ApprovalRecords
  <2> QED
    BY <1>2, <2>1, <2>4, OtherRecordsStand
<1>8. \/ approvals' = approvals
      \/ RecordRequest(t) \/ RecordDecision(t) \/ RecordGrant(t)
      \/ Consume(t) \/ RecordDenial(t)
  BY DEF Proceed, Select, SavePending, Announce, SaveState, LogState,
     WriteSnapshot, ContinueGrant, Validate, SaveUnpended, InvokeTool,
     RecordReceipt, LogFinished, CommitMemory, disk
<1> QED
  BY <1>1, <1>3, <1>4, <1>5, <1>6, <1>7, <1>8

\* The first decision on an approval, its grant and its consumption stand:
\* of concurrent operators at most one wins, before and after crashes.
THEOREM DecisionsAreFinal == Spec => DecisionsStand
<1>1. IInv /\ [Next]_vars => [\A a \in Steps : RecordsStand(a)]_vars
  <2> SUFFICES ASSUME IInv, Next PROVE \A a \in Steps : RecordsStand(a)
    OBVIOUS
  <2>1. ASSUME NEW t \in Threads, Proceed(t)
        PROVE  \A a \in Steps : RecordsStand(a)
    BY <2>1, ProceedStands
  <2>2. CASE approvals' = approvals
    BY <2>2 DEF RecordsStand
  <2>3. ASSUME NEW t \in Operators, NEW a \in Steps, Call(t, a)
        PROVE  approvals' = approvals
    BY <2>3 DEF Call, Grant, Resume, ResumeDenied, Deny, disk
  <2>4. ASSUME NEW kind \in { "request", "grant" }, NEW a \in Steps,
               Lapse(kind, a)
        PROVE  approvals' = approvals
    BY <2>4 DEF Lapse, disk
  <2>5. Crash => approvals' = approvals
    BY DEF Crash, disk
  <2> QED
    BY <2>1, <2>2, <2>3, <2>4, <2>5 DEF Next
<1> QED
  BY <1>1, Invariant, PTL DEF Spec, DecisionsStand

-----------------------------------------------------------------------------
(* ApprovalAuthority implements ApprovalContract: each write of the        *)
(* approval journal, each expiry and each invocation of a tool is one step *)
(* of the contract, and everything else is none.                           *)

phases == [a \in Steps |-> Phase(a)]
lapsedGrants == { a \in Steps : <<"grant", a>> \in lapsed }
bought ==
  [a \in Steps |-> IF approvals[a].consumption # Unbound THEN effects[a] ELSE 0]

\* The variables of the contract, as functions of those of the code.
seen == << phases, lapsedGrants, bought >>

\* A step that changes the records and the effects of approval a alone, and
\* no expiry, changes the contract's variables at a alone.
LEMMA OneApproval ==
  ASSUME NEW a \in Steps, UNCHANGED lapsed,
         \A b \in Steps \ { a } :
           approvals'[b] = approvals[b] /\ effects'[b] = effects[b]
  PROVE  /\ phases' = [phases EXCEPT ![a] = Phase(a)']
         /\ lapsedGrants' = lapsedGrants
         /\ bought' = [bought EXCEPT ![a] =
              IF approvals'[a].consumption # Unbound THEN effects'[a] ELSE 0]
<1>1. \A b \in Steps \ { a } : Phase(b)' = Phase(b)
  BY DEF Phase
<1>2. phases' = [phases EXCEPT ![a] = Phase(a)']
  BY <1>1 DEF phases
<1>3. lapsedGrants' = lapsedGrants
  BY DEF lapsedGrants
<1>4. bought' = [bought EXCEPT ![a] =
         IF approvals'[a].consumption # Unbound THEN effects'[a] ELSE 0]
  BY DEF bought
<1> QED
  BY <1>2, <1>3, <1>4

\* While approval a is unspent before and after, nothing is bought either.
LEMMA OneUnspent ==
  ASSUME NEW a \in Steps, UNCHANGED lapsed,
         \A b \in Steps \ { a } :
           approvals'[b] = approvals[b] /\ effects'[b] = effects[b],
         approvals[a].consumption = Unbound, approvals'[a].consumption = Unbound
  PROVE  /\ phases' = [phases EXCEPT ![a] = Phase(a)']
         /\ lapsedGrants' = lapsedGrants
         /\ bought' = bought
<1>1. bought' = bought
  BY DEF bought
<1> QED
  BY <1>1, OneApproval

\* A step that changes neither a phase nor an expiry nor a bought invocation
\* is no step of the contract.
LEMMA Unseen ==
  ASSUME UNCHANGED << approvals, effects, lapsed >>
  PROVE  UNCHANGED seen
BY DEF seen, phases, Phase, lapsedGrants, bought

\* A passed or untouched step is settled in the sense of the contract.
LEMMA SettledSteps ==
  ASSUME IInv, NEW a \in Steps, Passed(a) \/ Untouched(a)
  PROVE  \/ Phase(a) = "none"
         \/ Phase(a) = "spent" /\ bought[a] = 1
<1>1. Coherent(a)
  BY DEF IInv, JournalInv
<1> QED
  BY <1>1 DEF Passed, Cleared, Untouched, Coherent, Phase, bought

\* A write of one record of approval i, whose other fields stay.
LEMMA WrittenRecord ==
  ASSUME IInv, NEW i \in Steps, NEW r \in ApprovalRecords,
         approvals' = [approvals EXCEPT ![i] = r], UNCHANGED effects
  PROVE  /\ approvals'[i] = r
         /\ \A b \in Steps \ { i } :
              approvals'[b] = approvals[b] /\ effects'[b] = effects[b]
BY DEF IInv, TypeOK

\* The request is the contract's: all earlier steps are settled, and no later
\* one was asked for.
LEMMA RequestImplements ==
  ASSUME IInv, NEW t \in Threads, RecordRequest(t)
  PROVE  Contract!Next
<1> DEFINE i == mem[t].step
<1>1. /\ pc[t] = "request"
      /\ approvals' = [approvals EXCEPT ![i].request = registry]
      /\ UNCHANGED << effects, lapsed, mem >>
  BY DEF RecordRequest, At
<1>2. i \in Steps /\ Untouched(i) /\ Front(i)
  <2>1. i \in Steps
    BY <1>1, StepKnown DEF WithStep, PCs
  <2>2. CASE t \in Operators
    BY <1>1, <2>1, <2>2 DEF IInv, OperatorInv
  <2>3. CASE t = Creator
    <3>1. i = 1 /\ \A j \in Steps : Untouched(j)
      BY <1>1, <2>3 DEF IInv, CreatorInv
    <3> QED
      BY <2>1, <3>1 DEF Front, Steps
  <2> QED
    BY <2>1, <2>2, <2>3 DEF Threads
<1>3. /\ approvals[i] \in ApprovalRecords /\ Coherent(i)
      /\ registry \in Registries /\ registry # Unbound
  BY <1>2 DEF IInv, TypeOK, JournalInv, Registries, Unbound
<1>4. [approvals[i] EXCEPT !.request = registry] \in ApprovalRecords
  BY <1>3, ApprovalRecordFields
<1>5. /\ approvals'[i] = [approvals[i] EXCEPT !.request = registry]
      /\ \A b \in Steps \ { i } :
           approvals'[b] = approvals[b] /\ effects'[b] = effects[b]
  BY <1>1, <1>2, <1>4, WrittenRecord
<1>6. /\ approvals[i].request = Unbound /\ approvals[i].decision = "none"
      /\ approvals[i].grant = NoToken /\ approvals[i].consumption = Unbound
  BY <1>2, <1>3 DEF Untouched, Coherent, ApprovalRecords
<1>7. /\ approvals'[i].request = registry /\ approvals'[i].decision = "none"
      /\ approvals'[i].grant = NoToken /\ approvals'[i].consumption = Unbound
  BY <1>3, <1>5, <1>6 DEF ApprovalRecords
<1>8. Phase(i) = "none" /\ Phase(i)' = "pending"
  <2>1. Phase(i)' = "pending"
    BY <1>1, <1>3, <1>7 DEF Phase, RecordRequest
  <2> QED
    BY <1>6, <2>1 DEF Phase
<1>9. /\ phases' = [phases EXCEPT ![i] = "pending"]
      /\ lapsedGrants' = lapsedGrants /\ bought' = bought
  BY <1>1, <1>2, <1>5, <1>6, <1>7, <1>8, OneUnspent
<1>10. \A b \in Steps : Contract!Settled(b)
  <2>1. \A b \in Steps : Passed(b) \/ Untouched(b)
    BY <1>2 DEF Front, Steps
  <2> QED
    BY <2>1, SettledSteps DEF Contract!Settled, bought
<1>11. Contract!Request(i)
  BY <1>2, <1>8, <1>9, <1>10
  DEF Contract!Request, Contract!Move, phases, lapsedGrants, bought
<1> QED
  BY <1>2, <1>11 DEF Contract!Next

\* A decision without its grant record is still pending in the contract.
LEMMA DecisionImplements ==
  ASSUME IInv, NEW t \in Threads, RecordDecision(t)
  PROVE  UNCHANGED seen
<1> DEFINE i == mem[t].step
<1>1. /\ pc[t] = "decide"
      /\ approvals' = [approvals EXCEPT ![i].decision = "granted"]
      /\ UNCHANGED << effects, lapsed, mem >>
  BY DEF RecordDecision, At
<1>2. /\ i \in Steps /\ approvals[i].request # Unbound
      /\ approvals[i].decision = "none" /\ approvals[i].grant = NoToken
      /\ approvals[i].consumption = Unbound
  BY <1>1, OperatorOnly, Undecided
<1>3. approvals[i] \in ApprovalRecords
  BY <1>2 DEF IInv, TypeOK
<1>4. [approvals[i] EXCEPT !.decision = "granted"] \in ApprovalRecords
  BY <1>3, ApprovalRecordFields
<1>5. /\ approvals'[i] = [approvals[i] EXCEPT !.decision = "granted"]
      /\ \A b \in Steps \ { i } :
           approvals'[b] = approvals[b] /\ effects'[b] = effects[b]
  BY <1>1, <1>2, <1>4, WrittenRecord
<1>6. /\ approvals'[i].request = approvals[i].request
      /\ approvals'[i].decision = "granted"
      /\ approvals'[i].grant = NoToken /\ approvals'[i].consumption = Unbound
  BY <1>2, <1>3, <1>5 DEF ApprovalRecords
<1>7. Phase(i) = "pending"
  BY <1>2 DEF Phase
<1>8. Phase(i)' = "pending"
  BY <1>1, <1>2, <1>6 DEF Phase, RecordDecision
<1>9. /\ phases' = [phases EXCEPT ![i] = "pending"]
      /\ lapsedGrants' = lapsedGrants /\ bought' = bought
  BY <1>1, <1>2, <1>5, <1>6, <1>8, OneUnspent
<1>10. phases' = phases
  BY <1>2, <1>7, <1>9 DEF phases
<1> QED
  BY <1>9, <1>10 DEF seen

\* The grant record is the contract's grant.
LEMMA GrantImplements ==
  ASSUME IInv, NEW t \in Threads, RecordGrant(t)
  PROVE  Contract!Next \/ UNCHANGED seen
<1> DEFINE i == mem[t].step
<1>1. /\ pc[t] = "grant"
      /\ approvals' = [approvals EXCEPT ![i].grant = mem[t].token]
      /\ UNCHANGED << effects, lapsed, mem >>
  BY DEF RecordGrant, At
<1>2. t \in Operators /\ OperatorInv(t)
  BY <1>1, OperatorOnly
<1>3. /\ i \in Steps /\ approvals[i].decision = "granted"
      /\ approvals[i].grant = NoToken /\ approvals[i].consumption = Unbound
  BY <1>1, <1>2, StepKnown DEF OperatorInv, WithStep, PCs
<1>4. /\ approvals[i] \in ApprovalRecords /\ approvals[i].request # Unbound
      /\ mem[t].token \in Tokens \cup { NoToken }
  BY <1>3 DEF IInv, TypeOK, JournalInv, Coherent, ThreadRecords
<1>5. [approvals[i] EXCEPT !.grant = mem[t].token] \in ApprovalRecords
  BY <1>4, ApprovalRecordFields
<1>6. /\ approvals'[i] = [approvals[i] EXCEPT !.grant = mem[t].token]
      /\ \A b \in Steps \ { i } :
           approvals'[b] = approvals[b] /\ effects'[b] = effects[b]
  BY <1>1, <1>3, <1>5, WrittenRecord
<1>7. /\ approvals'[i].request = approvals[i].request
      /\ approvals'[i].decision = "granted"
      /\ approvals'[i].grant = mem[t].token
      /\ approvals'[i].consumption = Unbound
  BY <1>3, <1>4, <1>6 DEF ApprovalRecords
<1>8. Phase(i) = "pending"
  BY <1>3, <1>4 DEF Phase
<1>9. Phase(i)' = IF mem[t].token # NoToken THEN "granted" ELSE "pending"
  BY <1>1, <1>4, <1>7 DEF Phase
<1>10. /\ phases' = [phases EXCEPT ![i] = Phase(i)']
       /\ lapsedGrants' = lapsedGrants /\ bought' = bought
  BY <1>1, <1>3, <1>6, <1>7, OneUnspent
<1>11. CASE mem[t].token = NoToken
  <2>1. phases' = phases
    BY <1>3, <1>8, <1>9, <1>10, <1>11 DEF phases
  <2> QED
    BY <1>10, <2>1 DEF seen
<1>12. CASE mem[t].token # NoToken
  <2>1. phases' = [phases EXCEPT ![i] = "granted"]
    BY <1>9, <1>10, <1>12
  <2>2. Contract!Grant(i)
    BY <1>3, <1>8, <1>10, <2>1
    DEF Contract!Grant, Contract!Move, phases, lapsedGrants, bought
  <2> QED
    BY <1>3, <2>2 DEF Contract!Next
<1> QED
  BY <1>11, <1>12

\* The denial is the contract's denial.
LEMMA DenialImplements ==
  ASSUME IInv, NEW t \in Threads, RecordDenial(t)
  PROVE  Contract!Next
<1>1. pc[t] = "deny" /\ UNCHANGED << effects, lapsed >>
  BY DEF RecordDenial, At
<1>2. PICK i \in Steps :
        /\ approvals' = [approvals EXCEPT ![i].decision = "denied"]
        /\ approvals[i].request # Unbound /\ approvals[i].decision = "none"
        /\ approvals[i].grant = NoToken /\ approvals[i].consumption = Unbound
  BY <1>1, OperatorOnly, Undecided DEF RecordDenial
<1>3. approvals[i] \in ApprovalRecords
  BY DEF IInv, TypeOK
<1>4. [approvals[i] EXCEPT !.decision = "denied"] \in ApprovalRecords
  BY <1>3, ApprovalRecordFields
<1>5. /\ approvals'[i] = [approvals[i] EXCEPT !.decision = "denied"]
      /\ \A b \in Steps \ { i } :
           approvals'[b] = approvals[b] /\ effects'[b] = effects[b]
  BY <1>1, <1>2, <1>4, WrittenRecord
<1>6. approvals'[i].decision = "denied" /\ approvals'[i].consumption = Unbound
  BY <1>2, <1>3, <1>5 DEF ApprovalRecords
<1>7. Phase(i) = "pending" /\ Phase(i)' = "denied"
  BY <1>2, <1>6 DEF Phase
<1>8. /\ phases' = [phases EXCEPT ![i] = "denied"]
      /\ lapsedGrants' = lapsedGrants /\ bought' = bought
  BY <1>1, <1>2, <1>5, <1>6, <1>7, OneUnspent
<1>9. Contract!Deny(i)
  BY <1>7, <1>8
  DEF Contract!Deny, Contract!Move, phases, lapsedGrants, bought
<1> QED
  BY <1>9 DEF Contract!Next

\* The consumption is the contract's spending of a grant that has not expired.
LEMMA ConsumeImplements ==
  ASSUME IInv, NEW t \in Threads, Consume(t), approvals' # approvals
  PROVE  Contract!Next
<1>1. pc[t] = "consume" /\ UNCHANGED << effects, lapsed >>
  BY DEF Consume, At
<1>2. mem[t].step \in Steps
  BY <1>1, StepKnown DEF WithStep, PCs
<1>3. PICK i \in Steps :
        /\ approvals' = [approvals EXCEPT ![i].consumption = registry]
        /\ Status(i) = "granted" /\ approvals[i].grant # NoToken
        /\ approvals[i].request = registry
  BY <1>2 DEF Consume, GrantHolds, BindingMatches
<1>4. /\ approvals[i] \in ApprovalRecords /\ registry \in Registries
      /\ registry # Unbound /\ effects[i] \in Nat
  BY DEF IInv, TypeOK, Registries, Unbound
<1>5. [approvals[i] EXCEPT !.consumption = registry] \in ApprovalRecords
  BY <1>4, ApprovalRecordFields
<1>6. approvals' = [approvals EXCEPT ![i] =
         [approvals[i] EXCEPT !.consumption = registry]]
  BY <1>3
<1>7. /\ approvals'[i] = [approvals[i] EXCEPT !.consumption = registry]
       /\ \A b \in Steps \ { i } :
            approvals'[b] = approvals[b] /\ effects'[b] = effects[b]
  BY <1>1, <1>5, <1>6, WrittenRecord
<1>8. approvals'[i].consumption = registry
  BY <1>4, <1>7 DEF ApprovalRecords
<1>9. /\ approvals[i].decision = "granted" /\ approvals[i].consumption = Unbound
      /\ <<"grant", i>> \notin lapsed
  BY <1>3 DEF Status
<1>10. Phase(i) = "granted" /\ Phase(i)' = "spent"
  BY <1>3, <1>4, <1>8, <1>9 DEF Phase
<1>11. effects[i] = 0
  BY <1>3, <1>4, <1>9 DEF IInv, JournalInv, Authorized
<1>12. /\ phases' = [phases EXCEPT ![i] = "spent"]
       /\ lapsedGrants' = lapsedGrants
       /\ bought' = [bought EXCEPT ![i] = 0]
  BY <1>1, <1>4, <1>8, <1>10, <1>11, <1>7, OneApproval
<1>13. bought' = bought
  BY <1>9, <1>12 DEF bought
<1>14. Contract!Spend(i)
  BY <1>9, <1>10, <1>12, <1>13
  DEF Contract!Spend, Contract!Move, phases, lapsedGrants, bought
<1> QED
  BY <1>14 DEF Contract!Next

\* An invocation behind a spent approval is the contract's; behind none it is
\* not the contract's business.
LEMMA InvokeImplements ==
  ASSUME IInv, NEW t \in Threads, InvokeTool(t)
  PROVE  Contract!Next \/ UNCHANGED seen
<1>1. pc[t] = "tool" /\ UNCHANGED << approvals, lapsed >>
  BY DEF InvokeTool, At
<1>2. t \in Operators /\ OperatorInv(t)
  BY <1>1, OperatorOnly
<1>3. PICK i \in Steps :
        /\ effects' = [effects EXCEPT ![i] = effects[i] + 1]
        /\ effects[i] = 0
  BY <1>1, <1>2 DEF OperatorInv, InvokeTool
<1>4. /\ effects'[i] = 1
      /\ \A b \in Steps \ { i } :
           approvals'[b] = approvals[b] /\ effects'[b] = effects[b]
  BY <1>1, <1>3 DEF IInv, TypeOK
<1>5. Phase(i)' = Phase(i)
  BY <1>1 DEF Phase
<1>6. /\ phases' = [phases EXCEPT ![i] = Phase(i)]
      /\ lapsedGrants' = lapsedGrants
      /\ bought' = [bought EXCEPT ![i] =
           IF approvals[i].consumption # Unbound THEN 1 ELSE 0]
  BY <1>1, <1>4, <1>5, OneApproval
<1>7. phases' = phases
  BY <1>6 DEF phases
<1>8. CASE approvals[i].consumption # Unbound
  <2>1. Phase(i) = "spent" /\ bought' = [bought EXCEPT ![i] = 1]
    BY <1>6, <1>8 DEF Phase
  <2>2. Contract!Invoke(i)
    BY <1>3, <1>6, <1>7, <2>1
    DEF Contract!Invoke, phases, lapsedGrants, bought
  <2> QED
    BY <2>2 DEF Contract!Next
<1>9. CASE approvals[i].consumption = Unbound
  <2>1. bought' = bought
    BY <1>6, <1>9 DEF bought
  <2> QED
    BY <1>6, <1>7, <2>1 DEF seen
<1> QED
  BY <1>8, <1>9

\* The expiry of a grant is the contract's, that of a request is not seen.
LEMMA LapseImplements ==
  ASSUME IInv, NEW kind \in { "request", "grant" }, NEW a \in Steps,
         Lapse(kind, a)
  PROVE  Contract!Next \/ UNCHANGED seen
<1>1. /\ lapsed' = lapsed \cup { <<kind, a>> }
      /\ UNCHANGED << approvals, effects >>
  BY DEF Lapse, disk
<1>2. phases' = phases /\ bought' = bought
  BY <1>1 DEF phases, Phase, bought
<1>3. CASE kind = "grant"
  <2>1. lapsedGrants' = lapsedGrants \cup { a }
    BY <1>1, <1>3 DEF lapsedGrants
  <2>2. Contract!Expire(a)
    BY <1>2, <2>1 DEF Contract!Expire, phases, lapsedGrants, bought
  <2> QED
    BY <2>2 DEF Contract!Next
<1>4. CASE kind = "request"
  <2>1. lapsedGrants' = lapsedGrants
    BY <1>1, <1>4 DEF lapsedGrants
  <2> QED
    BY <1>2, <2>1 DEF seen
<1> QED
  BY <1>3, <1>4

\* Every step of the code is a step of the contract or none.
LEMMA StepImplements ==
  ASSUME IInv, [Next]_vars
  PROVE  Contract!Next \/ UNCHANGED seen
<1>1. CASE UNCHANGED << approvals, effects, lapsed >>
  BY <1>1, Unseen
<1>2. ASSUME NEW t \in Threads, Proceed(t),
             ~UNCHANGED << approvals, effects, lapsed >>
      PROVE  Contract!Next \/ UNCHANGED seen
  <2>1. \/ RecordRequest(t) \/ RecordDecision(t) \/ RecordGrant(t)
        \/ RecordDenial(t) \/ InvokeTool(t)
        \/ Consume(t) /\ approvals' # approvals
    BY <1>2 DEF Proceed, Select, SavePending, Announce, SaveState, LogState,
       WriteSnapshot, ContinueGrant, Validate, Consume, SaveUnpended,
       RecordReceipt, LogFinished, CommitMemory, disk
  <2> QED
    BY <2>1, RequestImplements, DecisionImplements, GrantImplements,
       DenialImplements, InvokeImplements, ConsumeImplements
<1>3. ASSUME NEW t \in Operators, NEW a \in Steps, Call(t, a)
      PROVE  UNCHANGED << approvals, effects, lapsed >>
  BY <1>3 DEF Call, Grant, Resume, ResumeDenied, Deny, disk
<1>4. Crash => UNCHANGED << approvals, effects, lapsed >>
  BY DEF Crash, disk
<1>5. UNCHANGED vars => UNCHANGED << approvals, effects, lapsed >>
  BY DEF vars
<1> QED
  BY <1>1, <1>2, <1>3, <1>4, <1>5, LapseImplements DEF Next

\* A run before its first request is the contract before its first request.
LEMMA InitImplements == Init => Contract!Init
<1> SUFFICES ASSUME Init PROVE Contract!Init
  OBVIOUS
<1>1. /\ approvals = [a \in Steps |-> [request |-> Unbound,
                                       decision |-> "none",
                                       grant |-> NoToken,
                                       consumption |-> Unbound]]
      /\ lapsed = {}
  BY DEF Init
<1>2. \A a \in Steps : Phase(a) = "none" /\ approvals[a].consumption = Unbound
  BY <1>1 DEF Phase
<1> QED
  BY <1>1, <1>2 DEF Contract!Init

\* The approval machinery keeps its contract for any number of operators,
\* steps, tokens and restarts.
THEOREM ContractKept == Spec => KeepsContract
<1>1. IInv /\ [Next]_vars => [Contract!Next]_seen
  BY StepImplements
<1> QED
  BY <1>1, InitImplements, Invariant, PTL
  DEF Spec, KeepsContract, Contract!Spec, seen, phases, lapsedGrants, bought

-----------------------------------------------------------------------------
(* run.json moves along the transition table while the server offers grant *)
(* and deny alone.  A caller that resumes with a token of its own can      *)
(* revive a run whose failure a crash kept out of the event log, so that   *)
(* the hypothesis CallerTokens = {} is needed.                             *)

\* At most one approval is requested and not spent.
LEMMA OneOutstanding ==
  ASSUME IInv, NEW a \in Steps, NEW b \in Steps,
         approvals[a].request # Unbound, approvals[a].consumption = Unbound,
         approvals[b].request # Unbound, approvals[b].consumption = Unbound
  PROVE  a = b
<1>1. ~Passed(a) /\ ~Passed(b) /\ ~Untouched(a) /\ ~Untouched(b)
  BY DEF Passed, Cleared, Untouched
<1>2. ~(b > a) /\ ~(a > b)
  BY <1>1 DEF IInv, JournalInv
<1> QED
  BY <1>2 DEF Steps

\* What waits for a decision is not spent.
LEMMA WaitingUnspent ==
  ASSUME IInv, NEW a \in Steps, Waiting(a)
  PROVE  approvals[a].request # Unbound /\ approvals[a].consumption = Unbound
BY DEF IInv, JournalInv, Coherent, Waiting

\* When the workflow stands at a step that does not wait, nothing waits.
LEMMA FrontWaits ==
  ASSUME IInv, NEW i \in Steps, Front(i), ~Waiting(i)
  PROVE  \A a \in Steps : ~Waiting(a)
<1> SUFFICES ASSUME NEW a \in Steps, Waiting(a) PROVE FALSE
  OBVIOUS
<1>1. a < i \/ a > i
  BY DEF Steps
<1>2. ~Passed(a) /\ ~Untouched(a)
  BY WaitingUnspent DEF Passed, Cleared, Untouched
<1> QED
  BY <1>1, <1>2 DEF Front

\* When a step is granted and unspent, nothing waits.
LEMMA GrantedWaits ==
  ASSUME IInv, NEW i \in Steps, approvals[i].decision = "granted",
         approvals[i].consumption = Unbound
  PROVE  \A a \in Steps : ~Waiting(a)
<1> SUFFICES ASSUME NEW a \in Steps, Waiting(a) PROVE FALSE
  OBVIOUS
<1>1. approvals[i].request # Unbound
  BY DEF IInv, JournalInv, Coherent
<1>2. a = i
  BY <1>1, WaitingUnspent, OneOutstanding
<1> QED
  BY <1>2 DEF Waiting

\* When every step is passed, nothing waits.
LEMMA PassedWaits ==
  ASSUME IInv, \A j \in Steps : Passed(j)
  PROVE  \A a \in Steps : ~Waiting(a)
BY WaitingUnspent DEF Passed, Cleared

\* Only a recorded request makes a step wait.
LEMMA WaitingStep ==
  ASSUME IInv, NEW t \in Threads, Proceed(t), ~RecordRequest(t),
         NEW a \in Steps, Waiting(a)'
  PROVE  Waiting(a)
<1> DEFINE i == mem[t].step
<1>1. approvals \in [Steps -> ApprovalRecords] /\ approvals[a] \in ApprovalRecords
  BY DEF IInv, TypeOK
<1>2. CASE approvals' = approvals
  BY <1>2 DEF Waiting
<1>3. CASE \E d \in { "granted", "denied" } :
             approvals' = [approvals EXCEPT ![i].decision = d]
  <2>1. PICK d \in { "granted", "denied" } :
          approvals' = [approvals EXCEPT ![i].decision = d]
    BY <1>3
  <2>2. a # i
    BY <1>1, <2>1 DEF Waiting, ApprovalRecords
  <2>3. approvals'[a] = approvals[a]
    BY <1>1, <2>1, <2>2
  <2> QED
    BY <2>3 DEF Waiting
<1>4. CASE approvals' = [approvals EXCEPT ![i].grant = mem[t].token]
  BY <1>1, <1>4 DEF Waiting, ApprovalRecords
<1>5. CASE approvals' = [approvals EXCEPT ![i].consumption = registry]
  BY <1>1, <1>5 DEF Waiting, ApprovalRecords
<1>6. \/ approvals' = approvals
      \/ RecordDecision(t) \/ RecordGrant(t) \/ Consume(t) \/ RecordDenial(t)
  BY DEF Proceed, Select, SavePending, Announce, SaveState, LogState,
     WriteSnapshot, ContinueGrant, Validate, SaveUnpended, InvokeTool,
     RecordReceipt, LogFinished, CommitMemory, disk
<1> QED
  BY <1>2, <1>3, <1>4, <1>5, <1>6
  DEF RecordDecision, RecordGrant, Consume, RecordDenial

\* Whatever an operator is about to move the run to, except to where it waits
\* for the decision: no request is undecided.
LEMMA HeadingDecided ==
  ASSUME IInv, NEW t \in Operators, OnPath(t), pc[t] = "save",
         mem[t].target # "awaiting_approval"
  PROVE  \A a \in Steps : ~Waiting(a)
<1> DEFINE i == mem[t].step
<1>1. OperatorInv(t) /\ mem[t].target \in Headings \ { "awaiting_approval" }
  BY DEF IInv, OnPath
<1>2. CASE Taking(t, "executing")
  <2>1. i \in Steps /\ Front(i) /\ (Authorized(i) \/ approvals[i].request = Unbound)
    BY <1>1, <1>2 DEF OperatorInv
  <2>2. ~Waiting(i)
    BY <2>1 DEF Waiting, Authorized
  <2> QED
    BY <2>1, <2>2, FrontWaits
<1>3. CASE Taking(t, "observing") \/ Taking(t, "memory_commit")
  <2>1. i \in Steps /\ Front(i) /\ Passed(i)
    BY <1>1, <1>3 DEF OperatorInv, Recorded
  <2>2. ~Waiting(i)
    BY <2>1, WaitingUnspent DEF Passed, Cleared
  <2> QED
    BY <2>1, <2>2, FrontWaits
<1>4. CASE Taking(t, "reporting") \/ Taking(t, "completed")
  <2>1. \A j \in Steps : Passed(j)
    BY <1>1, <1>4 DEF OperatorInv
  <2> QED
    BY <2>1, PassedWaits
<1>5. CASE mem[t].target \in { "failed", "halted" }
  BY <1>5 DEF OnPath
<1> QED
  BY <1>1, <1>2, <1>3, <1>4, <1>5 DEF Headings, Taking

\* What a write of a thread does to run.json and to the state it remembers.
LEMMA RunWrites ==
  ASSUME IInv, NEW t \in Threads, Proceed(t)
  PROVE  \/ /\ run' = run
            /\ pc'[t] \notin { "idle", "done" } =>
                 mem'[t].state = mem[t].state
         \/ /\ SavePending(t) \/ SaveUnpended(t)
            /\ run'.state = mem[t].state /\ mem'[t].state = mem[t].state
         \/ /\ SaveState(t)
            /\ run'.state = mem[t].target /\ mem'[t].state = mem[t].target
         \/ /\ pc[t] = "resume" /\ ContinueGrant(t)
            /\ run'.state = "awaiting_approval"
            /\ mem'[t].state = "awaiting_approval"
<1>1. /\ mem \in [Threads -> ThreadRecords] /\ mem[t] \in ThreadRecords
      /\ pc \in [Threads -> PCs]
  BY DEF IInv, TypeOK
<1>2. CASE mem' = mem /\ run' = run
  BY <1>2
<1>3. ASSUME NEW s, Enter(t, s), run' = run
      PROVE  mem'[t].state = mem[t].state
  BY <1>1, <1>3 DEF Enter, ThreadRecords
<1>4. CASE Return(t) /\ run' = run
  BY <1>1, <1>4 DEF Return, Goto
<1>5. CASE SavePending(t)
  <2>1. mem'[t] = [mem[t] EXCEPT !.pending = mem[t].step]
    BY <1>1, <1>5 DEF SavePending
  <2>2. mem'[t].state = mem[t].state
    BY <1>1, <2>1 DEF ThreadRecords
  <2> QED
    BY <1>5, <2>2 DEF SavePending
<1>6. CASE SaveUnpended(t)
  <2>1. mem'[t] = [mem[t] EXCEPT !.pending = NoStep, !.approved = TRUE,
                                 !.target = "executing"]
    BY <1>1, <1>6 DEF SaveUnpended
  <2>2. mem'[t].state = mem[t].state
    BY <1>1, <2>1 DEF ThreadRecords
  <2> QED
    BY <1>6, <2>2 DEF SaveUnpended
<1>7. CASE SaveState(t)
  <2>1. mem'[t] = [mem[t] EXCEPT !.state = mem[t].target]
    BY <1>1, <1>7 DEF SaveState
  <2>2. mem'[t].state = mem[t].target
    BY <1>1, <2>1 DEF ThreadRecords
  <2> QED
    BY <1>7, <2>2 DEF SaveState
<1>8. CASE ContinueGrant(t)
  <2>1. CASE Accepted(t, mem[t].step, mem[t].token, "validate")
    <3>1. run'.state = "awaiting_approval"
      BY <2>1 DEF Accepted, Awaiting
    <3>2. mem'[t].state = "awaiting_approval"
      BY <1>1, <2>1 DEF Accepted, Blank
    <3>3. pc[t] = "resume"
      BY <1>8 DEF ContinueGrant, At
    <3> QED
      BY <1>8, <3>1, <3>2, <3>3
  <2> QED
    BY <1>4, <1>8, <2>1 DEF ContinueGrant
<1>9. CASE Select(t)
  <2>1. CASE mem' = [mem EXCEPT ![t].target = "executing", ![t].approved = FALSE]
    <3>1. mem'[t] = [mem[t] EXCEPT !.target = "executing", !.approved = FALSE]
      BY <1>1, <2>1
    <3>2. mem'[t].state = mem[t].state
      BY <1>1, <3>1 DEF ThreadRecords
    <3> QED
      BY <1>9, <3>2 DEF Select
  <2> QED
    BY <1>2, <1>9, <2>1 DEF Select
<1>10. CASE InvokeTool(t)
  <2>1. PICK b : mem' = [mem EXCEPT ![t].ok = b]
    BY <1>10 DEF InvokeTool
  <2>2. mem'[t].state = mem[t].state
    BY <1>1, <2>1 DEF ThreadRecords
  <2> QED
    BY <1>10, <2>2 DEF InvokeTool
<1>11. CASE CommitMemory(t)
  <2>1. CASE mem' = [mem EXCEPT ![t].step = mem[t].step + 1]
    <3>1. mem'[t].state = mem[t].state
      BY <1>1, <2>1 DEF ThreadRecords
    <3> QED
      BY <1>11, <3>1 DEF CommitMemory, disk
  <2> QED
    BY <1>3, <1>11, <2>1 DEF CommitMemory, disk
<1>12. CASE LogState(t)
  BY <1>2, <1>3, <1>12 DEF LogState, AfterLog
<1>13. CASE Validate(t) \/ Consume(t)
  BY <1>2, <1>3, <1>4, <1>13 DEF Validate, Consume, disk
<1>14. CASE Announce(t) \/ RecordDenial(t) \/ LogFinished(t)
  BY <1>3, <1>14 DEF Announce, RecordDenial, LogFinished
<1>15. CASE \/ RecordRequest(t) \/ RecordDecision(t) \/ RecordGrant(t)
            \/ RecordReceipt(t)
  BY <1>2, <1>15 DEF RecordRequest, RecordDecision, RecordGrant, RecordReceipt
<1>16. CASE WriteSnapshot(t)
  BY <1>4, <1>16 DEF WriteSnapshot
<1> QED
  BY <1>5, <1>6, <1>7, <1>8, <1>9, <1>10, <1>11, <1>12, <1>13, <1>14, <1>15,
     <1>16 DEF Proceed

\* A write keeps the lock or drops it.
LEMMA LockWrites ==
  ASSUME NEW t \in Threads, Proceed(t)
  PROVE  /\ lock = IF t = Creator THEN Nobody ELSE t
         /\ pc[t] \notin { "idle", "done" }
         /\ lock' \in { lock, Nobody }
<1>1. \E label \in PCs \ { "idle", "done" } : At(t, label)
  BY DEF Proceed, Select, RecordRequest, SavePending, Announce, SaveState,
     LogState, WriteSnapshot, RecordDecision, RecordGrant, ContinueGrant,
     Validate, Consume, SaveUnpended, RecordDenial, InvokeTool, RecordReceipt,
     LogFinished, CommitMemory, PCs
<1>2. lock' \in { lock, Nobody }
  BY DEF Proceed, Select, RecordRequest, SavePending, Announce, SaveState,
     LogState, WriteSnapshot, RecordDecision, RecordGrant, ContinueGrant,
     Validate, Consume, SaveUnpended, RecordDenial, InvokeTool, RecordReceipt,
     LogFinished, CommitMemory, Return
<1> QED
  BY <1>1, <1>2 DEF At

\* The memory and the place of every other thread stay.
LEMMA OthersStay ==
  ASSUME IInv, NEW t \in Threads, Proceed(t), NEW u \in Threads \ { t }
  PROVE  pc'[u] = pc[u] /\ mem'[u] = mem[u]
<1>1. mem \in [Threads -> ThreadRecords] /\ pc \in [Threads -> PCs]
  BY DEF IInv, TypeOK
<1> QED
  BY <1>1 DEF Proceed, Goto, Enter, Return, Accepted, Select, RecordRequest,
     SavePending, Announce, SaveState, LogState, AfterLog, WriteSnapshot,
     RecordDecision, RecordGrant, ContinueGrant, Validate, Consume,
     SaveUnpended, RecordDenial, InvokeTool, RecordReceipt, LogFinished,
     CommitMemory

\* The lock holder knows what run.json says.
LEMMA HolderKept ==
  ASSUME IInv, IInv', HolderCurrent, NEW t \in Threads, Proceed(t)
  PROVE  HolderCurrent'
<1> SUFFICES ASSUME NEW u \in Operators, lock' = u
             PROVE  mem'[u].state = run'.state
  BY DEF HolderCurrent
<1>1. u = t /\ lock = t
  BY LockWrites, ThreadsAssumption DEF Threads
<1>2. mem[t].state = run.state
  BY <1>1 DEF HolderCurrent
<1>3. pc'[u] # "idle" /\ pc'[u] # "done"
  BY DEF IInv, LockInv
<1> QED
  BY <1>1, <1>2, <1>3, RunWrites

\* Until the Creator has saved its transition the run is still selecting.
LEMMA CreatorFirstKept ==
  ASSUME IInv, IInv', CreatorFirst, NEW t \in Threads, Proceed(t)
  PROVE  CreatorFirst'
<1> DEFINE early == { "select", "request", "pend", "announce", "save" }
<1> SUFFICES ASSUME pc'[Creator] \in early
             PROVE  /\ lock' = Nobody
                    /\ run'.state = "action_selection"
                    /\ log'.state = "action_selection"
                    /\ mem'[Creator].state = "action_selection"
  BY DEF CreatorFirst
<1>1. CASE t # Creator
  <2>1. pc[Creator] \in early
    BY <1>1, OthersStay DEF Threads
  <2>2. lock = Nobody /\ lock = t /\ t \in Operators
    BY <1>1, <2>1, LockWrites DEF CreatorFirst, Threads
  <2> QED
    BY <2>2, ThreadsAssumption
<1>2. CASE t = Creator
  <2>1. pc \in [Threads -> PCs] /\ log \in LogRecords
    BY DEF IInv, TypeOK
  <2>2. ~SaveState(t) /\ ~WriteSnapshot(t)
    BY <1>2, <2>1 DEF SaveState, WriteSnapshot, Goto, Return
  <2>3. ~LogState(t)
    <3> SUFFICES ASSUME LogState(t) PROVE FALSE
      OBVIOUS
    <3>1. pc[t] = "log" /\ mem[t].state = "awaiting_approval"
      BY <1>2 DEF LogState, At, IInv, CreatorInv, StateInv
    <3>2. Goto(t, "snapshot")
      BY <3>1 DEF LogState, AfterLog, Terminal
    <3> QED
      BY <1>2, <2>1, <3>2 DEF Goto
  <2>4. pc[t] \in { "select", "request", "pend", "announce" }
    <3>1. pc[t] \notin { "save", "log", "snapshot", "done" }
      BY <2>2, <2>3, LockWrites DEF Proceed, At, Select, RecordRequest,
         SavePending, Announce, RecordDecision, RecordGrant, ContinueGrant,
         Validate, Consume, SaveUnpended, RecordDenial, InvokeTool,
         RecordReceipt, LogFinished, CommitMemory
    <3> QED
      BY <1>2, <3>1 DEF IInv, CreatorInv
  <2>5. /\ lock = Nobody /\ run.state = "action_selection"
        /\ log.state = "action_selection"
        /\ mem[t].state = "action_selection"
    BY <1>2, <2>4 DEF CreatorFirst
  <2>6. lock' = Nobody
    BY <2>5, LockWrites
  <2>7. run'.state = "action_selection" /\ mem'[t].state = "action_selection"
    BY <1>2, <2>2, <2>4, <2>5, RunWrites
  <2>8. Select(t) \/ RecordRequest(t) \/ SavePending(t) \/ Announce(t)
    BY <2>2, <2>3, <2>4 DEF Proceed, At, RecordDecision, RecordGrant,
       ContinueGrant, Validate, Consume, SaveUnpended, RecordDenial,
       InvokeTool, RecordReceipt, LogFinished, CommitMemory
  <2>9. log'.state = log.state
    BY <2>1, <2>8 DEF Select, RecordRequest, SavePending, Announce, LogRecords
  <2> QED
    BY <1>2, <2>5, <2>6, <2>7, <2>9
<1> QED
  BY <1>1, <1>2

\* What an operator has in memory is what run.json says, and so is what the
\* Creator has until it saved its transition.
LEMMA WriterCurrent ==
  ASSUME IInv, HolderCurrent, CreatorFirst, NEW t \in Threads, Proceed(t),
         t = Creator => pc[t] \in { "select", "request", "pend", "announce",
                                    "save" }
  PROVE  mem[t].state = run.state
<1>1. CASE t = Creator
  BY <1>1 DEF CreatorFirst
<1>2. CASE t # Creator
  BY <1>2, LockWrites DEF HolderCurrent, Threads
<1> QED
  BY <1>1, <1>2

\* A run with an undecided request can still be moved to where it waits.
LEMMA WaitingRunKept ==
  ASSUME IInv, ServerInv, NEW t \in Threads, Proceed(t)
  PROVE  WaitingRun'
<1> SUFFICES ASSUME NEW a \in Steps, Waiting(a)'
             PROVE  run'.state \in RequestStates
  BY DEF WaitingRun
<1>1. CASE RecordRequest(t)
  <2>1. pc[t] = "request" /\ run' = run
    BY <1>1 DEF RecordRequest, At
  <2>2. mem[t].state \in { "action_selection", "memory_commit" }
    BY <2>1 DEF IInv, StateInv
  <2> QED
    BY <2>1, <2>2, WriterCurrent DEF ServerInv, RequestStates
<1>2. CASE ~RecordRequest(t)
  <2>1. Waiting(a) /\ run.state \in RequestStates
    BY <1>2, WaitingStep DEF ServerInv, WaitingRun
  <2>2. CASE SavePending(t)
    <3>1. mem[t].state \in { "action_selection", "memory_commit" }
      BY <2>2 DEF SavePending, At, IInv, StateInv
    <3> QED
      BY <2>2, <3>1, RunWrites DEF SavePending, RequestStates
  <2>3. CASE SaveUnpended(t)
    <3>1. mem[t].state = "awaiting_approval"
      BY <2>3 DEF SaveUnpended, At, IInv, StateInv
    <3> QED
      BY <2>3, <3>1 DEF SaveUnpended, RequestStates
  <2>4. CASE SaveState(t)
    <3>1. pc[t] = "save" /\ run'.state = mem[t].target
      BY <2>4 DEF SaveState, At
    <3>2. mem[t].target = "awaiting_approval"
      <4>1. CASE t = Creator
        BY <3>1, <4>1 DEF IInv, CreatorInv
      <4>2. CASE t \in Operators
        BY <2>1, <3>1, <4>2, HeadingDecided DEF ServerInv
      <4> QED
        BY <4>1, <4>2 DEF Threads
    <3> QED
      BY <3>1, <3>2 DEF RequestStates
  <2> QED
    BY <2>1, <2>2, <2>3, <2>4, RunWrites DEF RequestStates
<1> QED
  BY <1>1, <1>2

\* An operator that is not inside a call relies on nothing.
LEMMA IdlePath ==
  ASSUME NEW u \in Operators, pc'[u] = "idle"
  PROVE  OnPath(u)'
BY DEF OnPath

\* What every write leaves for its operator to rely on.
LEMMA OnPathKept ==
  ASSUME IInv, ServerInv, NEW t \in Operators, Proceed(t)
  PROVE  OnPath(t)'
<1> DEFINE i == mem[t].step
<1>1. /\ mem \in [Threads -> ThreadRecords] /\ mem[t] \in ThreadRecords
      /\ pc \in [Threads -> PCs] /\ t \in Threads /\ t # Creator
      /\ approvals \in [Steps -> ApprovalRecords]
  BY ThreadsAssumption DEF IInv, TypeOK, Threads
<1>2. OnPath(t) /\ OperatorInv(t) /\ StateInv(t)
  BY <1>1 DEF ServerInv, IInv
<1>3. ASSUME NEW label, Goto(t, label),
             label \notin { "resume", "validate", "consume", "save", "log" }
      PROVE  OnPath(t)'
  BY <1>1, <1>3, GotoFacts DEF OnPath
<1>4. ASSUME NEW s \in Headings \ { "failed", "halted" }, Enter(t, s)
      PROVE  OnPath(t)'
  <2>1. s \in States
    BY StatesEntered DEF Headings, Terminal
  <2>2. pc'[t] = "save" /\ mem'[t].target = s
    BY <1>1, <1>4, <2>1, EnterFacts
  <2> QED
    BY <2>2 DEF OnPath
<1>5. ASSUME NEW s \in { "failed", "halted" }, Enter(t, s),
             \A a \in Steps : ~Waiting(a)'
      PROVE  OnPath(t)'
  <2>1. s \in States
    BY StatesEntered DEF Terminal
  <2>2. pc'[t] = "save" /\ mem'[t].target = s
    BY <1>1, <1>5, <2>1, EnterFacts
  <2> QED
    BY <1>5, <2>2 DEF OnPath, Headings
<1>6. CASE Return(t)
  BY <1>1, <1>6, IdlePath DEF Return, Goto
<1>7. ASSUME pc'[t] = "save", mem'[t].target = "executing"
      PROVE  OnPath(t)'
  BY <1>7 DEF OnPath, Headings
<1>8. CASE Select(t)
  <2>1. CASE mem' = [mem EXCEPT ![t].target = "executing", ![t].approved = FALSE]
             /\ Goto(t, "save")
    <3>1. mem'[t] = [mem[t] EXCEPT !.target = "executing", !.approved = FALSE]
      BY <1>1, <2>1
    <3>2. mem'[t].target = "executing"
      BY <1>1, <3>1 DEF ThreadRecords
    <3> QED
      BY <1>1, <1>7, <2>1, <3>2, GotoFacts
  <2> QED
    BY <1>3, <1>8, <2>1 DEF Select
<1>9. CASE SaveState(t)
  <2>1. mem'[t] = [mem[t] EXCEPT !.state = mem[t].target]
    BY <1>1, <1>9 DEF SaveState
  <2>2. mem'[t].target = mem[t].target
    BY <1>1, <2>1 DEF ThreadRecords
  <2>3. pc'[t] = "log" /\ pc[t] = "save" /\ approvals' = approvals
    BY <1>1, <1>9, GotoFacts DEF SaveState, At
  <2> QED
    BY <1>2, <2>2, <2>3 DEF OnPath, Waiting
<1>10. CASE LogState(t)
  BY <1>3, <1>4, <1>10 DEF LogState, AfterLog, Headings
<1>11. CASE RecordGrant(t)
  <2>1. /\ i \in Steps /\ approvals[i].decision = "granted"
        /\ approvals[i].consumption = Unbound
    BY <1>1, <1>2, <1>11, StepKnown DEF RecordGrant, At, OperatorInv, WithStep, PCs
  <2>2. approvals'[i] = [approvals[i] EXCEPT !.grant = mem[t].token]
    BY <1>1, <1>11, <2>1 DEF RecordGrant
  <2>3. approvals'[i].decision = "granted" /\ approvals'[i].consumption = Unbound
    BY <1>1, <2>1, <2>2 DEF ApprovalRecords
  <2>4. pc'[t] = "resume" /\ mem'[t].step = i
    BY <1>1, <1>11, GotoFacts DEF RecordGrant
  <2> QED
    BY <2>3, <2>4 DEF OnPath
<1>12. CASE ContinueGrant(t)
  <2>1. CASE Accepted(t, i, mem[t].token, "validate")
    <3>1. pc'[t] = "validate" /\ mem'[t].step = i
      BY <1>1, <2>1, AcceptedFacts
    <3>2. pc[t] = "resume" /\ approvals' = approvals
      BY <1>12 DEF ContinueGrant, At
    <3> QED
      BY <1>2, <3>1, <3>2 DEF OnPath
  <2> QED
    BY <1>6, <1>12, <2>1 DEF ContinueGrant
<1>13. pc[t] \in { "validate", "consume" } =>
         /\ i \in Steps /\ approvals[i].decision = "granted"
         /\ approvals[i].consumption = Unbound
         /\ \A a \in Steps : ~Waiting(a)
  <2>1. pc[t] \in { "validate", "consume" } =>
          /\ i \in Steps /\ approvals[i].decision = "granted"
          /\ approvals[i].consumption = Unbound
    BY <1>1, <1>2, StepKnown DEF OnPath, WithStep, PCs
  <2> QED
    BY <2>1, GrantedWaits
<1>14. CASE Validate(t)
  <2>1. pc[t] = "validate" /\ approvals' = approvals
    BY <1>14 DEF Validate, At, disk
  <2>2. CASE Goto(t, "consume") /\ UNCHANGED mem
    <3>1. pc'[t] = "consume" /\ mem'[t].step = i
      BY <1>1, <2>2, GotoFacts
    <3> QED
      BY <1>13, <2>1, <3>1 DEF OnPath
  <2>3. CASE Enter(t, "failed")
    <3>1. \A a \in Steps : ~Waiting(a)'
      BY <1>13, <2>1 DEF Waiting
    <3> QED
      BY <1>5, <2>3, <3>1
  <2> QED
    BY <1>6, <1>14, <2>2, <2>3 DEF Validate
<1>15. CASE Consume(t)
  <2>1. pc[t] = "consume"
    BY <1>15 DEF Consume, At
  <2>2. CASE Enter(t, "failed") /\ approvals' = approvals
    <3>1. \A a \in Steps : ~Waiting(a)'
      BY <1>13, <2>1, <2>2 DEF Waiting
    <3> QED
      BY <1>5, <2>2, <3>1
  <2> QED
    BY <1>3, <1>6, <1>15, <2>2 DEF Consume
<1>16. CASE SaveUnpended(t)
  <2>1. mem'[t] = [mem[t] EXCEPT !.pending = NoStep, !.approved = TRUE,
                                 !.target = "executing"]
    BY <1>1, <1>16 DEF SaveUnpended
  <2>2. mem'[t].target = "executing"
    BY <1>1, <2>1 DEF ThreadRecords
  <2> QED
    BY <1>1, <1>7, <1>16, <2>2, GotoFacts DEF SaveUnpended
<1>17. CASE RecordDenial(t)
  <2>1. PICK j \in Steps :
          /\ approvals' = [approvals EXCEPT ![j].decision = "denied"]
          /\ approvals[j].request # Unbound /\ approvals[j].consumption = Unbound
    BY <1>17, Undecided DEF RecordDenial, At
  <2>2. approvals'[j] = [approvals[j] EXCEPT !.decision = "denied"]
    BY <1>1, <2>1
  <2>3. approvals'[j].decision = "denied"
    BY <1>1, <2>1, <2>2 DEF ApprovalRecords
  <2>4. ASSUME NEW a \in Steps, Waiting(a)' PROVE FALSE
    <3>1. ~RecordRequest(t)
      BY <1>17 DEF RecordDenial, RecordRequest, At
    <3>2. Waiting(a)
      BY <1>1, <2>4, <3>1, WaitingStep
    <3>3. a = j
      BY <2>1, <3>2, WaitingUnspent, OneOutstanding
    <3> QED
      BY <2>3, <2>4, <3>3 DEF Waiting
  <2> QED
    BY <1>5, <1>17, <2>4 DEF RecordDenial
<1>18. CASE CommitMemory(t)
  <2>1. i \in Steps /\ Passed(i) /\ Front(i) /\ approvals' = approvals
    BY <1>2, <1>18 DEF CommitMemory, At, disk, OperatorInv, Recorded
  <2>2. ~Waiting(i)
    BY <2>1, WaitingUnspent DEF Passed, Cleared
  <2>3. \A a \in Steps : ~Waiting(a)
    BY <2>1, <2>2, FrontWaits
  <2>4. \A a \in Steps : ~Waiting(a)'
    BY <2>1, <2>3 DEF Waiting
  <2> QED
    BY <1>3, <1>4, <1>5, <1>18, <2>4 DEF CommitMemory, Headings
<1>19. CASE Announce(t) \/ LogFinished(t)
  BY <1>4, <1>19 DEF Announce, LogFinished, Headings
<1>20. CASE \/ RecordRequest(t) \/ SavePending(t) \/ RecordDecision(t)
            \/ InvokeTool(t) \/ RecordReceipt(t)
  BY <1>3, <1>20 DEF RecordRequest, SavePending, RecordDecision, InvokeTool,
     RecordReceipt
<1>21. CASE WriteSnapshot(t)
  BY <1>6, <1>21 DEF WriteSnapshot
<1> QED
  BY <1>8, <1>9, <1>10, <1>11, <1>12, <1>14, <1>15, <1>16, <1>17, <1>18, <1>19,
     <1>20, <1>21 DEF Proceed

\* Every write keeps what the run relies on.
LEMMA ProceedServer ==
  ASSUME IInv, IInv', ServerInv, NEW t \in Threads, Proceed(t)
  PROVE  ServerInv'
<1>1. HolderCurrent' /\ CreatorFirst' /\ WaitingRun'
  BY HolderKept, CreatorFirstKept, WaitingRunKept DEF ServerInv
<1>2. ASSUME NEW u \in Operators PROVE OnPath(u)'
  <2>1. CASE u = t
    BY <2>1, OnPathKept
  <2>2. CASE u # t
    <3>1. pc'[u] = "idle"
      BY <2>2, LockWrites, OthersIdle, OthersStay DEF Threads
    <3> QED
      BY <3>1, IdlePath
  <2> QED
    BY <2>1, <2>2
<1> QED
  BY <1>1, <1>2 DEF ServerInv

\* A grant or a denial finds a run that waits, or is about to.
LEMMA CallFinds ==
  ASSUME IInv, ServerInv, NEW a \in Steps, Accepts(a, { "pending" })
  PROVE  run.state \in RequestStates
<1>1. Waiting(a)
  <2>1. Status(a) = "pending" /\ approvals[a] \in ApprovalRecords
    BY DEF Accepts, IInv, TypeOK
  <2>2. approvals[a].decision \in { "none", "granted", "denied" }
    BY <2>1 DEF ApprovalRecords
  <2> QED
    BY <2>1, <2>2 DEF Status, Waiting
<1> QED
  BY <1>1 DEF ServerInv, WaitingRun

\* A call is a grant or a denial when no caller has a token of its own.
LEMMA ServerCalls ==
  ASSUME CallerTokens = {}, NEW t \in Operators, NEW a \in Steps, Call(t, a)
  PROVE  /\ pc[t] = "idle" /\ lock = Nobody /\ lock' = t
         /\ Accepts(a, { "pending" })
         /\ \E token, label :
              label \in { "decide", "deny" } /\ Accepted(t, a, token, label)
         /\ UNCHANGED << log, approvals >>
<1>1. \/ \E token \in Tokens : Grant(t, a, token)
      \/ Deny(t, a)
  BY DEF Call, ResumeDenied
<1> QED
  BY <1>1 DEF Grant, Deny

\* Every call that is let through keeps what the run relies on.
LEMMA CallServer ==
  ASSUME CallerTokens = {}, IInv, ServerInv, NEW t \in Operators,
         NEW a \in Steps, Call(t, a)
  PROVE  ServerInv'
<1>1. /\ lock = Nobody /\ lock' = t /\ Accepts(a, { "pending" })
      /\ UNCHANGED << log, approvals >>
  BY ServerCalls
<1>2. PICK token, label :
        label \in { "decide", "deny" } /\ Accepted(t, a, token, label)
  BY ServerCalls
<1>3. t \in Threads /\ t # Creator
  BY ThreadsAssumption DEF Threads
<1>4. /\ pc'[t] = label /\ mem'[t].state = "awaiting_approval"
      /\ run'.state = "awaiting_approval"
      /\ \A u \in Threads \ { t } : pc'[u] = pc[u] /\ mem'[u] = mem[u]
  BY <1>2, <1>3, AcceptedFacts, GotoFacts DEF Accepted, Awaiting
<1>5. HolderCurrent'
  BY <1>1, <1>4 DEF HolderCurrent
<1>6. CreatorFirst'
  <2>1. "awaiting_approval" \in { log.state, run.state }
    BY <1>1 DEF Accepts
  <2>2. pc[Creator] \notin { "select", "request", "pend", "announce", "save" }
    BY <2>1 DEF ServerInv, CreatorFirst
  <2>3. pc'[Creator] = pc[Creator]
    BY <1>3, <1>4 DEF Threads
  <2> QED
    BY <2>2, <2>3 DEF CreatorFirst
<1>7. WaitingRun'
  BY <1>4 DEF WaitingRun, RequestStates
<1>8. ASSUME NEW u \in Operators PROVE OnPath(u)'
  <2>1. CASE u = t
    BY <1>2, <1>4, <2>1 DEF OnPath
  <2>2. CASE u # t
    <3>1. pc[u] = "idle"
      BY <1>1, ThreadsAssumption DEF IInv, LockInv
    <3>2. pc'[u] = "idle"
      BY <1>4, <2>2, <3>1 DEF Threads
    <3> QED
      BY <3>2, IdlePath
  <2> QED
    BY <2>1, <2>2
<1> QED
  BY <1>5, <1>6, <1>7, <1>8 DEF ServerInv

\* An expiry is not seen by what the run relies on.
LEMMA QuietServer ==
  ASSUME ServerInv, UNCHANGED << run, log, approvals, lock, pc, mem >>
  PROVE  ServerInv'
BY DEF ServerInv, HolderCurrent, CreatorFirst, WaitingRun, OnPath, Waiting

\* After a crash only the files count, and they did not change.
LEMMA CrashServer ==
  ASSUME ServerInv, Crash
  PROVE  ServerInv'
<1>1. /\ \A t \in Operators : pc'[t] = "idle"
      /\ pc'[Creator] = "done" /\ lock' = Nobody
      /\ UNCHANGED << run, approvals >>
  BY ThreadsAssumption DEF Crash, Threads, disk
<1>2. HolderCurrent'
  BY <1>1, ThreadsAssumption DEF HolderCurrent
<1>3. CreatorFirst'
  BY <1>1 DEF CreatorFirst
<1>4. WaitingRun'
  BY <1>1 DEF ServerInv, WaitingRun, Waiting
<1>5. \A t \in Operators : OnPath(t)'
  BY <1>1, IdlePath
<1> QED
  BY <1>2, <1>3, <1>4, <1>5 DEF ServerInv

\* Before the first request nothing waits.
LEMMA InitServer == Init => ServerInv
<1> SUFFICES ASSUME Init PROVE ServerInv
  OBVIOUS
<1>1. /\ pc = [t \in Threads |-> IF t = Creator THEN "select" ELSE "idle"]
      /\ mem = [t \in Threads |->
                  IF t = Creator
                  THEN [Blank EXCEPT !.state = "action_selection", !.step = 1]
                  ELSE Blank]
      /\ approvals = [a \in Steps |-> [request |-> Unbound,
                                       decision |-> "none",
                                       grant |-> NoToken,
                                       consumption |-> Unbound]]
      /\ run.state = "action_selection" /\ log.state = "action_selection"
      /\ lock = Nobody
  BY DEF Init
<1>2. HolderCurrent
  BY <1>1, ThreadsAssumption DEF HolderCurrent
<1>3. CreatorFirst
  <2>1. mem[Creator].state = "action_selection"
    BY <1>1 DEF Threads, Blank
  <2> QED
    BY <1>1, <2>1 DEF CreatorFirst
<1>4. WaitingRun
  BY <1>1 DEF WaitingRun, Waiting
<1>5. \A t \in Operators : OnPath(t)
  BY <1>1, ThreadsAssumption DEF OnPath, Threads
<1> QED
  BY <1>2, <1>3, <1>4, <1>5 DEF ServerInv

\* Every step keeps what the run relies on.
LEMMA NextServer ==
  ASSUME CallerTokens = {}, IInv, IInv', ServerInv, [Next]_vars
  PROVE  ServerInv'
<1>1. ASSUME NEW kind \in { "request", "grant" }, NEW a \in Steps,
             Lapse(kind, a)
      PROVE  ServerInv'
  BY <1>1, QuietServer DEF Lapse, disk
<1>2. CASE UNCHANGED vars
  BY <1>2, QuietServer DEF vars
<1> QED
  BY <1>1, <1>2, ProceedServer, CallServer, CrashServer DEF Next

\* A write of a call under way moves the run along the transition table.
LEMMA ProceedLegal ==
  ASSUME IInv, ServerInv, NEW t \in Threads, Proceed(t),
         run'.state # run.state
  PROVE  CanTransition(run.state, run'.state)
<1>1. CASE SavePending(t) /\ run'.state = mem[t].state
  <2>1. pc[t] = "pend"
    BY <1>1 DEF SavePending, At
  <2> QED
    BY <1>1, <2>1, WriterCurrent DEF ServerInv
<1>2. CASE SaveUnpended(t) /\ run'.state = mem[t].state
  <2>1. t # Creator
    BY <1>2, OperatorOnly DEF SaveUnpended, At
  <2> QED
    BY <1>2, <2>1, WriterCurrent DEF ServerInv
<1>3. CASE SaveState(t) /\ run'.state = mem[t].target
  <2>1. pc[t] = "save" /\ CanTransition(mem[t].state, mem[t].target)
    BY <1>3 DEF SaveState, At
  <2>2. mem[t].state = run.state
    BY <2>1, WriterCurrent DEF ServerInv
  <2> QED
    BY <1>3, <2>1, <2>2
<1>4. CASE pc[t] = "resume" /\ run'.state = "awaiting_approval"
  <2>1. t # Creator /\ mem[t].state = "awaiting_approval"
    BY <1>4, OperatorOnly DEF IInv, StateInv
  <2>2. mem[t].state = run.state
    BY <2>1, WriterCurrent DEF ServerInv
  <2> QED
    BY <1>4, <2>1, <2>2
<1> QED
  BY <1>1, <1>2, <1>3, <1>4, RunWrites

\* The run of a server that offers grant and deny moves along the transition
\* table: no late writer, repair, crash or expiry revives a finished run.
THEOREM RunFollowsTable == CallerTokens = {} => (Spec => RunMovesLegally)
<1> SUFFICES ASSUME CallerTokens = {} PROVE Spec => RunMovesLegally
  OBVIOUS
<1> DEFINE Legal ==
      run'.state # run.state => CanTransition(run.state, run'.state)
<1>1. IInv /\ ServerInv /\ [Next]_vars => [Legal]_vars
  <2> SUFFICES ASSUME IInv, ServerInv, Next, run'.state # run.state
               PROVE  CanTransition(run.state, run'.state)
    OBVIOUS
  <2>1. ASSUME NEW t \in Operators, NEW a \in Steps, Call(t, a)
        PROVE  CanTransition(run.state, run'.state)
    <3>1. run.state \in RequestStates
      BY <2>1, ServerCalls, CallFinds
    <3>2. PICK token, label : Accepted(t, a, token, label)
      BY <2>1, ServerCalls
    <3>3. run'.state = "awaiting_approval"
      BY <3>2 DEF Accepted, Awaiting
    <3> QED
      BY <3>1, <3>3 DEF RequestStates, CanTransition, Transitions
  <2>2. ASSUME NEW kind \in { "request", "grant" }, NEW a \in Steps,
               Lapse(kind, a)
        PROVE  run' = run
    BY <2>2 DEF Lapse, disk
  <2>3. Crash => run' = run
    BY DEF Crash, disk
  <2> QED
    BY <2>1, <2>2, <2>3, ProceedLegal DEF Next
<1>2. IInv /\ IInv' /\ ServerInv /\ [Next]_vars => ServerInv'
  BY NextServer
<1> QED
  BY <1>1, <1>2, InitServer, Invariant, PTL DEF Spec, RunMovesLegally

=============================================================================
