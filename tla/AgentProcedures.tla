--------------------------- MODULE AgentProcedures ---------------------------
(***************************************************************************)
(* What memvid's agent memory learns of one workflow: its episodes, the    *)
(* procedure learned from them (agent_memory/procedure_store.rs), the      *)
(* consolidation that counts each outcome once (consolidation_engine.rs)   *)
(* and the retention that expires both (retention.rs, memory_decay.rs).    *)
(*                                                                         *)
(* ingest writes one thing at a time: the episode, a seeded procedure, the *)
(* learned one, the consolidation trace and the reconciled status; a crash *)
(* may fall between two of them.  Time is in days.  The search that looks  *)
(* up a trace is exact here; confidences and texts are left out, and so    *)
(* are episodes without an outcome, which count nowhere.                   *)
(***************************************************************************)
EXTENDS Integers, Sequences, FiniteSets

CONSTANTS Seeds,        \* counts and status that a procedure candidate may state
          Pauses,       \* days that may pass at once
          MaxEpisodes,  \* bound: episodes
          MaxFeedback,  \* bound: outcome feedbacks and seeds
          MaxDay        \* bound: days

ASSUME ProcedureAssumption ==
  /\ Pauses \subseteq Nat
  /\ \A s \in Seeds : s.succ \in Nat /\ s.fail \in Nat
                       /\ s.status \in {"active", "cooling_down", "retired"}

VARIABLES proc,      \* the procedure in force, or NoProc
          episodes,  \* the workflow's episodes: day and outcome
          expired,   \* what carries an expiry card, for good: episodes, and 0 for the procedure
          records,   \* fingerprints of the consolidation traces
          phase,     \* the next write of ingest, or idle
          stating,   \* the procedure candidate under way, or NoProc
          asides,    \* feedbacks and seeds so far
          credit,    \* outcomes that anyone reported, good and bad
          cut,       \* did a crash leave the last write unreconciled?
          now

procVars == <<proc, episodes, expired, records, phase, stating, asides, credit, cut, now>>

NoProc == [status |-> "none"]

(***************************************************************************)
(* Lifecycle of a procedure                                                *)
(***************************************************************************)

Judged(succ, fail) ==
  CASE succ + fail >= 5 /\ fail >= succ + 3 -> "retired"
    [] succ + fail >= 3 /\ fail > succ /\ ~(succ + fail >= 5 /\ fail >= succ + 3) -> "cooling_down"
    [] OTHER -> "active"
\* effective_procedure_status: a procedure that left the active status stays there.
Effective(p) == IF p.status = "active" THEN Judged(p.succ, p.fail) ELSE p.status

\* Mutant: the status of the record before is kept.
BuiltSticky(p, succ, fail) ==
  [succ |-> succ, fail |-> fail, used |-> now,
   status |-> IF p = NoProc THEN "active" ELSE p.status,
   recorded |-> IF p = NoProc THEN now ELSE p.recorded]
\* build_record judges the counts afresh, so an outcome may bring it back.
Built(p, succ, fail) ==
  [succ |-> succ, fail |-> fail, used |-> now, status |-> Judged(succ, fail),
   recorded |-> IF p = NoProc THEN now ELSE p.recorded]

\* The procedure that a candidate states, with its own counts and status.
SeededAs(p, s) ==
  [succ |-> s.succ, fail |-> s.fail, used |-> 0, status |-> s.status,
   recorded |-> IF p = NoProc THEN now ELSE p.recorded]

(***************************************************************************)
(* Consolidation                                                           *)
(***************************************************************************)

Window == 30
Repetitions == 2
\* The layer listing does not look at expiry cards, so neither does the count.
InWindow == {i \in DOMAIN episodes : episodes[i].day >= now - Window /\ episodes[i].good}
Newest == Len(episodes)
Fingerprint == IF episodes[Newest].good THEN <<"success", InWindow>> ELSE <<"failure", {Newest}>>
Duplicate == Fingerprint \in records

\* Mutant: what is learned first is one success more than was seen.
LearnedFromTwice == IF proc = NoProc THEN Built(proc, Cardinality(InWindow) + 1, 0)
                    ELSE Built(proc, proc.succ + 1, proc.fail)
\* upsert_success
Learned == IF proc = NoProc THEN Built(proc, Cardinality(InWindow), 0)
           ELSE Built(proc, proc.succ + 1, proc.fail)
\* record_failure: a failure alone teaches nothing.
Failed == Built(proc, proc.succ, proc.fail + 1)

(***************************************************************************)
(* Retention                                                               *)
(***************************************************************************)

EpisodeTtl == 30
ProcedureTtl(p) ==
  CASE Effective(p) = "active" -> IF p.succ > p.fail THEN 180 ELSE 90
    [] Effective(p) = "cooling_down" -> 45
    [] Effective(p) = "retired" -> 14
Anchor(p) == IF p.used > p.recorded THEN p.used ELSE p.recorded
ProcedureExpired(p) == Anchor(p) + ProcedureTtl(p) <= now

(***************************************************************************)
(* Actions                                                                 *)
(***************************************************************************)

ProcInit ==
  /\ proc = NoProc /\ episodes = <<>> /\ expired = {} /\ records = {} /\ phase = "idle"
  /\ stating = NoProc
  /\ asides = 0 /\ credit = [good |-> 0, bad |-> 0] /\ cut = FALSE /\ now = 1

Credited(good) == IF good THEN [credit EXCEPT !.good = @ + 1] ELSE [credit EXCEPT !.bad = @ + 1]

\* record_candidate: the episode of a candidate that names an outcome.
Episode(good) ==
  /\ phase = "idle" /\ Len(episodes) < MaxEpisodes
  /\ episodes' = Append(episodes, [day |-> now, good |-> good])

\* ingest of a memory of the workflow, up to the put of its episode.
Report(good) ==
  /\ Episode(good)
  /\ credit' = Credited(good)
  /\ phase' = "consolidate"
  /\ UNCHANGED <<expired, proc, records, stating, asides, cut, now>>

\* A candidate whose promotion is refused is kept as an episode, and nothing is
\* consolidated.
Evidence(good) ==
  /\ Episode(good)
  /\ credit' = Credited(good)
  /\ phase' = "reconcile"
  /\ UNCHANGED <<expired, proc, records, stating, asides, cut, now>>

\* Whatever is ingested, the statuses are reconciled at the end.
Unrelated ==
  /\ phase = "idle" /\ phase' = "reconcile"
  /\ UNCHANGED <<proc, episodes, expired, records, stating, asides, credit, cut, now>>

\* consolidate, up to the put of the procedure.
Learn ==
  /\ phase = "consolidate"
  /\ LET counts == ~Duplicate /\ IF episodes[Newest].good THEN Cardinality(InWindow) >= Repetitions
                                 ELSE proc # NoProc
     IN  IF counts
         THEN proc' = (IF episodes[Newest].good THEN Learned ELSE Failed) /\ phase' = "record"
         ELSE UNCHANGED proc /\ phase' = "reconcile"
  /\ UNCHANGED <<expired, episodes, records, stating, asides, credit, cut, now>>

\* persist_record
Record ==
  /\ phase = "record"
  /\ records' = records \cup {Fingerprint}
  /\ phase' = "reconcile"
  /\ UNCHANGED <<expired, proc, episodes, stating, asides, credit, cut, now>>

\* sync_all_effective_statuses
Reconcile ==
  /\ phase = "reconcile"
  /\ proc' = IF proc = NoProc \/ Effective(proc) = proc.status THEN proc
             ELSE [proc EXCEPT !.status = Effective(proc)]
  /\ phase' = "idle" /\ cut' = FALSE
  /\ UNCHANGED <<expired, episodes, records, stating, asides, credit, now>>

\* ingest of a procedure, which a system source may always state and another
\* one after repeated successes, up to the put of its episode.
Seed(s, outcome) ==
  /\ phase = "idle" /\ asides < MaxFeedback
  /\ IF outcome = "none" THEN UNCHANGED episodes ELSE Episode(outcome = "success")
  /\ stating' = [seed |-> s, named |-> outcome # "none"]
  /\ credit' = [good |-> credit.good + s.succ + (IF outcome = "success" THEN 1 ELSE 0),
                bad |-> credit.bad + s.fail + (IF outcome = "failure" THEN 1 ELSE 0)]
  /\ asides' = asides + 1
  /\ phase' = "seed"
  /\ UNCHANGED <<expired, proc, records, cut, now>>

\* save_memory of the stated procedure; its episode is consolidated like others.
SaveSeed ==
  /\ phase = "seed"
  /\ proc' = SeededAs(proc, stating.seed)
  /\ phase' = IF stating.named THEN "consolidate" ELSE "reconcile"
  /\ stating' = NoProc
  /\ UNCHANGED <<expired, episodes, records, asides, credit, cut, now>>

\* record_outcome_feedback reconciles nothing: build_record has judged already.
\* A version dated by a report before the one in force stays behind it.
Feedback(good, late) ==
  /\ phase = "idle" /\ asides < MaxFeedback /\ proc # NoProc
  /\ proc' = IF late THEN proc
             ELSE IF good THEN Built(proc, proc.succ + 1, proc.fail)
             ELSE Built(proc, proc.succ, proc.fail + 1)
  /\ asides' = asides + 1
  /\ credit' = Credited(good)
  /\ UNCHANGED <<expired, episodes, records, phase, stating, cut, now>>

\* run_maintenance: each due memory gets an expiry card, which only the search
\* looks at; the workflow's procedure is still the one that outcomes update.
Maintain ==
  /\ phase = "idle"
  /\ expired' = expired \cup {i \in DOMAIN episodes : episodes[i].day + EpisodeTtl <= now}
                         \cup IF proc # NoProc /\ ProcedureExpired(proc) THEN {0} ELSE {}
  /\ UNCHANGED <<proc, episodes, records, phase, stating, asides, credit, cut, now>>

ProcCrash == phase # "idle" /\ phase' = "idle" /\ cut' = TRUE /\ stating' = NoProc
             /\ UNCHANGED <<expired, proc, episodes, records, asides, credit, now>>

Pass(days) == phase = "idle" /\ now + days <= MaxDay /\ now' = now + days
              /\ UNCHANGED <<expired, proc, episodes, records, phase, stating, asides, credit, cut>>

ProcNext ==
  \/ \E good \in BOOLEAN : Report(good) \/ Evidence(good)
  \/ \E good, late \in BOOLEAN : Feedback(good, late)
  \/ Unrelated \/ SaveSeed \/ Learn \/ Record \/ Reconcile \/ Maintain \/ ProcCrash
  \/ \E s \in Seeds, outcome \in {"none", "success", "failure"} : Seed(s, outcome)
  \/ \E days \in Pauses : Pass(days)

ProcSpec == ProcInit /\ [][ProcNext]_procVars

(***************************************************************************)
(* Properties                                                              *)
(***************************************************************************)

\* No outcome is counted twice: whatever crashed, expired and was learned again,
\* the counts never exceed the outcomes that were reported.
NeverOvercounts == proc # NoProc => proc.succ <= credit.good /\ proc.fail <= credit.bad

\* At rest a procedure that is offered as active deserves it by its outcomes; a
\* crash puts that off only until the next ingest.  Another status that a seed
\* states is left alone until the next outcome.
NeverTooKind ==
  phase = "idle" /\ ~cut /\ proc # NoProc /\ proc.status = "active" =>
    Judged(proc.succ, proc.fail) = "active"

\* A procedure counts no more than the successes and failures that were
\* reported for it, and is active only while its counts allow it
\* (agent_memory/consolidation_engine.rs, procedure_store.rs).
CountsReported == NeverOvercounts /\ NeverTooKind

\* Every success of a workflow that has a procedure is counted for it.  It is not:
\* the window may hold too few (consolidation_engine.rs:93), or the same ones.
CountsSuccess ==
  phase = "consolidate" /\ phase' = "reconcile" /\ proc # NoProc => ~episodes[Newest].good
EverySuccessCounts == [][CountsSuccess]_procVars
=============================================================================
