-------------------------- MODULE ApprovalContract --------------------------
(***************************************************************************)
(* What the approval machinery of a run promises, without files, locks or  *)
(* threads: approvals are asked for one at a time, each is decided once,   *)
(* a grant can be spent once and only before it expires, and a spent grant *)
(* buys one invocation of the tool.                                        *)
(***************************************************************************)
EXTENDS Naturals

CONSTANT Approvals

VARIABLES
  phase,   \* "none", "pending", "granted", "denied" or "spent"
  expired, \* approvals whose grant may no longer be spent
  runs     \* invocations bought by each approval

Init ==
  /\ phase = [a \in Approvals |-> "none"]
  /\ expired = {}
  /\ runs = [a \in Approvals |-> 0]

Settled(a) == phase[a] = "none" \/ (phase[a] = "spent" /\ runs[a] = 1)

Move(a, from, to) ==
  /\ phase[a] = from
  /\ phase' = [phase EXCEPT ![a] = to]
  /\ UNCHANGED << expired, runs >>

Request(a) == Move(a, "none", "pending") /\ \A b \in Approvals : Settled(b)
Grant(a) == Move(a, "pending", "granted")
Deny(a) == Move(a, "pending", "denied")
Spend(a) == Move(a, "granted", "spent") /\ a \notin expired

Expire(a) ==
  /\ expired' = expired \cup { a }
  /\ UNCHANGED << phase, runs >>

Invoke(a) ==
  /\ phase[a] = "spent" /\ runs[a] = 0
  /\ runs' = [runs EXCEPT ![a] = 1]
  /\ UNCHANGED << phase, expired >>

Next ==
  \E a \in Approvals :
    Request(a) \/ Grant(a) \/ Deny(a) \/ Spend(a) \/ Expire(a) \/ Invoke(a)

Spec == Init /\ [][Next]_<< phase, expired, runs >>

=============================================================================
