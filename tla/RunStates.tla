------------------------------ MODULE RunStates ------------------------------
(***************************************************************************)
(* The states of a run and the transitions between them, as in             *)
(* hca/runtime/state_machine.py and hca/common/enums.py.                   *)
(***************************************************************************)

States ==
  { "created", "initializing", "gathering_inputs", "proposing", "admitting",
    "broadcasting", "recurrent_update", "action_selection",
    "awaiting_approval", "executing", "observing", "memory_commit",
    "reporting", "completed", "failed", "halted" }

Terminal == { "completed", "failed", "halted" }

\* The pairs of _TRANSITIONS.
Transitions ==
  { <<"created", "initializing">>,
    <<"initializing", "gathering_inputs">>,
    <<"gathering_inputs", "proposing">>,
    <<"proposing", "admitting">>,
    <<"admitting", "broadcasting">>,
    <<"broadcasting", "recurrent_update">>,
    <<"recurrent_update", "action_selection">>,
    <<"action_selection", "awaiting_approval">>,
    <<"action_selection", "executing">>,
    <<"action_selection", "reporting">>,
    <<"action_selection", "proposing">>,
    <<"awaiting_approval", "executing">>,
    <<"awaiting_approval", "halted">>,
    <<"executing", "observing">>,
    <<"observing", "memory_commit">>,
    <<"memory_commit", "proposing">>,
    <<"memory_commit", "awaiting_approval">>,
    <<"memory_commit", "executing">>,
    <<"memory_commit", "reporting">>,
    <<"reporting", "completed">> }

\* can_transition: an active run may also fail or halt.
CanTransition(current, target) ==
  IF target \in { "failed", "halted" }
  THEN current \notin Terminal
  ELSE <<current, target>> \in Transitions

=============================================================================
