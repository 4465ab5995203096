--------------------------- MODULE PositionRules ---------------------------
(***************************************************************************)
(* The states, triggers and rule table shared by the two position state    *)
(* machines of src/core/state-machines.  No rule of either machine has a   *)
(* guard, so a rule is a triple <<from, trigger, to>>.                     *)
(***************************************************************************)

States == {"CREATED", "MONITORING", "EXIT_PENDING", "EXITING",
           "CLOSED", "ERROR", "PAUSED"}

Triggers == {"POSITION_OPENED", "EXIT_CONDITION_MET", "MANUAL_EXIT_REQUESTED",
             "EXIT_APPROVED", "EXIT_REJECTED", "EXIT_COMPLETED", "EXIT_FAILED",
             "PAUSE_REQUESTED", "RESUME_REQUESTED", "ERROR_OCCURRED",
             "RECOVERY_COMPLETED"}

(***************************************************************************)
(* The rules of PositionStateMachine; the last set is its                  *)
(* Object.values(PositionState).filter(...).map(...).                      *)
(***************************************************************************)
BaseRules ==
  { <<"CREATED",      "POSITION_OPENED",       "MONITORING">>,
    <<"MONITORING",   "EXIT_CONDITION_MET",    "EXIT_PENDING">>,
    <<"MONITORING",   "MANUAL_EXIT_REQUESTED", "EXIT_PENDING">>,
    <<"MONITORING",   "PAUSE_REQUESTED",       "PAUSED">>,
    <<"EXIT_PENDING", "EXIT_APPROVED",         "EXITING">>,
    <<"EXIT_PENDING", "EXIT_REJECTED",         "MONITORING">>,
    <<"EXITING",      "EXIT_COMPLETED",        "CLOSED">>,
    <<"EXITING",      "EXIT_FAILED",           "ERROR">>,
    <<"PAUSED",       "RESUME_REQUESTED",      "MONITORING">>,
    <<"PAUSED",       "MANUAL_EXIT_REQUESTED", "EXIT_PENDING">>,
    <<"ERROR",        "RECOVERY_COMPLETED",    "MONITORING">>,
    <<"ERROR",        "EXIT_COMPLETED",        "CLOSED">> }
  \cup { <<s, "ERROR_OCCURRED", "ERROR">> : s \in States \ {"ERROR", "CLOSED"} }

(***************************************************************************)
(* AtomicPositionStateMachine adds three self-loops that swallow redundant *)
(* requests.                                                               *)
(***************************************************************************)
AtomicRules == BaseRules \cup
  { <<"EXIT_PENDING", "PAUSE_REQUESTED",       "EXIT_PENDING">>,
    <<"EXIT_PENDING", "MANUAL_EXIT_REQUESTED", "EXIT_PENDING">>,
    <<"PAUSED",       "PAUSE_REQUESTED",       "PAUSED">> }

(* transitionRules.find(from = s and trigger = t): the matching rules. *)
Applicable(rules, s, t) == { r \in rules : r[1] = s /\ r[2] = t }

(* canTransition(): some rule leaves s on t. *)
CanTransition(rules, s, t) == Applicable(rules, s, t) # {}
=============================================================================
