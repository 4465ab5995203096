--------------------------- MODULE ErrorRecovery ---------------------------
(***************************************************************************)
(* ErrorRecoveryWorkflowCoordinator and the ErrorHandler it owns.  The     *)
(* workflow listens to 'error' and captures what comes; the handler then   *)
(* emits 'error' itself, in the same call, once when the error is captured *)
(* and once when the workflow asks it to handle it.  So one error is       *)
(* captured again and again inside its own handling, until the stack has   *)
(* no room and the innermost handling fails: a whole cascade in one step.  *)
(***************************************************************************)
EXTENDS Naturals, FiniteSets, Sequences

CONSTANTS Errors,   \* captured errors
          Levels,   \* bound: nested captures the stack has room for; about a thousand
          MaxRetries \* maxRetries; 3 in the code

ASSUME LevelsAssumption == Levels \in Nat \ {0} /\ MaxRetries \in Nat \ {0}

(* What is emitted comes from the connection or from systemStatus ERROR. *)
Components == {"ConnectionManager", "SystemComponent"}

(* recoveryStrategies, with maxAttempts, and their largest, by component. *)
Strategies == [c \in Components |->
  IF c = "ConnectionManager"
  THEN <<[type |-> "RECONNECT", most |-> 5], [type |-> "FAILOVER", most |-> 3],
         [type |-> "RESTART", most |-> 2]>>
  ELSE <<[type |-> "RESTART_UNKNOWN", most |-> 3], [type |-> "SHUTDOWN", most |-> 1]>>]
MaxRecoveryAttempts == [c \in Components |-> IF c = "ConnectionManager" THEN 5 ELSE 3]

VARIABLES component, fixable, \* of each error; fixable is isRecoverable
          recoverable,        \* category.recoverable, of the event that brought it
          phase,              \* of its handling by the workflow
          activeErrors,       \* of the workflow
          errorRegistry,      \* of the handler
          attempts,           \* the handler's recoveryAttempts
          waiting,            \* attempts in their delay, by who made them
          scheduled,          \* timers of attempts to come
          strategy, tries,    \* of the workflow: which one runs, recoveryAttempts
          recoveryInProgress,
          failureTold         \* recoveryFailed was emitted

ofHandler == <<errorRegistry, attempts, waiting, scheduled>>
ofWorkflow == <<strategy, tries, recoveryInProgress, failureTold>>
errorVars == <<component, fixable, recoverable, phase, activeErrors, ofHandler, ofWorkflow>>

Phases == {"unraised", "handling", "handled", "recovering", "pausing", "over"}

ErrorInit ==
  /\ component = [e \in Errors |-> "SystemComponent"]
  /\ fixable = [e \in Errors |-> FALSE] /\ recoverable = [e \in Errors |-> FALSE]
  /\ phase = [e \in Errors |-> "unraised"]
  /\ activeErrors = {} /\ errorRegistry = {}
  /\ attempts = [e \in Errors |-> 0]
  /\ waiting = [e \in Errors |-> [routed |-> FALSE, direct |-> FALSE, later |-> 0]]
  /\ scheduled = [e \in Errors |-> 0]
  /\ strategy = [e \in Errors |-> 0] /\ tries = [e \in Errors |-> 0]
  /\ recoveryInProgress = FALSE /\ failureTold = {}
-----------------------------------------------------------------------------
(***************************************************************************)
(* handleError() of the workflow up to its await, with everything nested   *)
(* in it.  Two captures are nested in each that the stack has room for.    *)
(* Where it has none the handler gives up before it tries, and the         *)
(* workflow goes on at once; the others make an attempt for captureError() *)
(* and one for the workflow.  Only the first has the caller's category.    *)
(***************************************************************************)
Raise(first, inner, leaves, comp, fix, rec) ==
  LET raised == inner \cup leaves
      Both(e) == e \in inner /\ fix
  IN /\ first \in raised /\ inner \cap leaves = {}
     /\ Cardinality(leaves) = 2 ^ (Levels - 1)
     /\ Cardinality(inner) = Cardinality(leaves) - 1
     /\ Levels > 1 => first \in inner
     /\ \A e \in raised : phase[e] = "unraised"
     /\ component' = [e \in Errors |-> IF e \in raised THEN comp ELSE component[e]]
     /\ fixable' = [e \in Errors |-> IF e \in raised THEN fix ELSE fixable[e]]
     /\ recoverable' = [e \in Errors |-> IF e = first THEN rec
                                         ELSE IF e \in raised THEN fix ELSE recoverable[e]]
     /\ activeErrors' = activeErrors \cup raised
     /\ errorRegistry' = errorRegistry \cup raised
     /\ attempts' = [e \in Errors |-> IF e \in raised /\ Both(e) THEN 2 ELSE attempts[e]]
     /\ waiting' = [e \in Errors |->
                      IF e \in raised
                      THEN [routed |-> Both(e), direct |-> Both(e), later |-> 0]
                      ELSE waiting[e]]
     /\ phase' = [e \in Errors |-> IF e \notin raised THEN phase[e]
                                   ELSE IF Both(e) THEN "handling" ELSE "handled"]
     /\ UNCHANGED <<scheduled, ofWorkflow>>

(* performComponentRecovery(): what becomes of an attempt after its delay. *)
Repaired(e) == component[e] = "ConnectionManager"

(* attemptRecovery() of the handler, after its delay. *)
AttemptEnds(e) ==
  /\ errorRegistry' = IF Repaired(e) THEN errorRegistry \ {e} ELSE errorRegistry
  /\ scheduled' = IF ~Repaired(e) /\ attempts[e] < MaxRetries
                  THEN [scheduled EXCEPT ![e] = @ + 1] ELSE scheduled
  /\ UNCHANGED <<component, fixable, recoverable, attempts, ofWorkflow>>

RoutedEnds(e) == /\ waiting[e].routed /\ waiting' = [waiting EXCEPT ![e].routed = FALSE]
                 /\ AttemptEnds(e)
                 /\ UNCHANGED <<phase, activeErrors>>
LaterEnds(e) == /\ waiting[e].later > 0 /\ waiting' = [waiting EXCEPT ![e].later = @ - 1]
                /\ AttemptEnds(e)
                /\ UNCHANGED <<phase, activeErrors>>

(* The workflow waits for this one. *)
DirectEnds(e) ==
  /\ waiting[e].direct /\ waiting' = [waiting EXCEPT ![e].direct = FALSE]
  /\ AttemptEnds(e)
  /\ activeErrors' = IF Repaired(e) THEN activeErrors \ {e} ELSE activeErrors
  /\ phase' = [phase EXCEPT ![e] = IF Repaired(e) THEN "over" ELSE "handled"]

(* The timer of a further attempt, which does not look at the number made. *)
ScheduledStarts(e) ==
  /\ scheduled[e] > 0 /\ scheduled' = [scheduled EXCEPT ![e] = @ - 1]
  /\ attempts' = [attempts EXCEPT ![e] = @ + 1]
  /\ waiting' = [waiting EXCEPT ![e].later = @ + 1]
  /\ UNCHANGED <<component, fixable, recoverable, phase, activeErrors, errorRegistry, ofWorkflow>>
-----------------------------------------------------------------------------
(* The strategies after the i-th that n tries have not used up. *)
Left(e, i, n) == { j \in DOMAIN Strategies[component[e]] :
                     j > i /\ n < Strategies[component[e]][j].most }
First(js) == CHOOSE j \in js : \A k \in js : j <= k

(* A faulty variant: an error goes on to recovery while another is recovered from. *)
AttemptAnyway(e) ==
  /\ phase[e] = "handled"
  /\ recoverable[e]
  /\ phase' = [phase EXCEPT ![e] = "recovering"]
  /\ strategy' = [strategy EXCEPT ![e] = First(Left(e, 0, 0))]
  /\ recoveryInProgress' = TRUE
  /\ UNCHANGED <<component, fixable, recoverable, activeErrors, ofHandler, tries, failureTold>>

(* attemptRecovery() of the workflow begins with the first strategy. *)
AttemptRecovery(e) ==
  /\ phase[e] = "handled"
  /\ recoverable[e] /\ ~recoveryInProgress
  /\ phase' = [phase EXCEPT ![e] = "recovering"]
  /\ strategy' = [strategy EXCEPT ![e] = First(Left(e, 0, 0))]
  /\ recoveryInProgress' = TRUE
  /\ UNCHANGED <<component, fixable, recoverable, activeErrors, ofHandler, tries, failureTold>>

(* "Recovery already in progress, queuing error": the error is dropped. *)
Dropped(e) ==
  /\ phase[e] = "handled"
  /\ ~recoverable[e] \/ recoveryInProgress
  /\ phase' = [phase EXCEPT ![e] = "over"]
  /\ UNCHANGED <<component, fixable, recoverable, activeErrors, ofHandler, ofWorkflow>>

(* executeRecoveryAction(): what it can answer. *)
Outcomes(type) == CASE type = "SHUTDOWN" -> {TRUE}
                    [] type = "RESTART_UNKNOWN" -> {FALSE}
                    [] OTHER -> {TRUE, FALSE}

(* The end of the loop, and the finally. *)
RecoveryEnds(e, n) ==
  /\ phase' = [phase EXCEPT ![e] = "over"]
  /\ recoveryInProgress' = FALSE
  /\ failureTold' = IF n >= MaxRecoveryAttempts[component[e]]
                    THEN failureTold \cup {e} ELSE failureTold

ActionEnds(e) ==
  /\ phase[e] = "recovering"
  /\ tries' = [tries EXCEPT ![e] = @ + 1]
  /\ \E success \in Outcomes(Strategies[component[e]][strategy[e]].type) :
       IF success
       THEN activeErrors' = activeErrors \ {e} /\ RecoveryEnds(e, tries[e] + 1)
       ELSE /\ phase' = [phase EXCEPT ![e] = "pausing"]
            /\ UNCHANGED <<activeErrors, recoveryInProgress, failureTold>>
  /\ UNCHANGED <<component, fixable, recoverable, ofHandler, strategy>>

(* After the strategy's delay: the next one that the tries leave, if any. *)
PauseEnds(e) ==
  /\ phase[e] = "pausing"
  /\ LET left == Left(e, strategy[e], tries[e])
     IN IF left # {}
        THEN /\ phase' = [phase EXCEPT ![e] = "recovering"]
             /\ strategy' = [strategy EXCEPT ![e] = First(left)]
             /\ UNCHANGED <<recoveryInProgress, failureTold>>
        ELSE RecoveryEnds(e, tries[e]) /\ UNCHANGED strategy
  /\ UNCHANGED <<component, fixable, recoverable, activeErrors, ofHandler, tries>>

ErrorNext ==
  \/ \E inner, leaves \in SUBSET Errors, comp \in Components, fix, rec \in BOOLEAN :
       \E first \in inner \cup leaves : Raise(first, inner, leaves, comp, fix, rec)
  \/ \E e \in Errors : \/ RoutedEnds(e) \/ LaterEnds(e) \/ DirectEnds(e) \/ ScheduledStarts(e)
                       \/ AttemptRecovery(e) \/ Dropped(e) \/ ActionEnds(e) \/ PauseEnds(e)

ErrorSpec == ErrorInit /\ [][ErrorNext]_errorVars
-----------------------------------------------------------------------------
(***************************************************************************)
(* One recovery at a time, and the flag says so, over all the awaits of    *)
(* the strategies and whichever way they end.                              *)
(***************************************************************************)
RecoveryIsExclusive ==
  Cardinality({ e \in Errors : phase[e] \in {"recovering", "pausing"} })
    = IF recoveryInProgress THEN 1 ELSE 0

(* "If all recovery attempts failed" the failure is told, or the error is recovered from. *)
FailureIsTold ==
  \A e \in Errors : phase[e] = "over" /\ tries[e] > 0 => e \notin activeErrors \/ e \in failureTold

(* "Attempting recovery n/maxRetries": no more than maxRetries are made. *)
AttemptsBounded == \A e \in Errors : attempts[e] <= MaxRetries

(* An error that is raised once is captured once. *)
CapturedOnce == Cardinality(errorRegistry) <= 1
=============================================================================
