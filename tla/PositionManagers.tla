-------------------------- MODULE PositionManagers --------------------------
(***************************************************************************)
(* CompatibleAtomicPositionStateMachine over AtomicPosition, and the       *)
(* AtomicPositionManager of trading/ that drives it, for one position.     *)
(* The wrapper answers at once: it checks a transition, starts it in the   *)
(* background and shows a copy of the context that it refreshes when the   *)
(* machine's call is over.  A section of positionsMutex or                 *)
(* priceUpdateMutex holds no await that matters, so a call of the manager  *)
(* is one step; the background calls are the Callers of AtomicPosition.    *)
(***************************************************************************)
EXTENDS AtomicPosition

CONSTANTS MaxCalls  \* bound: calls of a behaviour
ASSUME MaxCallsAssumption == MaxCalls \in Nat

VARIABLES cached,    \* lastKnownContext
          due,       \* calls that are over and whose refresh is still to be asked for
          arriving,  \* contexts read for the cache whose callback has not run
          known,     \* the position's entry in the manager's map
          reported,  \* closePosition() has answered true
          calls      \* calls so far

wrapper == <<cached, due, arriving, known, reported, calls>>
managerVars == <<vars, wrapper>>

ManagerInit == /\ Init
               /\ cached = InitialContext /\ due = 0 /\ arriving = <<>>
               /\ known = "absent" /\ reported = FALSE /\ calls = 0
-----------------------------------------------------------------------------
(* The wrapper *)

Called == calls < MaxCalls /\ calls' = calls + 1

(* isActive(): not closed, not failed, not paused and not fresh. *)
Active == atomicState \in {"MONITORING", "EXIT_PENDING", "EXITING"}

(* transition() of the wrapper: what its two checks let pass ... *)
Accepts(trigger) == /\ CanTransition(AtomicRules, atomicState, trigger)
                    /\ ~(atomicState = "PAUSED" /\ trigger = "PAUSE_REQUESTED")

(* ... is started in the background, and its updates are shown at once. *)
StartTransition(c, trigger, updates) ==
  /\ Accepts(trigger)
  /\ CallTransition(c, trigger, updates)
  /\ cached' = Spread(cached, updates)

(* updatePrice() of the wrapper *)
StartPriceUpdate(c, p) == CallUpdatePrice(c, p) /\ cached' = Spread(cached, PriceUpdate(p))

(* updateCachedContext(): asks for a read that no caller waits for ... *)
Refreshes(request) == request = Request(Nobody, NoUpdates)
Refresh == /\ due > 0 /\ due' = due - 1
           /\ Ask(Nobody, NoUpdates)
           /\ UNCHANGED <<machine, context, transitionQueue, pc, locals,
                          cached, arriving, known, reported, calls>>

(* ... and replaces the cache when the callback runs. *)
CacheArrives == /\ arriving # <<>> /\ arriving' = Tail(arriving)
                /\ cached' = Head(arriving)
                /\ UNCHANGED <<vars, due, known, reported, calls>>

(* A transition that is taken is followed by a refresh, one that is refused is not. *)
TransitionEnds(c) ==
  /\ \/ TakeTransition(c) /\ due' = due + 1
     \/ RefuseTransition(c) /\ UNCHANGED due
  /\ UNCHANGED <<cached, arriving, known, reported, calls>>

(* The other steps of the machine; the end of an update is followed by a refresh. *)
Working(c) == /\ EnterTransition(c) \/ ReadAfterUpdate(c) \/ WritePrice(c)
              /\ UNCHANGED wrapper

(* A faulty variant: the callback of updatePrice() does not refresh. *)
ServeWithoutRefresh ==
  /\ ServeContext
  /\ arriving' = IF Refreshes(Head(contextQueue)) THEN Append(arriving, context) ELSE arriving
  /\ UNCHANGED <<cached, due, known, reported, calls>>

Serve ==
  /\ ServeContext
  /\ LET req == Head(contextQueue)
     IN /\ arriving' = IF Refreshes(req) THEN Append(arriving, context) ELSE arriving
        /\ due' = IF req.who \in Callers /\ pc[req.who] = "writing" THEN due + 1 ELSE due
  /\ UNCHANGED <<cached, known, reported, calls>>

(* forceState() of the wrapper refreshes without waiting. *)
ForceAndRefresh(s) ==
  /\ known = "present" /\ Called
  /\ atomicState' = s
  /\ stateHistory' = Lifecycle!Record(stateHistory, s, NoTrigger)
  /\ Ask(Nobody, NoUpdates)
  /\ UNCHANGED <<context, transitionQueue, pc, locals, cached, due, arriving, known, reported>>
-----------------------------------------------------------------------------
(* The manager *)

CreatePosition(c) ==
  /\ known = "absent" /\ known' = "present" /\ Called
  /\ StartTransition(c, "POSITION_OPENED", NoUpdates)
  /\ UNCHANGED <<due, arriving, reported>>

(* updatePricesAtomically() reaches the active positions of the token. *)
UpdatePrices(c, p) ==
  /\ known = "present" /\ Active /\ Called
  /\ StartPriceUpdate(c, p)
  /\ UNCHANGED <<due, arriving, known, reported>>

(***************************************************************************)
(* evaluateExitConditions() of an active position: shouldExitPosition()    *)
(* looks at the PnL and the age, which may always have come.               *)
(***************************************************************************)
EvaluateExitConditions(c, r) ==
  /\ known = "present" /\ Called
  /\ StartTransition(c, "EXIT_CONDITION_MET", ReasonUpdate(r))
  /\ UNCHANGED <<due, arriving, known, reported>>

(* A faulty variant: true as soon as the exit was initiated. *)
CloseInitiated(c, r) ==
  /\ known = "present" /\ Called
  /\ atomicState \in {"MONITORING", "PAUSED", "EXITING", "ERROR"}
  /\ \/ StartTransition(c, "MANUAL_EXIT_REQUESTED", ReasonUpdate(r))
     \/ StartTransition(c, "EXIT_COMPLETED", ReasonUpdate(r))
  /\ reported' = TRUE
  /\ UNCHANGED <<due, arriving, known>>

(***************************************************************************)
(* closePosition() makes one transition towards CLOSED: what it has        *)
(* started has not moved the state yet when it tries the next, which is    *)
(* then refused, and it answers false.  It answers true when it could      *)
(* start EXIT_COMPLETED, or found the position closed.                     *)
(***************************************************************************)
ClosePosition(c, r) ==
  /\ known = "present" /\ Called
  /\ \/ /\ atomicState \in {"MONITORING", "PAUSED"}
        /\ StartTransition(c, "MANUAL_EXIT_REQUESTED", ReasonUpdate(r))
        /\ UNCHANGED reported
     \/ /\ atomicState = "EXIT_PENDING"
        /\ StartTransition(c, "EXIT_APPROVED", NoUpdates)
        /\ UNCHANGED reported
     \/ /\ StartTransition(c, "EXIT_COMPLETED", ReasonUpdate(r))
        /\ reported' = TRUE
     \/ /\ atomicState = "CLOSED"
        /\ reported' = TRUE
        /\ UNCHANGED <<vars, cached>>
  /\ UNCHANGED <<due, arriving, known>>

(* cleanupClosedPositions() *)
Cleanup == /\ known = "present" /\ atomicState = "CLOSED" /\ known' = "cleaned"
           /\ UNCHANGED <<vars, cached, due, arriving, reported, calls>>

ManagerNext ==
  \/ \E c \in Callers :
       \/ CreatePosition(c)
       \/ \E p \in Prices : UpdatePrices(c, p)
       \/ \E r \in Reasons : EvaluateExitConditions(c, r) \/ ClosePosition(c, r)
       \/ TransitionEnds(c) \/ Working(c)
  \/ Serve \/ Refresh \/ CacheArrives
  \/ \E s \in ForcedStates : ForceAndRefresh(s)
  \/ Cleanup

ManagerSpec == ManagerInit /\ [][ManagerNext]_managerVars
-----------------------------------------------------------------------------
(* No call of the machine and no refresh is under way. *)
Quiet == /\ \A c \in Callers : pc[c] = "idle"
         /\ contextQueue = <<>> /\ due = 0 /\ arriving = <<>>

(***************************************************************************)
(* Whatever the callers were shown in between, when all is over the price  *)
(* and the PnL of the copy are the machine's: each write is followed by a  *)
(* read that is queued behind it.                                          *)
(***************************************************************************)
CacheCatchesUp ==
  Quiet => \A f \in Fields \ {"exitReason"} : cached[f] = context[f]

(***************************************************************************)
(* closePosition() answers true before the machine has moved, and yet the  *)
(* position ends CLOSED: nothing the manager can have started in the       *)
(* meantime takes it elsewhere.                                            *)
(***************************************************************************)
ReportedCloses == reported /\ Quiet => atomicState = "CLOSED"

(***************************************************************************)
(* "Update cached context immediately": the exit reason shown is that of   *)
(* the machine.  After a refusal that the check did not foresee it is not. *)
(***************************************************************************)
ReasonCatchesUp == Quiet => cached["exitReason"] = context["exitReason"]
=============================================================================
