------------------------ MODULE PositionIntegration ------------------------
(***************************************************************************)
(* AtomicPositionManager of core/state-machines: one position, the machine *)
(* it keeps for it, the database row, and calls that overlap at their      *)
(* awaits.  A transition is the step in which the machine takes or refuses *)
(* it, which is what AtomicPosition implements.                            *)
(***************************************************************************)
EXTENDS PositionRules, Naturals

CONSTANTS Requesters  \* calls that may be under way at once

VARIABLES tracked,      \* the position has an entry in stateMachines
          machineState,
          row,          \* the position's status in the database, or "none"
          at,           \* where each call is
          closedTold,   \* positionUpdate CLOSED events
          decided       \* tradeDecision events for the exit

integrationVars == <<tracked, machineState, row, at, closedTold, decided>>

IntegrationInit == /\ tracked = FALSE /\ machineState = "CREATED" /\ row = "none"
                   /\ at = [c \in Requesters |-> "idle"]
                   /\ closedTold = 0 /\ decided = 0

Goto(c, label) == at' = [at EXCEPT ![c] = label]
CalledOnce(c, label) == tracked /\ at[c] = "idle" /\ Goto(c, label)

(* stateMachine.transition(): the state afterwards. *)
Moved(trigger) == IF CanTransition(AtomicRules, machineState, trigger)
                  THEN (CHOOSE r \in Applicable(AtomicRules, machineState, trigger) : TRUE)[3]
                  ELSE machineState
-----------------------------------------------------------------------------
(* createPosition(): the entry first, then the transition, then the row. *)
CreateEntry(c) == /\ ~tracked /\ row = "none" /\ \A d \in Requesters : at[d] = "idle"
                  /\ tracked' = TRUE /\ Goto(c, "opening")
                  /\ UNCHANGED <<machineState, row, closedTold, decided>>
Opened(c) == /\ at[c] = "opening" /\ Goto(c, "adding")
             /\ machineState' = Moved("POSITION_OPENED")
             /\ UNCHANGED <<tracked, row, closedTold, decided>>
AddRow(c) == /\ at[c] = "adding" /\ Goto(c, "idle")
             /\ row' = "OPEN" \/ UNCHANGED row \* the database may refuse it
             /\ UNCHANGED <<tracked, machineState, closedTold, decided>>

(* processAtomicExitRequest(): a decision for the exit that was taken. *)
ExitRequested(c) == CalledOnce(c, "requesting")
                    /\ UNCHANGED <<tracked, machineState, row, closedTold, decided>>
ExitTaken(c) ==
  /\ at[c] = "requesting" /\ Goto(c, "idle")
  /\ machineState' = Moved("EXIT_CONDITION_MET")
  /\ decided' = IF CanTransition(AtomicRules, machineState, "EXIT_CONDITION_MET")
                THEN decided + 1 ELSE decided
  /\ UNCHANGED <<tracked, row, closedTold>>

(* closePosition(): context and PnL are read before the row is closed ... *)
CloseCalled(c) == CalledOnce(c, "closing")
                  /\ UNCHANGED <<tracked, machineState, row, closedTold, decided>>

(* A faulty variant: the row is updated whatever its status. *)
CloseRowAnyway(c) ==
  /\ at[c] = "closing"
  /\ row # "none" /\ row' = "CLOSED" /\ Goto(c, "completing")
  /\ UNCHANGED <<tracked, machineState, closedTold, decided>>

(* ... which an UPDATE WHERE status = 'OPEN' does for one caller. *)
CloseRow(c) ==
  /\ at[c] = "closing"
  /\ \/ row = "OPEN" /\ row' = "CLOSED" /\ Goto(c, "completing")
     \/ row # "OPEN" /\ Goto(c, "idle") /\ UNCHANGED row
  /\ UNCHANGED <<tracked, machineState, closedTold, decided>>

(* The answer of EXIT_COMPLETED is not looked at. *)
Completed(c) == /\ at[c] = "completing" /\ Goto(c, "idle")
                /\ machineState' = Moved("EXIT_COMPLETED")
                /\ closedTold' = closedTold + 1 /\ tracked' = FALSE
                /\ UNCHANGED <<row, decided>>

(* shutdown() forgets the machines. *)
ManagerStops == /\ tracked /\ row # "none" /\ tracked' = FALSE
                /\ UNCHANGED <<machineState, row, at, closedTold, decided>>

IntegrationNext ==
  \/ \E c \in Requesters : \/ CreateEntry(c) \/ Opened(c) \/ AddRow(c)
                           \/ ExitRequested(c) \/ ExitTaken(c)
                           \/ CloseCalled(c) \/ CloseRow(c) \/ Completed(c)
  \/ ManagerStops

IntegrationSpec == IntegrationInit /\ [][IntegrationNext]_integrationVars
-----------------------------------------------------------------------------
(***************************************************************************)
(* However calls overlap, an exit is decided once, and the closing is told *)
(* once and only of a closed row, though two calls find the same machine.  *)
(***************************************************************************)
ToldOnce == decided <= 1 /\ closedTold <= 1 /\ (closedTold = 1 => row = "CLOSED")

(* "Atomic transition to closed state": what is told as closed is CLOSED. *)
MachineCloses == closedTold = 1 => machineState = "CLOSED"
=============================================================================
