--------------------------- MODULE MCConcurrency ---------------------------
(***************************************************************************)
(* Four components of the position tracking for TLC.  They share nothing,  *)
(* so a behaviour is one of a single component, chosen at the start, and   *)
(* the others stay as they were: their states are added, not multiplied.   *)
(***************************************************************************)
EXTENDS PositionManagers, PositionIndex, PositionIntegration, LockFreeQueue

VARIABLE part

Parts == {"managers", "index", "integration", "queue"}
partVars == <<part, managerVars, indexVars, integrationVars, queueVars>>

PartInit == part \in Parts /\ ManagerInit /\ IndexInit /\ IntegrationInit /\ QueueInit
PartNext ==
  /\ UNCHANGED part
  /\ \/ /\ part = "managers" /\ ManagerNext /\ UNCHANGED <<indexVars, integrationVars, queueVars>>
     \/ /\ part = "index" /\ IndexNext /\ UNCHANGED <<managerVars, integrationVars, queueVars>>
     \/ /\ part = "integration" /\ IntegrationNext
        /\ UNCHANGED <<managerVars, indexVars, queueVars>>
     \/ /\ part = "queue" /\ QueueNext /\ UNCHANGED <<managerVars, indexVars, integrationVars>>
PartSpec == PartInit /\ [][PartNext]_partVars
=============================================================================
