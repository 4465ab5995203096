-------------------------- MODULE MCAtomicPosition --------------------------
(* AtomicPosition for TLC. *)
EXTENDS AtomicPosition

(* The triggers of a position's whole way to CLOSED, and the one rejected there. *)
LifeTriggers == {"POSITION_OPENED", "EXIT_CONDITION_MET", "EXIT_APPROVED", "EXIT_COMPLETED",
                 "ERROR_OCCURRED"}
=============================================================================
