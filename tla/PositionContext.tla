-------------------------- MODULE PositionContext --------------------------
(***************************************************************************)
(* The part of PositionStateContext that decides something: the latest     *)
(* price, the price the profit and loss was computed from, the exit reason *)
(* and whether the exit was stamped.  entryPrice and amount never change   *)
(* after the constructor, so pnlPercent and pnlUsd are functions of one    *)
(* price, and "pnl" holds that price.  Timestamps are abstracted to        *)
(* Stamped.                                                                *)
(***************************************************************************)
CONSTANTS Prices,      \* prices that pass the validation of updatePrice()
          Reasons,     \* exit reasons that callers and rules supply
          Stamped,     \* a timestamp that was set
          Undefined    \* a field that was not set

ASSUME UndefinedAssumption == Undefined \notin Prices \cup Reasons \cup {Stamped}

Fields == {"price", "pnl", "exitReason", "exitTimestamp"}
Values == Prices \cup Reasons \cup {Stamped, Undefined}

(* Partial<PositionStateContext>: some fields with their new values. *)
Updates == UNION { [D -> Values] : D \in SUBSET Fields }
NoUpdates == [f \in {} |-> Undefined]

InitialContext == [f \in Fields |-> Undefined]

(* {...context, ...updates} *)
Spread(context, updates) ==
  [f \in Fields |-> IF f \in DOMAIN updates THEN updates[f] ELSE context[f]]

(* The update of updatePrice(): one price, and the PnL computed from it. *)
PriceUpdate(p) == [f \in {"price", "pnl"} |-> p]

(* contextUpdates of a caller that asks for an exit. *)
ReasonUpdate(r) == [f \in {"exitReason"} |-> r]

(***************************************************************************)
(* The writes of the two closing rules, from the context they are given:   *)
(* EXITING -> CLOSED recomputes the PnL from that context's price, if it   *)
(* has one; ERROR -> CLOSED keeps or defaults the reason.                  *)
(***************************************************************************)
ClosedPnl(seen) == [f \in {"pnl", "exitTimestamp"} |-> IF f = "pnl" THEN seen["price"] ELSE Stamped]
StampOnly == [f \in {"exitTimestamp"} |-> Stamped]
ForcedClose(seen, default) ==
  [f \in {"exitTimestamp", "exitReason"} |->
     IF f = "exitTimestamp" THEN Stamped
     ELSE IF seen["exitReason"] = Undefined THEN default ELSE seen["exitReason"]]
=============================================================================
