--------------------------- MODULE CircuitBreaker ---------------------------
(***************************************************************************)
(* CircuitBreaker of core/circuit-breaker.ts with concurrent calls.        *)
(* execute() is synchronous up to the call of fn and again from the moment *)
(* fn settles, so a call is two steps, and nothing limits how many are in  *)
(* flight: a call may settle in another state than the one it began in.    *)
(*                                                                         *)
(* Clock readings are kept relative to now: "remaining" is                 *)
(* nextAttemptTime - now (0 once it has passed or is undefined), and       *)
(* "sinceChange" is now - stateChangeTime.  The counters are compared with *)
(* their thresholds only, so they are kept up to them.                     *)
(***************************************************************************)
EXTENDS Naturals, FiniteSets

CONSTANTS Calls,             \* identities of concurrent calls to execute()
          FailureThreshold,
          SuccessThreshold,
          Timeout,           \* in ticks
          MaxAge             \* bound of the clock readings

ASSUME ThresholdAssumption == FailureThreshold \in Nat \ {0} /\ SuccessThreshold \in Nat \ {0}
(* Clock readings are told apart up to the timeout at least. *)
ASSUME TimeAssumption == Timeout \in Nat \ {0} /\ MaxAge \in Nat /\ MaxAge >= Timeout

VARIABLES state, failureCount, successCount, remaining, sinceChange,
          inFlight,       \* calls whose fn has not settled
          \* What only the properties look at:
          openFor,        \* time since the circuit last became OPEN
          probes,         \* calls in flight that began in this HALF_OPEN period
          probeSuccesses  \* of those, how many have succeeded

counters == <<failureCount, successCount>>
history == <<openFor, probes, probeSuccesses>>
vars == <<state, counters, remaining, sinceChange, inFlight, history>>

(* A faulty variant: a count that goes on past its threshold. *)
BumpForever(n, cap) == n + 1

BreakerStates == {"CLOSED", "OPEN", "HALF_OPEN"}
Bump(n, cap) == IF n < cap THEN n + 1 ELSE n

Init == /\ state = "CLOSED"
        /\ failureCount = 0 /\ successCount = 0
        /\ remaining = 0 /\ sinceChange = 0
        /\ inFlight = {}
        /\ openFor = 0 /\ probes = {} /\ probeSuccesses = 0
-----------------------------------------------------------------------------
(* setState(), but for successCount, which the callers below give. *)
SetState(new) ==
  /\ state' = new
  /\ sinceChange' = 0
  /\ openFor' = IF state = "OPEN" /\ new = "OPEN" THEN openFor ELSE 0

StayInState == UNCHANGED <<state, sinceChange, openFor>>

(* reset(), with the change to CLOSED it always follows. *)
CloseAndReset ==
  /\ SetState("CLOSED")
  /\ failureCount' = 0 /\ successCount' = 0 /\ remaining' = 0

(* setState(OPEN) and scheduleNextAttempt(). *)
OpenAndSchedule ==
  /\ SetState("OPEN")
  /\ remaining' = Timeout

(* A faulty variant: every call that finds the circuit not closed starts a new probe period. *)
BeginResettingProbes(c) ==
  /\ c \notin inFlight
  /\ inFlight' = inFlight \cup {c}
  /\ \/ /\ state = "CLOSED"
        /\ StayInState
        /\ UNCHANGED <<successCount, probes, probeSuccesses>>
     \/ /\ state # "CLOSED" /\ remaining = 0
        /\ SetState("HALF_OPEN")
        /\ successCount' = 0
        /\ probes' = {c} /\ probeSuccesses' = 0
  /\ UNCHANGED <<failureCount, remaining>>

(* A faulty variant: a call that finds the circuit open begins a probe whatever the time. *)
BeginAtOnce(c) ==
  /\ c \notin inFlight
  /\ inFlight' = inFlight \cup {c}
  /\ \/ /\ state # "OPEN"
        /\ StayInState
        /\ probes' = IF state = "HALF_OPEN" THEN probes \cup {c} ELSE probes
        /\ UNCHANGED <<successCount, probeSuccesses>>
     \/ /\ state = "OPEN"
        /\ SetState("HALF_OPEN")
        /\ successCount' = 0
        /\ probes' = {c} /\ probeSuccesses' = 0
  /\ UNCHANGED <<failureCount, remaining>>

(***************************************************************************)
(* execute() up to the call of fn.  While OPEN it rejects the call, which  *)
(* changes nothing here, until nextAttemptTime; the first call after that  *)
(* moves to HALF_OPEN, which resets successCount.                          *)
(***************************************************************************)
Begin(c) ==
  /\ c \notin inFlight
  /\ inFlight' = inFlight \cup {c}
  /\ \/ /\ state # "OPEN"
        /\ StayInState
        /\ probes' = IF state = "HALF_OPEN" THEN probes \cup {c} ELSE probes
        /\ UNCHANGED <<successCount, probeSuccesses>>
     \/ /\ state = "OPEN" /\ remaining = 0
        /\ SetState("HALF_OPEN")
        /\ successCount' = 0
        /\ probes' = {c} /\ probeSuccesses' = 0
  /\ UNCHANGED <<failureCount, remaining>>

Settle(c) ==
  /\ c \in inFlight
  /\ inFlight' = inFlight \ {c}
  /\ probes' = probes \ {c}

(* A faulty variant: closing the circuit keeps the failures counted before. *)
SucceedKeepingFailures(c) ==
  /\ Settle(c)
  /\ probeSuccesses' = IF c \in probes THEN Bump(probeSuccesses, SuccessThreshold) ELSE probeSuccesses
  /\ \/ /\ state = "HALF_OPEN" /\ successCount + 1 >= SuccessThreshold
        /\ SetState("CLOSED")
        /\ successCount' = 0 /\ remaining' = 0
        /\ UNCHANGED failureCount
     \/ /\ ~(state = "HALF_OPEN" /\ successCount + 1 >= SuccessThreshold)
        /\ successCount' = Bump(successCount, SuccessThreshold)
        /\ failureCount' = IF state = "CLOSED" THEN 0 ELSE failureCount
        /\ StayInState
        /\ UNCHANGED remaining

(* onSuccess(), in whatever state the circuit is when fn resolves. *)
Succeed(c) ==
  /\ Settle(c)
  /\ probeSuccesses' = IF c \in probes THEN Bump(probeSuccesses, SuccessThreshold) ELSE probeSuccesses
  /\ \/ /\ state = "HALF_OPEN" /\ successCount + 1 >= SuccessThreshold
        /\ CloseAndReset
     \/ /\ ~(state = "HALF_OPEN" /\ successCount + 1 >= SuccessThreshold)
        /\ successCount' = Bump(successCount, SuccessThreshold)
        /\ failureCount' = IF state = "CLOSED" THEN 0 ELSE failureCount
        /\ StayInState
        /\ UNCHANGED remaining

(* A failure that opens the circuit: any in HALF_OPEN, the last of many in CLOSED. *)
Trips == \/ state = "HALF_OPEN"
         \/ state = "CLOSED" /\ failureCount + 1 >= FailureThreshold

(* onFailure(), in whatever state the circuit is when fn rejects. *)
Fail(c) ==
  /\ Settle(c)
  /\ failureCount' = Bump(failureCount, FailureThreshold)
  /\ \/ Trips /\ OpenAndSchedule
     \/ ~Trips /\ StayInState /\ UNCHANGED remaining
  /\ UNCHANGED <<successCount, probeSuccesses>>

ForceOpen == /\ OpenAndSchedule
             /\ UNCHANGED <<counters, inFlight, probes, probeSuccesses>>

ForceClosed == /\ CloseAndReset
               /\ UNCHANGED <<inFlight, probes, probeSuccesses>>

(* Time passes. *)
Tick == /\ remaining' = IF remaining > 0 THEN remaining - 1 ELSE 0
        /\ sinceChange' = Bump(sinceChange, MaxAge)
        /\ openFor' = IF state = "OPEN" THEN Bump(openFor, MaxAge) ELSE openFor
        /\ UNCHANGED <<state, counters, inFlight, probes, probeSuccesses>>

Next == \/ \E c \in Calls : Begin(c) \/ Succeed(c) \/ Fail(c)
        \/ ForceOpen
        \/ ForceClosed
        \/ Tick

Spec == Init /\ [][Next]_vars

(* Time passes, the monitor keeps calling on its interval, and calls settle. *)
FairSpec == /\ Spec
            /\ WF_vars(Tick)
            /\ \A c \in Calls : WF_vars(Begin(c)) /\ WF_vars(Succeed(c) \/ Fail(c))
-----------------------------------------------------------------------------
TypeOK == /\ state \in BreakerStates
          /\ failureCount \in 0..FailureThreshold
          /\ successCount \in 0..SuccessThreshold
          /\ remaining \in 0..Timeout
          /\ sinceChange \in 0..MaxAge
          /\ inFlight \subseteq Calls
          /\ openFor \in 0..MaxAge
          /\ probes \subseteq inFlight
          /\ probeSuccesses \in 0..SuccessThreshold

(***************************************************************************)
(* A closed circuit has failures left before it trips, and a half-open one *)
(* successes left before it closes: no late result, force or reset leaves  *)
(* a count at a threshold that the state it belongs to should have acted   *)
(* on, where one more result would be one too many.                        *)
(***************************************************************************)
ThresholdsActedOn ==
  /\ state = "CLOSED" => failureCount < FailureThreshold
  /\ state = "HALF_OPEN" => successCount < SuccessThreshold

(***************************************************************************)
(* Whatever opened the circuit last, a failure or a force, no call gets to *)
(* fn before a whole timeout has passed since then, and but for a force    *)
(* the circuit stays open as long; after it no call is rejected.  What     *)
(* nextAttemptTime allows and what stateChangeTime says agree, although    *)
(* results of calls begun before arrive while the circuit is open, and a   *)
(* failed probe opens it with the time of an earlier attempt still set.    *)
(***************************************************************************)
OpensForWholeTimeout ==
  [][ state = "OPEN" =>
        /\ ~(inFlight' \subseteq inFlight) => sinceChange >= Timeout
        /\ state' # "OPEN" => sinceChange >= Timeout \/ ForceClosed
        /\ sinceChange >= Timeout => remaining = 0
    ]_vars

(***************************************************************************)
(* The service has recovered and nobody forces the circuit any more: it    *)
(* closes for good, although calls of several periods overlap.             *)
(***************************************************************************)
Recovers ==
  <>[][ (\A c \in Calls : ~Fail(c)) /\ ~ForceOpen ]_vars => <>[](state = "CLOSED")

(***************************************************************************)
(* circuit-breaker.ts: HALF_OPEN is "Testing if service has recovered", so *)
(* the circuit should close only after SuccessThreshold calls of that test *)
(* succeeded (or by force).                                                *)
(***************************************************************************)
ClosedByProbes ==
  [][ state = "HALF_OPEN" /\ state' = "CLOSED"
        => ForceClosed \/ probeSuccesses' >= SuccessThreshold ]_vars

(***************************************************************************)
(* circuit-breaker.ts: "Track downtime when transitioning from open back   *)
(* to closed/half-open".  What is then added to downtimeTotal, now -       *)
(* stateChangeTime, should be the time the circuit was open.               *)
(***************************************************************************)
DowntimeTracked == [][ state = "OPEN" /\ state' # "OPEN" => sinceChange = openFor ]_vars
=============================================================================
