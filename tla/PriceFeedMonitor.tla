-------------------------- MODULE PriceFeedMonitor --------------------------
(***************************************************************************)
(* PriceFeedMonitor of monitoring/price-feed-monitor.ts: it is told of the *)
(* requests to each price service, has a breaker of its own for each, and  *)
(* looks at their health at intervals.  What it finds it alerts of, unless *)
(* it has said the same within five minutes.  Averages of the requests and *)
(* what the price feed says of its limits are inputs of a health check.    *)
(***************************************************************************)
EXTENDS Naturals

CONSTANTS
  MonitoredServices,  \* coingecko and birdeye
  OpensAt,            \* failureThreshold
  OpenTime,           \* timeoutMs, in ticks
  AlertWindow         \* the five minutes of addAlert(), in ticks

ASSUME MonitorAssumption ==
  OpensAt \in Nat \ {0} /\ OpenTime \in Nat \ {0} /\ AlertWindow \in 1..OpenTime

(* Alerts, by their message; a service has four of its own. *)
Alerts == {"opened", "recovered", "unavailable", "nearly exhausted",
           "low success rate", "high response time"}
OfHealth == Alerts \ {"opened", "recovered"}

VARIABLES
  healthInterval, \* monitoringInterval is set
  feedBreaker,    \* circuitBreakers: the state, failureCount up to its threshold, and
                  \* the ticks until nextAttemptTime
  saidSince,      \* ticks since the last alert of the message, AlertWindow if longer or never
  emitted         \* alerts emitted in the last step

monitorVars == <<healthInterval, feedBreaker, saidSince, emitted>>

Messages == Alerts \X MonitoredServices
ClosedFeed == [state |-> "closed", failureCount |-> 0, reopensIn |-> 0]

(* initializeCircuitBreakers() and startMonitoring(), which the constructor calls. *)
MonitorInit == /\ healthInterval = TRUE
               /\ feedBreaker = [s \in MonitoredServices |-> ClosedFeed]
               /\ saidSince = [m \in Messages |-> AlertWindow]
               /\ emitted = {}
-----------------------------------------------------------------------------
NewAlerts(alerts) == {m \in alerts : saidSince[m] >= AlertWindow}

(* addAlert() of each of the alerts. *)
AddAlerts(alerts) ==
  /\ emitted' = NewAlerts(alerts)
  /\ saidSince' = [m \in Messages |-> IF m \in NewAlerts(alerts) THEN 0 ELSE saidSince[m]]

MoreFailures(b) == IF b.failureCount < OpensAt THEN b.failureCount + 1 ELSE OpensAt
FewerFailures(b) == IF b.failureCount > 0 THEN b.failureCount - 1 ELSE 0

(* recordFailure(): only a closed breaker opens; a failure in half-open is counted. *)
OpensWith(b) == b.state = "closed" /\ MoreFailures(b) >= OpensAt
RecordFailure(s) ==
  LET b == feedBreaker[s] IN
  /\ feedBreaker' = [feedBreaker EXCEPT ![s] =
       IF OpensWith(b) THEN [state |-> "open", failureCount |-> OpensAt, reopensIn |-> OpenTime]
       ELSE [b EXCEPT !.failureCount = MoreFailures(b)]]
  /\ AddAlerts(IF OpensWith(b) THEN {<<"opened", s>>} ELSE {})
  /\ UNCHANGED healthInterval

(* resetCircuitBreaker(): a success closes a half-open breaker and takes a failure off a
   closed one. *)
RecordSuccess(s) ==
  LET b == feedBreaker[s] IN
  /\ feedBreaker' = [feedBreaker EXCEPT ![s] =
       CASE b.state = "half-open" -> ClosedFeed
         [] b.state = "closed"    -> [b EXCEPT !.failureCount = FewerFailures(b)]
         [] OTHER                 -> b]
  /\ AddAlerts(IF b.state = "half-open" THEN {<<"recovered", s>>} ELSE {})
  /\ UNCHANGED healthInterval

(* A faulty variant: the time is not looked at. *)
EarlyHalfOpen(s) ==
  /\ feedBreaker[s].state = "open"
  /\ feedBreaker' = [feedBreaker EXCEPT ![s].state = "half-open", ![s].reopensIn = 0]
  /\ emitted' = {} /\ UNCHANGED <<healthInterval, saidSince>>
(* isServiceAvailable() is asked once the time of an open breaker is over: it is half-open. *)
BecomesHalfOpen(s) ==
  /\ feedBreaker[s].state = "open" /\ feedBreaker[s].reopensIn = 0
  /\ feedBreaker' = [feedBreaker EXCEPT ![s].state = "half-open"]
  /\ emitted' = {} /\ UNCHANGED <<healthInterval, saidSince>>

(* performHealthCheck() and checkForAlerts(): a service whose breaker is open is shown as
   unavailable, and so is one the price feed has no requests left for. *)
PerformHealthCheck ==
  /\ healthInterval
  /\ \E found \in SUBSET {m \in Messages : m[1] \in OfHealth} :
       AddAlerts(found \cup {<<"unavailable", s>> : s \in
                               {t \in MonitoredServices : feedBreaker[t].state = "open"}})
  /\ UNCHANGED <<healthInterval, feedBreaker>>

StartHealthChecks == /\ ~healthInterval /\ healthInterval' = TRUE
                     /\ emitted' = {} /\ UNCHANGED <<feedBreaker, saidSince>>
StopHealthChecks == /\ healthInterval /\ healthInterval' = FALSE
                    /\ emitted' = {} /\ UNCHANGED <<feedBreaker, saidSince>>

(* shutdown() stops the checks and forgets the alerts; requests may still be recorded. *)
ShutdownMonitor ==
  /\ healthInterval' = FALSE /\ saidSince' = [m \in Messages |-> AlertWindow]
  /\ emitted' = {} /\ UNCHANGED feedBreaker

MonitorTick ==
  /\ feedBreaker' = [s \in MonitoredServices |->
       [feedBreaker[s] EXCEPT !.reopensIn = IF @ > 0 THEN @ - 1 ELSE 0]]
  /\ saidSince' = [m \in Messages |->
       IF saidSince[m] < AlertWindow THEN saidSince[m] + 1 ELSE AlertWindow]
  /\ emitted' = {} /\ UNCHANGED healthInterval

MonitorNext ==
  \/ \E s \in MonitoredServices : RecordFailure(s) \/ RecordSuccess(s) \/ BecomesHalfOpen(s)
  \/ PerformHealthCheck \/ StartHealthChecks \/ StopHealthChecks \/ ShutdownMonitor
  \/ MonitorTick

MonitorSpec == MonitorInit /\ [][MonitorNext]_monitorVars
-----------------------------------------------------------------------------
(* No outage and no recovery goes unsaid: although an alert that was given within five
   minutes is left out, every opening of a breaker and every closing is alerted in the same
   step, because a breaker stays open for as long as an alert is remembered
   (price-feed-monitor.ts, circuitBreakerConfig and addAlert). *)
EveryOutageIsAlerted ==
  [][\A s \in MonitoredServices :
       /\ feedBreaker[s].state # "open" /\ feedBreaker'[s].state = "open"
            => <<"opened", s>> \in emitted'
       /\ feedBreaker[s].state # "closed" /\ feedBreaker'[s].state = "closed"
            => <<"recovered", s>> \in emitted']_monitorVars
=============================================================================
