---------------------- MODULE BlockchainWatcher_proofs ----------------------
(***************************************************************************)
(* Proofs about BlockchainWatcher and the ConnectionManager under it, for  *)
(* any number of calls in flight and any number of retries.                *)
(***************************************************************************)
EXTENDS BlockchainWatcher, TLAPS

(* Every step of the composition is one of the manager, or leaves it alone. *)
LEMMA StepOfManager ==
  ASSUME [Next]_vars
  PROVE  [ConnectionNext]_connectionVars
<1>1. CASE (Lost \/ Established \/ Replaced \/ Unheard) /\ UNCHANGED recovered
  BY <1>1 DEF Lost, Established, Replaced, Unheard, ConnectionNext, Own
<1>2. CASE Recovery
  BY <1>2 DEF Recovery, ConnectionNext
<1>3. CASE WatchTimerFires \/ Start \/ StopBegins \/ StopEnds \/ StopDoesNothing \/ Pause \/ Resume
  BY <1>3 DEF WatchTimerFires, Start, StopBegins, StopEnds, StopDoesNothing, Pause, Resume
<1>4. CASE UNCHANGED vars
  BY <1>4 DEF vars
<1> QED
  BY <1>1, <1>2, <1>3, <1>4 DEF Next

(* A retry is only waited for while there is budget for it. *)
Budgeted == ConnectionTypeOK /\ (retryTimer => attempts < MaxRetries)

LEMMA InitBudgeted ==
  ASSUME ConnectionInit
  PROVE  Budgeted
<1>1. attempts \in 0..MaxRetries
  BY RetriesAssumption DEF ConnectionInit
<1>2. call \in [Calls -> Kinds \cup {"none"}]
  BY DEF ConnectionInit
<1> QED
  BY <1>1, <1>2 DEF ConnectionInit, Budgeted, ConnectionTypeOK

LEMMA CallTyped ==
  ASSUME NEW c \in Calls, NEW k \in Kinds \cup {"none"},
         call \in [Calls -> Kinds \cup {"none"}],
         call' = [call EXCEPT ![c] = k]
  PROVE  call' \in [Calls -> Kinds \cup {"none"}]
  OBVIOUS

(* No step of the manager, alone or in a composition, takes more retries than it has. *)
LEMMA BudgetStep ==
  ASSUME Budgeted, [ConnectionNext]_connectionVars
  PROVE  Budgeted'
<1> USE RetriesAssumption DEF Budgeted, ConnectionTypeOK, Begins, Settles, Kinds
<1>1. ASSUME NEW c \in Calls, Initialize(c), UNCHANGED recovered PROVE Budgeted'
  BY <1>1, CallTyped DEF Initialize, Connect
<1>2. ASSUME NEW c \in Calls, InitSucceeds(c), UNCHANGED recovered PROVE Budgeted'
  BY <1>2, CallTyped DEF InitSucceeds, Connected
<1>3. ASSUME NEW c \in Calls, CallFails(c), UNCHANGED recovered PROVE Budgeted'
  BY <1>3, CallTyped DEF CallFails
<1>4. ASSUME NEW c \in Calls, HealthBegins(c), UNCHANGED recovered PROVE Budgeted'
  BY <1>4, CallTyped DEF HealthBegins
<1>5. ASSUME NEW c \in Calls, HealthPasses(c), UNCHANGED recovered PROVE Budgeted'
  BY <1>5, CallTyped DEF HealthPasses
<1>6. ASSUME NEW c \in Calls, HealthDrops(c), UNCHANGED recovered PROVE Budgeted'
  BY <1>6, CallTyped DEF HealthDrops, ScheduleReconnection
<1>7. ASSUME NEW c \in Calls, RetryFires(c), UNCHANGED recovered PROVE Budgeted'
  <2>1. attempts' \in 0..MaxRetries
    BY <1>7 DEF RetryFires
  <2> QED
    BY <1>7, <2>1, CallTyped DEF RetryFires, Connect
<1>8. ASSUME NEW c \in Calls, RetryFails(c), UNCHANGED recovered PROVE Budgeted'
  BY <1>8, CallTyped DEF RetryFails, ScheduleReconnection
<1>9. ASSUME NEW c \in Calls, Reconnected(c), UNCHANGED recovered PROVE Budgeted'
  BY <1>9, CallTyped DEF Reconnected, Connected
<1>10. ASSUME NEW c \in Calls, Reconnect(c) PROVE Budgeted'
  <2>1. attempts' \in 0..MaxRetries
    BY <1>10 DEF Reconnect
  <2> QED
    BY <1>10, <2>1, CallTyped DEF Reconnect, Connect
<1>11. ASSUME NEW c \in Calls, Restart(c) PROVE Budgeted'
  BY <1>11, CallTyped DEF Restart, Connect
<1>12. CASE Shutdown /\ UNCHANGED recovered
  BY <1>12 DEF Shutdown
<1>13. CASE UNCHANGED connectionVars
  BY <1>13 DEF connectionVars
<1> QED
  BY <1>1, <1>2, <1>3, <1>4, <1>5, <1>6, <1>7, <1>8, <1>9, <1>10, <1>11, <1>12, <1>13
  DEF ConnectionNext, Own

(***************************************************************************)
(* The manager's state is well typed; in particular it never makes more    *)
(* attempts to reconnect than its policy allows.                           *)
(***************************************************************************)
THEOREM ConnectionTyping == Spec => []ConnectionTypeOK
<1>1. Init => Budgeted
  BY InitBudgeted DEF Init
<1>2. Budgeted /\ [Next]_vars => Budgeted'
  BY StepOfManager, BudgetStep
<1>3. Budgeted => ConnectionTypeOK
  BY DEF Budgeted
<1> QED
  BY <1>1, <1>2, <1>3, PTL DEF Spec
-----------------------------------------------------------------------------
(***************************************************************************)
(* UsableIsChecked needs to know how the life of the manager goes: what    *)
(* shutdown() leaves, that initialize() runs once, and that nothing but it *)
(* runs before it has succeeded.                                           *)
(***************************************************************************)
AfterShutdown ==
  /\ shuttingDown => ~connection /\ ~retryTimer /\ ~healthChecking
  /\ healthChecking => connection
OneInit ==
  /\ \A c, d \in Calls : call[c] = "init" /\ call[d] = "init" => c = d
  /\ (Initialized \/ ~connection) => \A c \in Calls : call[c] # "init"
BeforeInit ==
  ~Initialized => /\ ~connected /\ ~retryTimer
                  /\ \A c \in Calls : call[c] \in {"init", "none"}
Life == AfterShutdown /\ OneInit /\ BeforeInit

LEMMA LifeStep ==
  ASSUME ConnectionTypeOK, Life, [ConnectionNext]_connectionVars, ~recovered'
  PROVE  Life'
<1> USE DEF Life, ConnectionTypeOK, AfterShutdown, OneInit, BeforeInit, Initialized,
            Begins, Settles, Kinds
<1>1. ASSUME NEW c \in Calls, Initialize(c) PROVE Life'
  <2>2. \A d \in Calls : call[d] # "init"
    BY <1>1 DEF Initialize
  <2>3. \A d \in Calls : call'[d] = IF d = c THEN "init" ELSE call[d]
    BY <1>1 DEF Initialize, Connect
  <2>4. OneInit'
    <3>1. ~Initialized' /\ connection'
      BY <1>1 DEF Initialize, Connect
    <3>2. \A d, e \in Calls : call'[d] = "init" /\ call'[e] = "init" => d = e
      BY <2>2, <2>3
    <3> QED
      BY <3>1, <3>2
  <2>5. AfterShutdown' /\ BeforeInit'
    BY <1>1, <2>2, <2>3 DEF Initialize, Connect
  <2> QED
    BY <2>4, <2>5
<1>2. ASSUME NEW c \in Calls, InitSucceeds(c) PROVE Life'
  BY <1>2 DEF InitSucceeds, Connected
<1>3. ASSUME NEW c \in Calls, CallFails(c) PROVE Life'
  BY <1>3 DEF CallFails
<1>4. ASSUME NEW c \in Calls, HealthBegins(c) PROVE Life'
  BY <1>4 DEF HealthBegins
<1>5. ASSUME NEW c \in Calls, HealthPasses(c) PROVE Life'
  BY <1>5 DEF HealthPasses
<1>6. ASSUME NEW c \in Calls, HealthDrops(c) PROVE Life'
  BY <1>6 DEF HealthDrops, ScheduleReconnection
<1>7. ASSUME NEW c \in Calls, RetryFires(c) PROVE Life'
  BY <1>7 DEF RetryFires, Connect
<1>8. ASSUME NEW c \in Calls, RetryFails(c) PROVE Life'
  BY <1>8 DEF RetryFails, ScheduleReconnection
<1>9. ASSUME NEW c \in Calls, Reconnected(c) PROVE Life'
  BY <1>9 DEF Reconnected, Connected
<1>10. CASE Shutdown
  BY <1>10 DEF Shutdown
<1>11. CASE UNCHANGED connectionVars
  BY <1>11 DEF connectionVars
<1> QED
  BY <1>1, <1>2, <1>3, <1>4, <1>5, <1>6, <1>7, <1>8, <1>9, <1>10, <1>11
  DEF ConnectionNext, Own, Reconnect, Restart

(***************************************************************************)
(* As long as error recovery has left the manager alone, a connection that *)
(* getConnection() hands out is under a running health check, for any      *)
(* number of overlapping checks and retries.                               *)
(***************************************************************************)
THEOREM AlwaysChecked == Spec => []UsableIsChecked
<1> DEFINE Inv == Budgeted /\ (~recovered => Life)
<1>1. Init => Inv
  <2> SUFFICES ASSUME ConnectionInit PROVE Budgeted /\ Life
    BY DEF Init
  <2>1. Budgeted
    BY InitBudgeted
  <2>2. \A c \in Calls : call[c] = "none"
    BY DEF ConnectionInit
  <2>3. OneInit
    BY <2>2 DEF OneInit
  <2>4. AfterShutdown /\ BeforeInit
    BY <2>2 DEF ConnectionInit, AfterShutdown, BeforeInit
  <2> QED
    BY <2>1, <2>3, <2>4 DEF Life
<1>2. Inv /\ [Next]_vars => Inv'
  <2> SUFFICES ASSUME Inv, [Next]_vars PROVE Inv'
    OBVIOUS
  <2>1. [ConnectionNext]_connectionVars
    BY StepOfManager
  <2>2. Budgeted'
    BY <2>1, BudgetStep
  <2>3. ~recovered' => ~recovered
    BY <2>1 DEF ConnectionNext, connectionVars, Reconnect, Restart
  <2> QED
    BY <2>1, <2>2, <2>3, LifeStep DEF Budgeted
<1>3. Inv => UsableIsChecked
  BY DEF Life, AfterShutdown, BeforeInit, Initialized, UsableIsChecked, Usable
<1> QED
  BY <1>1, <1>2, <1>3, PTL DEF Spec
-----------------------------------------------------------------------------
(* The part of the watcher's state that LostHasTimer is about. *)
RecordedTyped ==
  /\ recorded \in [Places -> 0..MaxLive]
  /\ isActive \in BOOLEAN /\ watchTimer \in BOOLEAN /\ stopping \in BOOLEAN

LEMMA UptoTyped ==
  ASSUME NEW n \in Nat
  PROVE  Upto(n) \in 0..MaxLive /\ (n > 0 => Upto(n) > 0)
  BY LiveAssumption DEF Upto

LEMMA SubscribeRecords ==
  ASSUME RecordedTyped, Subscribe
  PROVE  recorded' \in [Places -> 0..MaxLive] /\ Subscribed' /\ isActive'
<1>1. recorded["current"] \in 0..MaxLive /\ recorded["old"] \in 0..MaxLive
  BY DEF RecordedTyped, Places
<1>2. Upto(recorded["current"] + 1) \in 0..MaxLive /\ Upto(recorded["current"] + 1) > 0
  BY <1>1, LiveAssumption, UptoTyped
<1>3. recorded' = [recorded EXCEPT !["current"] = Upto(recorded["current"] + 1)]
  BY DEF Subscribe
<1>4. recorded' \in [Places -> 0..MaxLive]
  BY <1>2, <1>3 DEF RecordedTyped
<1>5. recorded'["current"] = Upto(recorded["current"] + 1) /\ recorded'["old"] = recorded["old"]
  BY <1>3 DEF RecordedTyped, Places
<1>6. Subscribed'
  BY <1>1, <1>2, <1>5, LiveAssumption DEF Subscribed, Total
<1> QED
  BY <1>4, <1>6 DEF Subscribe

LEMMA MovedRecords ==
  ASSUME RecordedTyped, recorded' = Moved(recorded)
  PROVE  recorded' \in [Places -> 0..MaxLive] /\ (Subscribed => Subscribed')
<1>1. recorded["current"] \in Nat /\ recorded["old"] \in Nat
  BY LiveAssumption DEF RecordedTyped, Places
<1>2. Total(recorded) \in Nat
  BY <1>1 DEF Total
<1>3. /\ Upto(Total(recorded)) \in 0..MaxLive
      /\ Subscribed => Upto(Total(recorded)) > 0
  BY <1>2, UptoTyped DEF Subscribed
<1>4. recorded' = [current |-> 0, old |-> Upto(Total(recorded))]
  BY DEF Moved
<1>5. recorded'["current"] = 0 /\ recorded'["old"] = Upto(Total(recorded))
  BY <1>4
<1>6. DOMAIN recorded' = Places
  BY <1>4 DEF Places
<1>7. recorded' = [p \in Places |-> recorded'[p]]
  BY <1>4, <1>6
<1>8. recorded' \in [Places -> 0..MaxLive]
  BY <1>3, <1>5, <1>7, LiveAssumption DEF Places
<1>9. Subscribed => Subscribed'
  BY <1>3, <1>5, LiveAssumption DEF Subscribed, Total
<1> QED
  BY <1>8, <1>9

(* handleConnectionRestored() leaves the watcher subscribed or with a timer. *)
LEMMA RestoredHasTimer ==
  ASSUME NEW pending \in BOOLEAN, RecordedTyped, ConnectionRestored(pending),
         stopping' = stopping
  PROVE  RecordedTyped' /\ LostHasTimer'
<1>1. CASE stopping /\ watchTimer' = pending /\ UNCHANGED <<isActive, recorded, live>>
  BY <1>1 DEF RecordedTyped, LostHasTimer
<1>2. CASE ~stopping /\ Subscribed /\ watchTimer' = FALSE /\ UNCHANGED <<isActive, recorded, live>>
  BY <1>2 DEF RecordedTyped, LostHasTimer, Subscribed
<1>3. CASE ~stopping /\ Subscribe /\ watchTimer' = FALSE
  BY <1>3, SubscribeRecords DEF RecordedTyped, LostHasTimer, Subscribe
<1>4. CASE ~stopping /\ watchTimer' = TRUE /\ UNCHANGED <<isActive, recorded, live>>
  BY <1>4 DEF RecordedTyped, LostHasTimer
<1> QED
  BY <1>1, <1>2, <1>3, <1>4 DEF ConnectionRestored

LEMMA WatcherStep ==
  ASSUME RecordedTyped, LostHasTimer, [Next]_vars
  PROVE  RecordedTyped' /\ LostHasTimer'
<1> DEFINE Good == RecordedTyped /\ LostHasTimer
<1>1. ASSUME Lost PROVE Good'
  <2>1. ConnectionLost
    BY <1>1 DEF Lost
  <2>2. recorded' \in [Places -> 0..MaxLive]
    BY <2>1, LiveAssumption DEF ConnectionLost, NoSubscriptions
  <2> QED
    BY <2>1, <2>2 DEF ConnectionLost, RecordedTyped, LostHasTimer
<1>2. ASSUME Established PROVE Good'
  <2>1. CASE UNCHANGED watcherVars
    BY <2>1 DEF watcherVars, RecordedTyped, LostHasTimer, Subscribed
  <2>2. CASE ConnectionRestored(watchTimer) /\ stopping' = stopping
    BY <2>2, RestoredHasTimer DEF RecordedTyped
  <2> QED
    BY <1>2, <2>1, <2>2 DEF Established
<1>3. ASSUME ObjectReplaced PROVE Good'
  BY <1>3, MovedRecords DEF ObjectReplaced, RecordedTyped, LostHasTimer
<1>4. ASSUME UNCHANGED watcherVars PROVE Good'
  BY <1>4 DEF watcherVars, RecordedTyped, LostHasTimer, Subscribed
<1>5. ASSUME WatchTimerFires PROVE Good'
  <2>1. CASE connected /\ ConnectionRestored(FALSE)
    BY <1>5, <2>1, RestoredHasTimer DEF WatchTimerFires
  <2>2. CASE watchTimer' = ~stopping /\ UNCHANGED <<isActive, recorded, live>>
    BY <1>5, <2>2 DEF WatchTimerFires, RecordedTyped, LostHasTimer
  <2> QED
    BY <1>5, <2>1, <2>2 DEF WatchTimerFires
<1>6. ASSUME Start PROVE Good'
  BY <1>6, SubscribeRecords DEF Start, Subscribe, RecordedTyped, LostHasTimer
<1>7. ASSUME StopBegins PROVE Good'
  BY <1>7 DEF StopBegins, RecordedTyped, LostHasTimer
<1>8. ASSUME StopEnds PROVE Good'
  <2>1. recorded' \in [Places -> 0..MaxLive]
    BY <1>8, LiveAssumption DEF StopEnds, NoSubscriptions
  <2> QED
    BY <1>8, <2>1 DEF StopEnds, RecordedTyped, LostHasTimer
<1>9. ASSUME StopDoesNothing PROVE Good'
  BY <1>9 DEF StopDoesNothing, RecordedTyped, LostHasTimer, Subscribed
<1>10. ASSUME Pause PROVE Good'
  BY <1>10 DEF Pause, RecordedTyped, LostHasTimer
<1>11. ASSUME Resume PROVE Good'
  BY <1>11 DEF Resume, RecordedTyped, LostHasTimer, Subscribed
<1> QED
  BY <1>1, <1>2, <1>3, <1>4, <1>5, <1>6, <1>7, <1>8, <1>9, <1>10, <1>11
  DEF Next, Replaced, Recovery, Unheard, vars, watcherVars

(***************************************************************************)
(* Whatever the connection manager does and however often stop(), pause()  *)
(* and the timers run, an active watcher without subscriptions has a timer *)
(* set that restores them.                                                 *)
(***************************************************************************)
THEOREM LostSubscriptionsHaveATimer == Spec => []LostHasTimer
<1>1. Init => RecordedTyped /\ LostHasTimer
  <2> SUFFICES ASSUME Init PROVE RecordedTyped /\ LostHasTimer
    OBVIOUS
  <2>1. recorded \in [Places -> 0..MaxLive]
    BY LiveAssumption DEF Init, NoSubscriptions
  <2> QED
    BY <2>1 DEF Init, RecordedTyped, LostHasTimer
<1>2. RecordedTyped /\ LostHasTimer /\ [Next]_vars => RecordedTyped' /\ LostHasTimer'
  BY WatcherStep
<1> QED
  BY <1>1, <1>2, PTL DEF Spec
-----------------------------------------------------------------------------
(***************************************************************************)
(* As long as nobody pauses the watcher, it is active when it has          *)
(* subscriptions, so that start() finds none, and the others look first.   *)
(***************************************************************************)
ActiveWithOne == ~paused => Total(recorded) <= 1 /\ (Subscribed => isActive)

LEMMA RecordedNumbers ==
  ASSUME RecordedTyped
  PROVE  /\ recorded["current"] \in Nat /\ recorded["old"] \in Nat
         /\ Total(recorded) \in Nat /\ (Subscribed <=> Total(recorded) # 0)
<1>1. recorded["current"] \in 0..MaxLive /\ recorded["old"] \in 0..MaxLive
  BY DEF RecordedTyped, Places
<1>2. recorded["current"] \in Nat /\ recorded["old"] \in Nat
  BY <1>1, LiveAssumption
<1>3. Total(recorded) \in Nat
  BY <1>2 DEF Total
<1> QED
  BY <1>2, <1>3 DEF Subscribed

(* What has no subscription gets one. *)
LEMMA SubscribesOnce ==
  ASSUME RecordedTyped, ~Subscribed, Subscribe
  PROVE  ActiveWithOne'
<1>1. /\ recorded["current"] = 0 /\ recorded["old"] = 0
  BY RecordedNumbers DEF Total
<1>2. recorded'["current"] = Upto(0 + 1) /\ recorded'["old"] = 0
  BY <1>1 DEF Subscribe, RecordedTyped, Places
<1>3. Upto(0 + 1) = 1
  BY LiveAssumption DEF Upto
<1>4. Total(recorded)' = 1
  BY <1>2, <1>3 DEF Total
<1> QED
  BY <1>4 DEF Subscribe, ActiveWithOne

LEMMA RestoredOnce ==
  ASSUME NEW pending \in BOOLEAN, RecordedTyped, ActiveWithOne, ConnectionRestored(pending),
         paused' = paused
  PROVE  ActiveWithOne'
<1>1. CASE ~Subscribed /\ Subscribe
  BY <1>1, SubscribesOnce
<1>2. CASE UNCHANGED <<isActive, recorded>>
  BY <1>2 DEF ActiveWithOne, Subscribed
<1> QED
  BY <1>1, <1>2 DEF ConnectionRestored

LEMMA OnceStep ==
  ASSUME RecordedTyped, ActiveWithOne, [Next]_vars
  PROVE  ActiveWithOne'
<1> DEFINE NoneLeft == recorded' = NoSubscriptions
<1>1. ASSUME NoneLeft PROVE ActiveWithOne'
  BY <1>1 DEF NoSubscriptions, Places, Total, Subscribed, ActiveWithOne
<1> HIDE DEF NoneLeft
<1>2. CASE Lost
  BY <1>1, <1>2 DEF Lost, ConnectionLost, NoneLeft
<1>3. CASE StopEnds
  BY <1>1, <1>3 DEF StopEnds, NoneLeft
<1>4. ASSUME ObjectReplaced PROVE ActiveWithOne'
  <2>1. recorded' = [current |-> 0, old |-> Upto(Total(recorded))]
    BY <1>4 DEF ObjectReplaced, Moved
  <2>2. Total(recorded)' = Upto(Total(recorded))
    <3>1. Upto(Total(recorded)) \in Nat
      BY RecordedNumbers, LiveAssumption DEF Upto
    <3> QED
      BY <2>1, <3>1 DEF Total
  <2>3. /\ Total(recorded) <= 1 => Upto(Total(recorded)) <= 1
        /\ Upto(Total(recorded)) > 0 => Total(recorded) # 0
    BY RecordedNumbers, LiveAssumption DEF Upto
  <2>4. Subscribed' => Subscribed
    BY <2>2, <2>3, RecordedNumbers DEF Subscribed
  <2>5. isActive' = isActive /\ paused' = paused
    BY <1>4 DEF ObjectReplaced
  <2> QED
    BY <2>2, <2>3, <2>4, <2>5 DEF ActiveWithOne
<1>5. ASSUME UNCHANGED <<isActive, recorded, paused>> PROVE ActiveWithOne'
  BY <1>5 DEF ActiveWithOne, Subscribed
<1>6. CASE Established
  <2>1. CASE UNCHANGED watcherVars
    BY <1>5, <2>1 DEF watcherVars
  <2>2. CASE ConnectionRestored(watchTimer) /\ paused' = paused
    BY <2>2, RestoredOnce DEF RecordedTyped
  <2> QED
    BY <1>6, <2>1, <2>2 DEF Established
<1>7. CASE Unheard \/ StopBegins \/ StopDoesNothing \/ UNCHANGED vars
  <2>1. UNCHANGED <<isActive, recorded, paused>>
    BY <1>7 DEF Unheard, StopBegins, StopDoesNothing, vars, watcherVars
  <2> QED
    BY <1>5, <2>1
<1>8. CASE WatchTimerFires
  <2>1. CASE ConnectionRestored(FALSE)
    BY <1>8, <2>1, RestoredOnce DEF WatchTimerFires
  <2>2. CASE UNCHANGED <<isActive, recorded>>
    BY <1>5, <1>8, <2>2 DEF WatchTimerFires
  <2> QED
    BY <1>8, <2>1, <2>2 DEF WatchTimerFires
<1>9. CASE Start
  <2>1. CASE ~Subscribed
    BY <1>9, <2>1, SubscribesOnce DEF Start
  <2>2. CASE Subscribed
    BY <1>9, <2>2 DEF Start, ActiveWithOne
  <2> QED
    BY <2>1, <2>2
<1>10. CASE Pause
  BY <1>10 DEF Pause, ActiveWithOne
<1>11. CASE Resume
  BY <1>11 DEF Resume, ActiveWithOne, Subscribed
<1> QED
  BY <1>2, <1>3, <1>4, <1>6, <1>7, <1>8, <1>9, <1>10, <1>11 DEF Next, Replaced, Recovery

(***************************************************************************)
(* As long as nobody pauses the watcher, its own timer, the manager's      *)
(* 'connected' and start() never record two subscriptions to one DEX.      *)
(***************************************************************************)
THEOREM NeverRecordedTwice == Spec => []RecordedOnce
<1> DEFINE Inv == RecordedTyped /\ LostHasTimer /\ ActiveWithOne
<1>1. Init => Inv
  <2> SUFFICES ASSUME Init PROVE Inv
    OBVIOUS
  <2>1. recorded \in [Places -> 0..MaxLive]
    BY LiveAssumption DEF Init, NoSubscriptions
  <2>2. recorded = NoSubscriptions
    BY DEF Init
  <2>3. Total(recorded) = 0
    BY <2>2 DEF NoSubscriptions, Places, Total
  <2>4. RecordedTyped
    BY <2>1 DEF Init, RecordedTyped
  <2>5. LostHasTimer
    BY DEF Init, LostHasTimer
  <2>6. ActiveWithOne
    BY <2>3 DEF ActiveWithOne, Subscribed
  <2> QED
    BY <2>4, <2>5, <2>6
<1>2. Inv /\ [Next]_vars => Inv'
  BY WatcherStep, OnceStep
<1>3. Inv => RecordedOnce
  BY DEF ActiveWithOne, RecordedOnce
<1> QED
  BY <1>1, <1>2, <1>3, PTL DEF Spec
=============================================================================
