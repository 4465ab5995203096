------------------------- MODULE BlockchainWatcher -------------------------
(***************************************************************************)
(* BlockchainWatcher of blockchain/blockchain-watcher.ts on top of the     *)
(* ConnectionManager.  It reacts to the manager's events in the same turn, *)
(* keeps a retry timer of its own and takes its listeners off the          *)
(* Connection object that is current when it is stopped.                   *)
(*                                                                         *)
(* A "subscription" is one pass over the DEXes.  What matters of one is    *)
(* whether the watcher has recorded its identifiers, and whether it lives  *)
(* on the current Connection object or on one replaced since: the library  *)
(* keeps a listener alive across outages until it is removed.              *)
(***************************************************************************)
EXTENDS ConnectionManager

CONSTANT MaxLive     \* bound of the subscriptions counted per place

ASSUME LiveAssumption == MaxLive \in Nat \ {0}

VARIABLES isActive,     \* status.isActive
          recorded,     \* subscriptions recorded, by place of their Connection object
          live,         \* subscriptions that still deliver logs, by the same
          watchTimer,   \* reconnectTimeout is set
          stopping,     \* isShuttingDown: stop() waits for the node
          asked,        \* the last request that returned
          paused        \* pause() has been called; only a property looks at it

watcherVars == <<isActive, recorded, live, watchTimer, stopping, asked, paused>>
vars == <<connectionVars, watcherVars>>

Places == {"current", "old"}
NoSubscriptions == [p \in Places |-> 0]
Total(f) == f["current"] + f["old"]
Subscribed == Total(recorded) > 0

Init ==
  /\ ConnectionInit
  /\ isActive = FALSE /\ watchTimer = FALSE /\ stopping = FALSE
  /\ recorded = NoSubscriptions /\ live = NoSubscriptions
  /\ asked = "nothing" /\ paused = FALSE

(* The controller constructs the watcher once initialize() has succeeded. *)
Constructed == Initialized
-----------------------------------------------------------------------------
Upto(n) == IF n < MaxLive THEN n ELSE MaxLive

(* subscribeToDex() for every DEX, on the current object. *)
Subscribe ==
  /\ recorded' = [recorded EXCEPT !["current"] = Upto(@ + 1)]
  /\ live' = [live EXCEPT !["current"] = Upto(@ + 1)]
  /\ isActive' = TRUE

Moved(f) == [current |-> 0, old |-> Upto(Total(f))]

(* Another Connection object takes the place of the current one. *)
ObjectReplaced ==
  /\ recorded' = Moved(recorded) /\ live' = Moved(live)
  /\ UNCHANGED <<isActive, watchTimer, stopping, asked, paused>>

(* A faulty variant: the retry is left to the connection manager. *)
ConnectionLostQuietly ==
  /\ recorded' = NoSubscriptions
  /\ UNCHANGED <<isActive, live, watchTimer, stopping, asked, paused>>

(* handleConnectionLost(), on 'disconnected'. *)
ConnectionLost ==
  /\ recorded' = NoSubscriptions
  /\ watchTimer' = (watchTimer \/ ~stopping)
  /\ UNCHANGED <<isActive, live, stopping, asked, paused>>

(* A faulty variant: subscribes again whether or not it already has. *)
ConnectionRestoredAgain(pending) ==
  \/ /\ stopping \/ ~Usable'
     /\ watchTimer' = (pending \/ ~stopping)
     /\ UNCHANGED <<isActive, recorded, live>>
  \/ /\ ~stopping /\ Usable'
     /\ Subscribe /\ watchTimer' = FALSE

(***************************************************************************)
(* handleConnectionRestored(), on 'connected' and when the timer fires on  *)
(* a connection with status connected; pending says whether the timer is   *)
(* set on entry.  getConnection() may throw all the same, and then another *)
(* try is scheduled.                                                       *)
(***************************************************************************)
ConnectionRestored(pending) ==
  \/ /\ stopping
     /\ watchTimer' = pending
     /\ UNCHANGED <<isActive, recorded, live>>
  \/ /\ ~stopping /\ Subscribed
     /\ watchTimer' = FALSE
     /\ UNCHANGED <<isActive, recorded, live>>
  \/ /\ ~stopping /\ ~Subscribed /\ Usable'
     /\ Subscribe
     /\ watchTimer' = FALSE
  \/ /\ ~stopping /\ ~Subscribed /\ ~Usable'
     /\ watchTimer' = TRUE
     /\ UNCHANGED <<isActive, recorded, live>>

(* scheduleReconnect()'s timer fires. *)
WatchTimerFires ==
  /\ watchTimer
  /\ UNCHANGED <<connectionVars, stopping, asked, paused>>
  /\ \/ connected /\ ConnectionRestored(FALSE)
     \/ /\ ~connected
        /\ watchTimer' = ~stopping
        /\ UNCHANGED <<isActive, recorded, live>>

(* start(); a watcher that is active or has no connection throws instead. *)
Start ==
  /\ ~isActive /\ Usable
  /\ Subscribe
  /\ asked' = "start"
  /\ UNCHANGED <<connectionVars, watchTimer, stopping, paused>>

(***************************************************************************)
(* stop() takes the listeners it has recorded off the current object and   *)
(* waits for each; a removal may fail, and one of an earlier object does   *)
(* nothing.  The controller calls stop() once at a time.                   *)
(***************************************************************************)
StopBegins ==
  /\ isActive /\ Usable /\ ~stopping
  /\ stopping' = TRUE
  /\ \E removed \in {0, recorded["current"]} :
       live' = [live EXCEPT !["current"] = @ - removed]
  /\ UNCHANGED <<connectionVars, isActive, recorded, watchTimer, asked, paused>>

StopEnds ==
  /\ stopping
  /\ stopping' = FALSE
  /\ recorded' = NoSubscriptions
  /\ isActive' = FALSE /\ watchTimer' = FALSE
  /\ asked' = "stop"
  /\ UNCHANGED <<connectionVars, live, paused>>

(* stop() of an inactive watcher returns; without a connection it gives up. *)
StopDoesNothing ==
  /\ Constructed /\ ~stopping /\ (isActive => ~Usable)
  /\ asked' = "stop"
  /\ UNCHANGED <<connectionVars, isActive, recorded, live, watchTimer, stopping, paused>>

Pause ==
  /\ isActive
  /\ isActive' = FALSE
  /\ asked' = "pause" /\ paused' = TRUE
  /\ UNCHANGED <<connectionVars, recorded, live, watchTimer, stopping>>

Resume ==
  /\ ~isActive /\ Subscribed
  /\ isActive' = TRUE
  /\ asked' = "start"
  /\ UNCHANGED <<connectionVars, recorded, live, watchTimer, stopping, paused>>

(* The steps of the connection manager, with what the watcher hears of them. *)
Lost == \E c \in Calls : HealthDrops(c) /\ ConnectionLost

Established ==
  \E c \in Calls :
    /\ InitSucceeds(c)
    /\ \/ ~Constructed /\ UNCHANGED watcherVars
       \/ Constructed /\ ConnectionRestored(watchTimer) /\ UNCHANGED <<stopping, asked, paused>>

Replaced ==
  \/ \E c \in Calls : (Initialize(c) \/ RetryFires(c)) /\ ObjectReplaced
  \/ /\ asked = "stop" /\ ~stopping    \* the controller stops the watcher first
     /\ Shutdown /\ ObjectReplaced

Unheard ==
  /\ \E c \in Calls : \/ CallFails(c) \/ HealthBegins(c) \/ HealthPasses(c)
                      \/ RetryFails(c) \/ Reconnected(c)
  /\ UNCHANGED watcherVars

Recovery == \E c \in Calls : (Reconnect(c) \/ Restart(c)) /\ ObjectReplaced

Next ==
  \/ (Lost \/ Established \/ Replaced \/ Unheard) /\ UNCHANGED recovered
  \/ Recovery
  \/ WatchTimerFires
  \/ Start \/ StopBegins \/ StopEnds \/ StopDoesNothing \/ Pause \/ Resume

Spec == Init /\ [][Next]_vars

(* Requests settle and timers keep firing; nothing is said of start() or stop(). *)
FairSpec ==
  /\ Spec
  /\ \A c \in Calls : WF_vars(Next /\ Progress(c))
  /\ WF_vars(Next /\ \E c \in Calls : HealthBegins(c))
  /\ WF_vars(Next /\ \E c \in Calls : RetryFires(c))
  /\ WF_vars(WatchTimerFires)
  /\ WF_vars(StopEnds)
-----------------------------------------------------------------------------
WatcherTypeOK ==
  /\ ConnectionTypeOK
  /\ isActive \in BOOLEAN /\ watchTimer \in BOOLEAN /\ stopping \in BOOLEAN
  /\ recorded \in [Places -> 0..MaxLive] /\ live \in [Places -> 0..MaxLive]
  /\ asked \in {"nothing", "start", "stop", "pause"} /\ paused \in BOOLEAN

(***************************************************************************)
(* An active watcher that has lost its subscriptions has a timer that will *)
(* restore them, whatever the connection manager, stop() and the earlier   *)
(* timers did in the meantime.                                             *)
(***************************************************************************)
LostHasTimer == isActive /\ ~stopping /\ ~Subscribed => watchTimer

(***************************************************************************)
(* While nobody pauses it, the watcher never records two subscriptions to  *)
(* the same DEX, however its own timer, the manager's 'connected' and      *)
(* start() follow one another.                                             *)
(***************************************************************************)
RecordedOnce == ~paused => Total(recorded) <= 1

(***************************************************************************)
(* Once the RPC node answers and nobody stops, pauses or reconnects, the   *)
(* connection of a running manager is usable for good, also after its      *)
(* retries were used up, and an active watcher is subscribed.              *)
(***************************************************************************)
Troubled == \/ \E c \in Calls : ~Quiet(c)
            \/ StopBegins \/ Pause
Resubscribes ==
  <>[][~Troubled]_vars
    => <>[](healthChecking /\ ~shuttingDown => Usable /\ (isActive => Subscribed))

(***************************************************************************)
(* "Re-establish subscriptions if we were active before": a watcher is     *)
(* active only if start() or resume() was the last thing asked of it.      *)
(***************************************************************************)
ActiveOnlyIfAsked == isActive => asked = "start"

(***************************************************************************)
(* "Stop monitoring and clean up subscriptions": when stop() has returned, *)
(* the watcher is not active.                                              *)
(***************************************************************************)
StoppedIsQuiet == asked = "stop" => ~isActive

(***************************************************************************)
(* "Connection lost, subscriptions cleared": a lost subscription delivers  *)
(* nothing any more, so that when subscriptions are restored there is no   *)
(* other that the same log would arrive at.                                *)
(***************************************************************************)
DeliveredOnce ==
  [][(Established \/ WatchTimerFires) /\ ~recovered /\ Total(live') > Total(live)
       => Total(live) = 0]_vars
=============================================================================
