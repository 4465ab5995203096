----------------------------- MODULE PriceFeed -----------------------------
(***************************************************************************)
(* PriceFeedService: prices from CoinGecko or else Birdeye, pools from     *)
(* Birdeye, both cached and limited to a number of requests per window,    *)
(* and a socket for each address that is monitored.  A request is counted  *)
(* by an interceptor that runs after the limit was looked at, when other   *)
(* calls of the same batch have looked at it too.                          *)
(***************************************************************************)
EXTENDS Naturals, FiniteSets

CONSTANTS Askers,      \* calls of getTokenPrice() and getPoolLiquidity() under way
          FeedTokens, FeedPools, \* addresses; prices are asked of the first, liquidity of the others
          Limit,       \* requests per window, by service
          Sockets,     \* bound: sockets that are opened
          NoSocket     \* an address without an entry in wsConnections

ASSUME AskersAssumption == IsFiniteSet(Askers)
ASSUME AddressesAssumption == FeedTokens \cap FeedPools = {}
ASSUME SocketAssumption == NoSocket \notin Sockets

Services == {"coingecko", "birdeye"}
ASSUME LimitAssumption == Limit \in [Services -> Nat \ {0}]

VARIABLES cached,       \* addresses with a cached answer that has not expired
          current,      \* requests counted in the window, by service
          windowOver,   \* services whose window has expired
          asking,       \* of each call: its address and how far it is
          wsConnections,\* the socket of each token, or NoSocket
          socket,       \* of each socket: whose it is and whether it is open
          reconnects,   \* timers of reconnections, by token
          wanted        \* tokens that are to be monitored; a property looks at it

limitsOfFeed == <<current, windowOver>>
socketVars == <<wsConnections, socket, reconnects, wanted>>
feedVars == <<cached, limitsOfFeed, asking, socketVars>>

FeedAddresses == FeedTokens \cup FeedPools
Done == [stage |-> "idle"]

FeedInit == /\ cached = {}
            /\ current = [s \in Services |-> 0] /\ windowOver = {}
            /\ asking = [c \in Askers |-> Done]
            /\ wsConnections = [t \in FeedTokens |-> NoSocket]
            /\ socket = [s \in Sockets |-> [state |-> "unused"]]
            /\ reconnects = [t \in FeedTokens |-> 0]
            /\ wanted = {}
-----------------------------------------------------------------------------
Stage(c, address, stage) == asking' = [asking EXCEPT ![c] = [stage |-> stage, address |-> address]]
Return(c) == asking' = [asking EXCEPT ![c] = Done]

(* A faulty variant: an expired window starts with what was counted before. *)
KeepCount(s) == /\ current' = current
                /\ windowOver' = windowOver \ {s}

(* canMakeRequest() starts a new window when the old one has expired. *)
RenewWindow(s) == /\ current' = [current EXCEPT ![s] = IF s \in windowOver THEN 0 ELSE @]
                  /\ windowOver' = windowOver \ {s}

(* A faulty variant: it lets one request too many through. *)
MayRequestOneMore(s) == s \in windowOver \/ current[s] <= Limit[s] + 1
MayRequest(s) == s \in windowOver \/ current[s] < Limit[s]

(* Asks s if its limit allows it; "otherwise" is what the call does if not. *)
AskService(c, address, s, otherwise) ==
  /\ RenewWindow(s)
  /\ IF MayRequest(s) THEN Stage(c, address, s) ELSE otherwise

(* getTokenPrice() up to its first request: the cache, then CoinGecko.  The *)
(* two stablecoins have a fixed price and make no request: no token here.   *)
GetTokenPrice(c, t) ==
  /\ asking[c].stage = "idle" /\ t \notin cached
  /\ AskService(c, t, "coingecko", Stage(c, t, "fallback"))
  /\ UNCHANGED <<cached, socketVars>>

(* CoinGecko is not to be asked, or had no answer: Birdeye is the fallback. *)
FallBack(c) ==
  /\ asking[c].stage = "fallback"
  /\ AskService(c, asking[c].address, "birdeye", Return(c))
  /\ UNCHANGED <<cached, socketVars>>

GetPoolLiquidity(c, p) ==
  /\ asking[c].stage = "idle" /\ p \notin cached
  /\ AskService(c, p, "birdeye", Return(c))
  /\ UNCHANGED <<cached, socketVars>>

(* The interceptor counts the request, and it is sent. *)
RequestSent(c) ==
  /\ asking[c].stage \in Services
  /\ current' = [current EXCEPT ![asking[c].stage] = @ + 1]
  /\ Stage(c, asking[c].address, IF asking[c].stage = "coingecko" THEN "sentC" ELSE "sentB")
  /\ UNCHANGED <<cached, windowOver, socketVars>>

(* An answer is cached and told; none from CoinGecko leads to the fallback. *)
Answered(c) == /\ asking[c].stage \in {"sentC", "sentB"}
               /\ cached' = cached \cup {asking[c].address} /\ Return(c)
               /\ UNCHANGED <<limitsOfFeed, socketVars>>
Unanswered(c) == /\ asking[c].stage \in {"sentC", "sentB"}
                 /\ IF asking[c].stage = "sentC" THEN Stage(c, asking[c].address, "fallback")
                                                 ELSE Return(c)
                 /\ UNCHANGED <<cached, limitsOfFeed, socketVars>>

Expires(a) == a \in cached /\ cached' = cached \ {a} /\ UNCHANGED <<limitsOfFeed, asking, socketVars>>
WindowExpires(s) == s \notin windowOver /\ windowOver' = windowOver \cup {s}
                    /\ UNCHANGED <<cached, current, asking, socketVars>>
-----------------------------------------------------------------------------
OpenSockets(t) == { s \in Sockets : socket[s].state = "open" /\ socket[s].token = t }

(* setupWebSocketConnection(): whatever socket the token had loses its entry. *)
Connect(t) == \E s \in Sockets :
  /\ socket[s].state = "unused"
  /\ socket' = [socket EXCEPT ![s] = [state |-> "open", token |-> t]]
  /\ wsConnections' = [wsConnections EXCEPT ![t] = s]

(* startRealTimeMonitoring() *)
StartMonitoring(t) == /\ Connect(t) /\ wanted' = wanted \cup {t}
                      /\ UNCHANGED <<cached, limitsOfFeed, asking, reconnects>>

(* stopRealTimeMonitoring(): close() takes effect with the 'close' event. *)
StopMonitoring(t) ==
  /\ wsConnections[t] # NoSocket
  /\ socket' = [socket EXCEPT ![wsConnections[t]].state = "closing"]
  /\ wsConnections' = [wsConnections EXCEPT ![t] = NoSocket]
  /\ wanted' = wanted \ {t}
  /\ UNCHANGED <<cached, limitsOfFeed, asking, reconnects>>

(* 'close', asked for or not: the token's entry is deleted, and a timer set. *)
SocketCloses(s) ==
  /\ socket[s].state \in {"open", "closing"}
  /\ socket' = [socket EXCEPT ![s] = [state |-> "closed"]]
  /\ wsConnections' = [wsConnections EXCEPT ![socket[s].token] = NoSocket]
  /\ reconnects' = [reconnects EXCEPT ![socket[s].token] = @ + 1]
  /\ UNCHANGED <<cached, limitsOfFeed, asking, wanted>>

Reconnect(t) ==
  /\ reconnects[t] > 0 /\ reconnects' = [reconnects EXCEPT ![t] = @ - 1]
  /\ IF wsConnections[t] = NoSocket THEN Connect(t) ELSE UNCHANGED <<wsConnections, socket>>
  /\ UNCHANGED <<cached, limitsOfFeed, asking, wanted>>

(* A price that a socket brings is cached at once. *)
SocketPrice(t) == /\ OpenSockets(t) # {} /\ cached' = cached \cup {t}
                  /\ UNCHANGED <<limitsOfFeed, asking, socketVars>>

FeedNext ==
  \/ \E c \in Askers : \/ \E t \in FeedTokens : GetTokenPrice(c, t)
                       \/ \E p \in FeedPools : GetPoolLiquidity(c, p)
                       \/ FallBack(c) \/ RequestSent(c) \/ Answered(c) \/ Unanswered(c)
  \/ \E a \in FeedAddresses : Expires(a)
  \/ \E s \in Services : WindowExpires(s)
  \/ \E t \in FeedTokens : StartMonitoring(t) \/ StopMonitoring(t) \/ Reconnect(t) \/ SocketPrice(t)
  \/ \E s \in Sockets : SocketCloses(s)

FeedSpec == FeedInit /\ [][FeedNext]_feedVars
-----------------------------------------------------------------------------
Unsent(s) == { c \in Askers : asking[c].stage = s }

(***************************************************************************)
(* A service is asked no more often in a window than its limit and the     *)
(* calls that overlap allow, whenever the window is renewed and whichever  *)
(* of the two ways of asking Birdeye they take.                            *)
(***************************************************************************)
RequestsBounded ==
  \A s \in Services :
    current[s] + Cardinality(Unsent(s)) <= Limit[s] + Cardinality(Askers) - 1

(* "Rate limiting configuration": no more than the limit in a window. *)
WithinLimit == \A s \in Services : current[s] <= Limit[s]

(* "Stop real-time monitoring": no socket is opened for a token once it is stopped. *)
StoppedStaysStopped == [][\A t \in FeedTokens : OpenSockets(t) = {} /\ OpenSockets(t)' # {} => t \in wanted']_feedVars

(* Every open socket is one that stopRealTimeMonitoring() can close. *)
SocketsTracked == \A t \in FeedTokens : OpenSockets(t) \subseteq {wsConnections[t]}
=============================================================================
