--------------------------- MODULE Guards_proofs ---------------------------
(***************************************************************************)
(* What guards a trade: the circuit breaker, the checks of security/, the  *)
(* analysis of the market, the monitor of the price feed, and with them    *)
(* the synchronous position machine.  Each has its inductive invariant, a  *)
(* lemma that a step of it keeps the invariant, and the theorem.           *)
(***************************************************************************)
EXTENDS CircuitBreaker, RiskManager, SlippageProtection, TransactionSimulator, MarketData,
        PriceFeedMonitor, PositionMachine, FiniteSetTheorems, TLAPS

-----------------------------------------------------------------------------
(***************************************************************************)
(* CircuitBreaker, for any set of calls, thresholds and timeout.  With the *)
(* types, that no state keeps a count it should have acted on is           *)
(* inductive.                                                              *)
(***************************************************************************)
IInv == TypeOK /\ ThresholdsActedOn

LEMMA BumpFacts ==
  ASSUME NEW cap \in Nat, NEW n \in 0..cap
  PROVE  Bump(n, cap) \in 0..cap /\ (n + 1 < cap => Bump(n, cap) = n + 1)
  BY DEF Bump

LEMMA InitInvariant == Init => IInv
  BY ThresholdAssumption, TimeAssumption
     DEF Init, IInv, TypeOK, ThresholdsActedOn, BreakerStates

LEMMA BeginInvariant ==
  ASSUME IInv, NEW c \in Calls, Begin(c)
  PROVE  IInv'
<1>1. CASE state # "OPEN"
  BY <1>1 DEF Begin, StayInState, IInv, TypeOK, ThresholdsActedOn
<1>2. CASE state = "OPEN"
  BY <1>2, ThresholdAssumption, TimeAssumption
     DEF Begin, SetState, IInv, TypeOK, ThresholdsActedOn, BreakerStates
<1> QED
  BY <1>1, <1>2

LEMMA SucceedInvariant ==
  ASSUME IInv, NEW c \in Calls, Succeed(c)
  PROVE  IInv'
<1>1. /\ inFlight' \subseteq Calls /\ probes' \subseteq inFlight'
      /\ probeSuccesses' \in 0..SuccessThreshold
  BY BumpFacts, ThresholdAssumption DEF Succeed, Settle, IInv, TypeOK
<1>2. CASE state = "HALF_OPEN" /\ successCount + 1 >= SuccessThreshold
  <2>1. CloseAndReset
    BY <1>2 DEF Succeed
  <2> QED
    BY <1>1, <2>1, ThresholdAssumption, TimeAssumption
       DEF CloseAndReset, SetState, IInv, TypeOK, ThresholdsActedOn, BreakerStates
<1>3. CASE ~(state = "HALF_OPEN" /\ successCount + 1 >= SuccessThreshold)
  <2>1. /\ successCount' = Bump(successCount, SuccessThreshold)
        /\ failureCount' = IF state = "CLOSED" THEN 0 ELSE failureCount
        /\ StayInState /\ remaining' = remaining
    BY <1>3 DEF Succeed
  <2>2. /\ successCount' \in 0..SuccessThreshold
        /\ state = "HALF_OPEN" => successCount' < SuccessThreshold
    BY <1>3, <2>1, BumpFacts, ThresholdAssumption DEF IInv, TypeOK
  <2> QED
    BY <1>1, <2>1, <2>2, ThresholdAssumption DEF StayInState, IInv, TypeOK, ThresholdsActedOn
<1> QED
  BY <1>2, <1>3

LEMMA FailInvariant ==
  ASSUME IInv, NEW c \in Calls, Fail(c)
  PROVE  IInv'
<1>1. /\ inFlight' \subseteq Calls /\ probes' \subseteq inFlight'
      /\ failureCount' = Bump(failureCount, FailureThreshold)
      /\ failureCount' \in 0..FailureThreshold
      /\ UNCHANGED <<successCount, probeSuccesses>>
  BY BumpFacts, ThresholdAssumption DEF Fail, Settle, IInv, TypeOK
<1>2. CASE Trips
  BY <1>1, <1>2, ThresholdAssumption, TimeAssumption
     DEF Fail, OpenAndSchedule, SetState, IInv, TypeOK, ThresholdsActedOn, BreakerStates
<1>3. CASE ~Trips
  <2>1. state = "CLOSED" => failureCount' < FailureThreshold
    BY <1>1, <1>3, ThresholdAssumption DEF Trips, Bump, IInv, TypeOK
  <2> QED
    BY <1>1, <1>3, <2>1 DEF Fail, StayInState, IInv, TypeOK, ThresholdsActedOn
<1> QED
  BY <1>2, <1>3

LEMMA OtherInvariant ==
  ASSUME IInv, ForceOpen \/ ForceClosed \/ Tick \/ UNCHANGED vars
  PROVE  IInv'
<1>1. CASE ForceOpen
  BY <1>1, TimeAssumption
     DEF ForceOpen, OpenAndSchedule, SetState, counters, IInv, TypeOK, ThresholdsActedOn,
         BreakerStates
<1>2. CASE ForceClosed
  BY <1>2, ThresholdAssumption, TimeAssumption
     DEF ForceClosed, CloseAndReset, SetState, IInv, TypeOK, ThresholdsActedOn, BreakerStates
<1>3. CASE Tick
  BY <1>3, TimeAssumption DEF Tick, Bump, counters, IInv, TypeOK, ThresholdsActedOn
<1>4. CASE UNCHANGED vars
  BY <1>4 DEF vars, counters, history, IInv, TypeOK, ThresholdsActedOn
<1> QED
  BY <1>1, <1>2, <1>3, <1>4

(* Types and thresholds, in every reachable state. *)
THEOREM Invariance == Spec => []IInv
<1>1. IInv /\ [Next]_vars => IInv'
  BY BeginInvariant, SucceedInvariant, FailInvariant, OtherInvariant DEF Next
<1> QED
  BY InitInvariant, <1>1, PTL DEF Spec

(* No state keeps a count at a threshold it should have acted on. *)
THEOREM Thresholds == Spec => []ThresholdsActedOn
  BY Invariance, PTL DEF IInv

(* While the circuit is open, what is left of the timeout and the time since the change to
   OPEN add up to it: the two clocks are set together and only time moves them. *)
ClocksAgree ==
  state = "OPEN" => remaining = IF sinceChange < Timeout THEN Timeout - sinceChange ELSE 0

LEMMA ClocksStayTogether ==
  ASSUME TypeOK, ClocksAgree, [Next]_vars
  PROVE  ClocksAgree'
<1>0. Timeout \in Nat \ {0}
  BY TimeAssumption
<1>1. ASSUME NEW c \in Calls, Begin(c) PROVE ClocksAgree'
  BY <1>1 DEF Begin, StayInState, SetState, ClocksAgree
<1>2. ASSUME NEW c \in Calls, Succeed(c) PROVE ClocksAgree'
  BY <1>2 DEF Succeed, CloseAndReset, StayInState, SetState, ClocksAgree
<1>3. ASSUME NEW c \in Calls, Fail(c) PROVE ClocksAgree'
  <2>1. CASE Trips
    BY <1>0, <1>3, <2>1 DEF Fail, Trips, OpenAndSchedule, SetState, ClocksAgree
  <2>2. CASE ~Trips
    BY <1>3, <2>2 DEF Fail, StayInState, Trips, ClocksAgree
  <2> QED
    BY <2>1, <2>2
<1>4. CASE ForceOpen
  BY <1>0, <1>4 DEF ForceOpen, OpenAndSchedule, SetState, ClocksAgree
<1>5. CASE ForceClosed
  BY <1>5 DEF ForceClosed, CloseAndReset, SetState, ClocksAgree
<1>6. CASE Tick
  <2>1. /\ state' = state /\ sinceChange' = Bump(sinceChange, MaxAge)
        /\ remaining' = IF remaining > 0 THEN remaining - 1 ELSE 0
    BY <1>6 DEF Tick
  <2>2. remaining \in Nat /\ sinceChange \in 0..MaxAge /\ MaxAge \in Nat /\ MaxAge >= Timeout
    BY TimeAssumption DEF TypeOK
  <2> QED
    BY <1>0, <2>1, <2>2 DEF Bump, ClocksAgree
<1>7. CASE UNCHANGED vars
  BY <1>7 DEF vars, ClocksAgree
<1> QED
  BY <1>1, <1>2, <1>3, <1>4, <1>5, <1>6, <1>7 DEF Next

(***************************************************************************)
(* However calls overlap, whatever opened the circuit last keeps callers   *)
(* off fn for the whole timeout from then on, and no longer.               *)
(***************************************************************************)
THEOREM WholeTimeout == Spec => OpensForWholeTimeout
<1> DEFINE A == state = "OPEN" =>
                  /\ ~(inFlight' \subseteq inFlight) => sinceChange >= Timeout
                  /\ state' # "OPEN" => sinceChange >= Timeout \/ ForceClosed
                  /\ sinceChange >= Timeout => remaining = 0
<1>1. IInv /\ ClocksAgree /\ [Next]_vars => [A]_vars
  <2> SUFFICES ASSUME IInv, ClocksAgree, Next, state = "OPEN"
               PROVE  A
    OBVIOUS
  <2>0. sinceChange \in Nat /\ Timeout \in Nat
    BY TimeAssumption DEF IInv, TypeOK
  <2>1. sinceChange >= Timeout <=> remaining = 0
    BY <2>0 DEF ClocksAgree
  <2>2. ASSUME NEW c \in Calls, Begin(c) PROVE A
    BY <2>1, <2>2 DEF Begin
  <2>3. ASSUME NEW c \in Calls, Succeed(c) PROVE A
    BY <2>1, <2>3 DEF Succeed, Settle, StayInState
  <2>4. ASSUME NEW c \in Calls, Fail(c) PROVE A
    BY <2>1, <2>4 DEF Fail, Settle, Trips, OpenAndSchedule, SetState, StayInState
  <2>5. CASE ForceOpen
    BY <2>1, <2>5 DEF ForceOpen, OpenAndSchedule, SetState
  <2>6. CASE ForceClosed
    BY <2>1, <2>6 DEF ForceClosed
  <2>7. CASE Tick
    BY <2>1, <2>7 DEF Tick
  <2> QED
    BY <2>2, <2>3, <2>4, <2>5, <2>6, <2>7 DEF Next
<1>2. Init => ClocksAgree
  BY DEF Init, ClocksAgree
<1>3. IInv /\ ClocksAgree /\ [Next]_vars => ClocksAgree'
  BY ClocksStayTogether DEF IInv
<1> QED
  BY Invariance, <1>1, <1>2, <1>3, PTL DEF Spec, OpensForWholeTimeout
-----------------------------------------------------------------------------
(***************************************************************************)
(* RiskManager.  The dollars of the open positions: a position that opens  *)
(* adds at most its own.                                                   *)
(***************************************************************************)
Dollars(s, c) == UNION {{p} \X (1..c[p]) : p \in {q \in RiskPositions : s[q] = "OPEN"}}

(* What a dollar is. *)
LEMMA IsDollar ==
  ASSUME NEW s, NEW c, NEW x
  PROVE  x \in Dollars(s, c) <=>
           \E p \in RiskPositions : s[p] = "OPEN" /\ x \in {p} \X (1..c[p])
  BY DEF Dollars

(* Each position has as many as it costs. *)
LEMMA OwnDollars ==
  ASSUME NEW p, NEW n \in Nat
  PROVE  IsFiniteSet({p} \X (1..n)) /\ Cardinality({p} \X (1..n)) = n
<1>1. IsFiniteSet({p}) /\ Cardinality({p}) = 1
  BY FS_Singleton
<1>2. IsFiniteSet(1..n) /\ Cardinality(1..n) = n
  <2>1. 1 \in Int /\ n \in Int
    OBVIOUS
  <2>2. /\ IsFiniteSet(1..n)
        /\ Cardinality(1..n) = IF 1 > n THEN 0 ELSE n - 1 + 1
    BY <2>1, FS_Interval
  <2> QED
    BY <2>2
<1>3. /\ IsFiniteSet({p} \X (1..n))
      /\ Cardinality({p} \X (1..n)) = Cardinality({p}) * Cardinality(1..n)
  BY <1>1, <1>2, FS_Product
<1> QED
  BY <1>1, <1>2, <1>3

(* They are finitely many, and their number is the cost. *)
LEMMA DollarsAreFinite ==
  ASSUME NEW s, NEW c \in [RiskPositions -> Nat]
  PROVE  /\ IsFiniteSet(Dollars(s, c))
         /\ CostOf(RiskPositions, s, c) = Cardinality(Dollars(s, c))
         /\ CostOf(RiskPositions, s, c) \in Nat
<1> DEFINE Opened == {q \in RiskPositions : s[q] = "OPEN"}
           Heaps == {{p} \X (1..c[p]) : p \in Opened}
           f == [p \in Opened |-> {p} \X (1..c[p])]
<1>1. IsFiniteSet(Opened)
  BY RiskAssumption, FS_Subset
<1>2. f \in Surjection(Opened, Heaps)
  BY DEF Surjection
<1>3. IsFiniteSet(Heaps)
  <2> HIDE DEF Heaps, f, Opened
  <2> QED
    BY <1>1, <1>2, FS_Surjection
<1>4. ASSUME NEW H \in Heaps PROVE IsFiniteSet(H)
  <2>1. PICK p \in RiskPositions : H = {p} \X (1..c[p])
    OBVIOUS
  <2>2. c[p] \in Nat
    OBVIOUS
  <2> QED
    BY <2>1, <2>2, OwnDollars
<1>5. IsFiniteSet(UNION Heaps)
  <2> HIDE DEF Heaps
  <2> QED
    BY <1>3, <1>4, FS_UNION
<1>6. IsFiniteSet(Dollars(s, c))
  BY <1>5 DEF Dollars
<1> QED
  BY <1>6, FS_CardinalityType DEF CostOf, Dollars

(* Positions that are open only where they were are not worth more. *)
LEMMA FewerCostLess ==
  ASSUME NEW s, NEW t, NEW c \in [RiskPositions -> Nat], NEW d \in [RiskPositions -> Nat],
         \A p \in RiskPositions : s[p] = "OPEN" => t[p] = "OPEN" /\ c[p] = d[p]
  PROVE  CostOf(RiskPositions, s, c) <= CostOf(RiskPositions, t, d)
<1>1. Dollars(s, c) \in SUBSET Dollars(t, d)
  BY IsDollar
<1>2. Cardinality(Dollars(s, c)) <= Cardinality(Dollars(t, d))
  BY <1>1, DollarsAreFinite, FS_Subset
<1> QED
  BY <1>2, DollarsAreFinite

(* One that opens adds what it costs. *)
LEMMA OpeningCosts ==
  ASSUME NEW s, NEW t, NEW c \in [RiskPositions -> Nat], NEW p \in RiskPositions,
         \A q \in RiskPositions \ {p} : t[q] = "OPEN" => s[q] = "OPEN"
  PROVE  CostOf(RiskPositions, t, c) <= CostOf(RiskPositions, s, c) + c[p]
<1> DEFINE Own == {p} \X (1..c[p])
<1>1. IsFiniteSet(Own) /\ Cardinality(Own) = c[p]
  BY OwnDollars
<1>2. Dollars(t, c) \in SUBSET (Dollars(s, c) \cup Own)
  BY IsDollar
<1> HIDE DEF Own
<1>3. IsFiniteSet(Dollars(s, c))
  BY DollarsAreFinite
<1>4. /\ IsFiniteSet(Dollars(s, c) \cup Own)
      /\ Cardinality(Dollars(s, c) \cup Own) =
           Cardinality(Dollars(s, c)) + Cardinality(Own) - Cardinality(Dollars(s, c) \cap Own)
  BY <1>1, <1>3, FS_Union
<1>5. Cardinality(Dollars(s, c) \cap Own) \in Nat
  <2>1. IsFiniteSet(Dollars(s, c) \cap Own)
    BY <1>3, FS_Subset
  <2> QED
    BY <2>1, FS_CardinalityType
<1>6. Cardinality(Dollars(t, c)) <= Cardinality(Dollars(s, c) \cup Own)
  BY <1>2, <1>4, FS_Subset
<1>7. Cardinality(Dollars(t, c)) \in Nat /\ Cardinality(Dollars(s, c)) \in Nat /\ c[p] \in Nat
  BY DollarsAreFinite
<1>8. Cardinality(Dollars(t, c)) <= Cardinality(Dollars(s, c)) + c[p]
  BY <1>1, <1>4, <1>5, <1>6, <1>7
<1> QED
  BY <1>8, DollarsAreFinite

(***************************************************************************)
(* What is awaited is not open yet, and when trades are assessed one by    *)
(* one, the exposure with the one that is awaited was held against the     *)
(* limit.                                                                  *)
(***************************************************************************)
RiskTypes ==
  /\ status \in [RiskPositions -> {"none", "OPEN", "CLOSED"}]
  /\ cost \in [RiskPositions -> Nat]
  /\ awaited \in SUBSET RiskPositions

Noticed(amount) == amount > maxTotalExposure => "EXPOSURE_LIMIT" \in alerts

RiskInv ==
  /\ RiskTypes
  /\ \A p \in awaited : status[p] = "none"
  /\ oneByOne => /\ \A p, q \in awaited : p = q
                 /\ Noticed(CalculateTotalExposure)
                 /\ \A p \in awaited : Noticed(CalculateTotalExposure + cost[p])

(* A step that adds no exposure but what was awaited, and takes no alert back. *)
RiskUnmoved == /\ UNCHANGED <<status, cost, awaited, oneByOne>>
               /\ alerts \subseteq alerts'

LEMMA RiskUnmovedKeeps ==
  ASSUME RiskInv, RiskUnmoved
  PROVE  RiskInv'
<1>1. CalculateTotalExposure' = CalculateTotalExposure
  BY DEF RiskUnmoved, CalculateTotalExposure, CostOf
<1> QED
  BY <1>1 DEF RiskInv, RiskTypes, RiskUnmoved, Noticed

LEMMA LimitIsNat == maxTotalExposure \in Nat
  BY RiskAssumption

(* updatePosition() never takes an alert back. *)
LEMMA UpdateKeepsAlerts ==
  ASSUME NEW p \in RiskPositions, NEW s, UpdatePosition(p, s)
  PROVE  alerts \subseteq alerts' /\ status' = [status EXCEPT ![p] = s]
  BY DEF UpdatePosition, PerformRiskAssessment

LEMMA AssessKeepsRisk ==
  ASSUME RiskInv, NEW p \in RiskPositions, NEW amount \in TradeAmounts,
         AssessTradeRisk(p, amount)
  PROVE  RiskInv'
<1>1. amount \in Nat
  BY RiskAssumption
<1>2. /\ status[p] = "none" /\ p \notin awaited
      /\ awaited' = awaited \cup {p} /\ cost' = [cost EXCEPT ![p] = amount]
      /\ oneByOne' = (oneByOne /\ awaited = {}) /\ status' = status
      /\ alerts \subseteq alerts'
      /\ ExposureWith(amount) > maxTotalExposure => "EXPOSURE_LIMIT" \in alerts'
  BY DEF AssessTradeRisk
<1>3. RiskTypes'
  BY <1>1, <1>2 DEF RiskInv, RiskTypes
<1>4. \A q \in awaited' : status'[q] = "none"
  BY <1>2 DEF RiskInv, RiskTypes
<1>5. CalculateTotalExposure' = CalculateTotalExposure
  <2>1. \A q \in RiskPositions : status[q] = "OPEN" => cost'[q] = cost[q] /\ status'[q] = "OPEN"
    BY <1>2 DEF RiskInv, RiskTypes
  <2>2. /\ cost \in [RiskPositions -> Nat] /\ cost' \in [RiskPositions -> Nat]
        /\ status' = status
    BY <1>2, <1>3 DEF RiskInv, RiskTypes
  <2>3. /\ CostOf(RiskPositions, status, cost) <= CostOf(RiskPositions, status, cost')
        /\ CostOf(RiskPositions, status, cost') <= CostOf(RiskPositions, status, cost)
    BY <2>1, <2>2, FewerCostLess
  <2>4. /\ CostOf(RiskPositions, status, cost) \in Nat
        /\ CostOf(RiskPositions, status, cost') \in Nat
    BY <2>2, DollarsAreFinite
  <2>5. CostOf(RiskPositions, status', cost') = CostOf(RiskPositions, status, cost)
    BY <2>2, <2>3, <2>4
  <2> QED
    BY <2>5 DEF CalculateTotalExposure
<1>6. ASSUME oneByOne'
      PROVE  /\ \A q, r \in awaited' : q = r
             /\ Noticed(CalculateTotalExposure)'
             /\ \A q \in awaited' : Noticed(CalculateTotalExposure + cost[q])'
  <2>1. oneByOne /\ awaited' = {p}
    BY <1>2, <1>6
  <2>2. cost'[p] = amount
    BY <1>2 DEF RiskInv, RiskTypes
  <2>3. Noticed(CalculateTotalExposure)'
    BY <1>2, <1>5, <2>1 DEF RiskInv, Noticed
  <2>4. Noticed(CalculateTotalExposure + cost[p])'
    BY <1>2, <1>5, <2>2 DEF Noticed, ExposureWith
  <2> QED
    BY <2>1, <2>3, <2>4
<1> QED
  BY <1>3, <1>4, <1>6 DEF RiskInv

LEMMA OpenedKeepsRisk ==
  ASSUME RiskInv, NEW p \in RiskPositions, PositionIsOpened(p)
  PROVE  RiskInv'
<1>1. /\ p \in awaited /\ awaited' = awaited \ {p}
      /\ status' = [status EXCEPT ![p] = "OPEN"]
      /\ cost' = cost /\ oneByOne' = oneByOne /\ alerts \subseteq alerts'
  BY UpdateKeepsAlerts DEF PositionIsOpened, riskGhosts
<1>2. RiskTypes' /\ \A q \in awaited' : status'[q] = "none"
  BY <1>1 DEF RiskInv, RiskTypes
<1>3. ASSUME oneByOne'
      PROVE  /\ awaited' = {}
             /\ Noticed(CalculateTotalExposure)'
  <2>1. /\ \A q, r \in awaited : q = r
        /\ Noticed(CalculateTotalExposure + cost[p])
    BY <1>1, <1>3 DEF RiskInv
  <2>2. awaited' = {}
    BY <1>1, <2>1
  <2>3. cost \in [RiskPositions -> Nat] /\ cost[p] \in Nat
    BY DEF RiskInv, RiskTypes
  <2>4. \A q \in RiskPositions \ {p} : status'[q] = "OPEN" => status[q] = "OPEN"
    BY <1>1 DEF RiskInv, RiskTypes
  <2>5. CostOf(RiskPositions, status', cost) <= CostOf(RiskPositions, status, cost) + cost[p]
    BY <2>3, <2>4, OpeningCosts
  <2>6. CostOf(RiskPositions, status', cost) \in Nat /\ CostOf(RiskPositions, status, cost) \in Nat
    BY <2>3, DollarsAreFinite
  <2>7. CostOf(RiskPositions, status', cost) > maxTotalExposure
          => CostOf(RiskPositions, status, cost) + cost[p] > maxTotalExposure
    BY <2>3, <2>5, <2>6, LimitIsNat
  <2>8. CalculateTotalExposure' = CostOf(RiskPositions, status', cost)
    BY <1>1 DEF CalculateTotalExposure
  <2> QED
    BY <1>1, <2>1, <2>2, <2>7, <2>8 DEF Noticed, CalculateTotalExposure
<1> QED
  BY <1>2, <1>3 DEF RiskInv

LEMMA ClosedKeepsRisk ==
  ASSUME RiskInv, NEW p \in RiskPositions, PositionIsClosed(p)
  PROVE  RiskInv'
<1>1. /\ status[p] = "OPEN" /\ status' = [status EXCEPT ![p] = "CLOSED"]
      /\ awaited' = awaited /\ cost' = cost /\ oneByOne' = oneByOne /\ alerts \subseteq alerts'
  BY UpdateKeepsAlerts DEF PositionIsClosed
<1>2. RiskTypes' /\ \A q \in awaited' : status'[q] = "none"
  BY <1>1 DEF RiskInv, RiskTypes
<1>3. cost \in [RiskPositions -> Nat]
  BY DEF RiskInv, RiskTypes
<1>4. \A q \in RiskPositions : status'[q] = "OPEN" => status[q] = "OPEN"
  BY <1>1 DEF RiskInv, RiskTypes
<1>5. CostOf(RiskPositions, status', cost) <= CostOf(RiskPositions, status, cost)
  BY <1>3, <1>4, FewerCostLess
<1>6. CostOf(RiskPositions, status', cost) \in Nat /\ CostOf(RiskPositions, status, cost) \in Nat
  BY <1>3, DollarsAreFinite
<1>7. CalculateTotalExposure' = CostOf(RiskPositions, status', cost)
  BY <1>1 DEF CalculateTotalExposure
<1>8. ASSUME NEW n \in Nat, Noticed(CalculateTotalExposure + n)
      PROVE  (CalculateTotalExposure' + n > maxTotalExposure) => "EXPOSURE_LIMIT" \in alerts'
  <2>1. CalculateTotalExposure' + n > maxTotalExposure
          => CalculateTotalExposure + n > maxTotalExposure
    BY <1>5, <1>6, <1>7, LimitIsNat DEF CalculateTotalExposure
  <2> QED
    BY <1>1, <1>8, <2>1 DEF Noticed
<1>9. ASSUME oneByOne'
      PROVE  /\ \A q, r \in awaited' : q = r
             /\ Noticed(CalculateTotalExposure)'
             /\ \A q \in awaited' : Noticed(CalculateTotalExposure + cost[q])'
  <2>1. CalculateTotalExposure \in Nat /\ CalculateTotalExposure' \in Nat
    BY <1>6, <1>7 DEF CalculateTotalExposure
  <2>2. Noticed(CalculateTotalExposure + 0)
    BY <1>1, <1>9, <2>1 DEF RiskInv, Noticed
  <2>3. Noticed(CalculateTotalExposure)'
    BY <1>8, <2>1, <2>2 DEF Noticed
  <2>4. ASSUME NEW q \in awaited' PROVE Noticed(CalculateTotalExposure + cost[q])'
    <3>1. Noticed(CalculateTotalExposure + cost[q]) /\ cost[q] \in Nat
      BY <1>1, <1>9 DEF RiskInv, RiskTypes
    <3> QED
      BY <1>1, <1>8, <3>1 DEF Noticed
  <2>5. \A q, r \in awaited' : q = r
    BY <1>1, <1>9 DEF RiskInv
  <2> QED
    BY <2>3, <2>4, <2>5
<1> QED
  BY <1>2, <1>9 DEF RiskInv

LEMMA RiskStepKeeps ==
  ASSUME RiskInv, [RiskNext]_riskVars
  PROVE  RiskInv'
<1>1. CASE StartRiskManager \/ AssessAtInterval
  <2>1. RiskUnmoved
    BY <1>1 DEF StartRiskManager, AssessAtInterval, PerformRiskAssessment, RiskUnmoved, riskGhosts
  <2> QED
    BY <2>1, RiskUnmovedKeeps
<1>2. CASE StopRiskManager \/ UpdateTrade \/ HalfAnIntervalPasses \/ UNCHANGED riskVars
  <2>1. RiskUnmoved
    BY <1>2 DEF StopRiskManager, UpdateTrade, HalfAnIntervalPasses, RiskUnmoved, riskGhosts, riskVars
  <2> QED
    BY <2>1, RiskUnmovedKeeps
<1>3. ASSUME NEW p \in RiskPositions, UpdatePriceData(p) PROVE RiskInv'
  <2>1. RiskUnmoved
    BY <1>3 DEF UpdatePriceData, RiskUnmoved, riskGhosts
  <2> QED
    BY <2>1, RiskUnmovedKeeps
<1> QED
  BY <1>1, <1>2, <1>3, AssessKeepsRisk, OpenedKeepsRisk, ClosedKeepsRisk DEF RiskNext

LEMMA RiskStart == RiskInit => RiskInv
<1> SUFFICES ASSUME RiskInit PROVE RiskInv
  OBVIOUS
<1>1. RiskTypes /\ awaited = {}
  BY DEF RiskInit, RiskTypes
<1>2. Dollars(status, cost) = {}
  BY DEF RiskInit, Dollars
<1>3. CalculateTotalExposure = 0
  BY <1>1, <1>2, DollarsAreFinite, FS_EmptySet DEF CalculateTotalExposure, RiskTypes
<1> QED
  BY <1>1, <1>3, LimitIsNat DEF RiskInv, Noticed

(* Trades that are assessed one by one never take the exposure over its limit without an
   alert, whatever opens, closes and is assessed in between. *)
THEOREM ExposureNoticed == RiskSpec => []ExposureIsAlerted
<1>1. RiskInv => ExposureIsAlerted
  BY DEF RiskInv, Noticed, ExposureIsAlerted
<1> QED
  BY <1>1, RiskStart, RiskStepKeeps, PTL DEF RiskSpec
-----------------------------------------------------------------------------
(***************************************************************************)
(* TransactionSimulator.  What the validation of the fee ends with tells   *)
(* whether the fee was seen, and the verdict keeps what it was drawn from. *)
(***************************************************************************)
SimulatorInv ==
  /\ validating = "reasonable" => transaction.fee <= maxGasFee
  /\ verdict = "valid" => \/ validating = "reasonable"
                          \/ validating = "defaults" /\ warned

LEMMA SimulatorStepKeeps ==
  ASSUME SimulatorInv, [SimulatorNext]_simulatorVars
  PROVE  SimulatorInv'
<1>1. CASE PrepareTransaction \/ SimulationAnswers \/ UNCHANGED simulatorVars
  BY <1>1 DEF PrepareTransaction, SimulationAnswers, simulatorVars, SimulatorInv
<1>2. CASE AskForFee
  BY <1>2 DEF AskForFee, SimulatorInv
<1>3. CASE FeeAnswers
  BY <1>3 DEF FeeAnswers, SimulatorInv
<1>4. CASE ConcludeValidation
  BY <1>4 DEF ConcludeValidation, SimulatorInv
<1> QED
  BY <1>1, <1>2, <1>3, <1>4 DEF SimulatorNext

(* However the requests of the simulation and of the validation of the fee overlap, and
   whichever fail, a fee above the maximum is not let through without the warning. *)
THEOREM HighFeesAreSaid == SimulatorSpec => []HighFeeIsSaid
<1>0. \A fee \in Fees : ~(fee > maxGasFee /\ fee <= maxGasFee)
  BY SimulatorAssumption
<1>1. SimulatorInit => SimulatorInv /\ transaction.fee \in Fees
  BY DEF SimulatorInit, SimulatorInv
<1>2. transaction.fee \in Fees /\ [SimulatorNext]_simulatorVars => (transaction.fee \in Fees)'
  BY DEF SimulatorNext, simulatorVars, PrepareTransaction, SimulationAnswers, AskForFee,
         FeeAnswers, ConcludeValidation
<1>3. SimulatorInv /\ transaction.fee \in Fees => HighFeeIsSaid
  BY <1>0 DEF SimulatorInv, HighFeeIsSaid
<1> QED
  BY <1>1, <1>2, <1>3, SimulatorStepKeeps, PTL DEF SimulatorSpec
-----------------------------------------------------------------------------
(***************************************************************************)
(* MarketData.  Whatever analyses overlap, a condition consists of what    *)
(* the tables are made for; then the tables agree, case by case.           *)
(***************************************************************************)
Conditions == [volatility : {"low", "medium", "high", "extreme"},
               sentiment : {"bearish", "neutral", "bullish"}, liquidity : 1..9]

MarketInv ==
  /\ trend \in [MarketTokens -> Trends]
  /\ monitoredTokens \in SUBSET MarketTokens
  /\ \A a \in Analyses : analysis[a] # NotAnalyzing =>
       analysis[a].token \in MarketTokens /\ analysis[a].found \in Trends
  /\ DOMAIN analysis = Analyses
  /\ marketConditions \in [MarketTokens -> Conditions \cup {NoCondition}]

(* The two tables never contradict each other. *)
LEMMA TablesAgree ==
  ASSUME NEW c \in Conditions, IsMarketFavorable(c)
  PROVE  ActionFor(c) \in {"buy", "hold"} /\ RiskOf(c) \in {"low", "medium"}
<1>0. c.liquidity \in 1..9
  BY DEF Conditions
<1>1. CASE c.sentiment = "bullish" /\ c.liquidity >= 6
  <2>1. RiskOf(c) = "low"
    BY <1>0, <1>1 DEF IsMarketFavorable, RiskOf
  <2>2. /\ c.liquidity >= 3 /\ ~(c.liquidity < 3) /\ c.sentiment = "bullish"
      /\ c.volatility # "extreme"
    BY <1>0, <1>1 DEF IsMarketFavorable
  <2>3. ActionFor(c) = "buy"
    BY <2>1, <2>2 DEF ActionFor
  <2> QED
    BY <2>1, <2>3
<1>2. CASE c.sentiment = "neutral" /\ c.liquidity >= 7
  <2>1. RiskOf(c) = "low"
    BY <1>2 DEF IsMarketFavorable
  <2>2. c.volatility # "extreme"
    BY DEF IsMarketFavorable
  <2> QED
    BY <1>0, <1>2, <2>1, <2>2 DEF ActionFor
<1> QED
  BY <1>1, <1>2 DEF IsMarketFavorable

(* An analysis goes on to a monitored token with its history, or ends. *)
LEMMA GoingOn ==
  ASSUME MarketInv, NEW a \in Analyses, NEW done, GoOn(a, done)
  PROVE  /\ DOMAIN analysis' = Analyses
         /\ \A b \in Analyses : analysis'[b] # NotAnalyzing =>
              analysis'[b].token \in MarketTokens /\ analysis'[b].found \in Trends
<1>1. CASE analysis' = [analysis EXCEPT ![a] = NotAnalyzing]
  BY <1>1 DEF MarketInv
<1>2. CASE \E t \in Analyzable(done) : analysis' = [analysis EXCEPT ![a] =
             [done |-> done \cup {t}, token |-> t, found |-> FoundIn(t), of |-> points[t]]]
  <2>1. PICK t \in Analyzable(done) : analysis' = [analysis EXCEPT ![a] =
             [done |-> done \cup {t}, token |-> t, found |-> FoundIn(t), of |-> points[t]]]
    BY <1>2
  <2>2. t \in MarketTokens /\ FoundIn(t) \in Trends
    BY DEF Analyzable, FoundIn, MarketInv
  <2>3. /\ DOMAIN analysis' = Analyses
        /\ analysis'[a].token = t /\ analysis'[a].found = FoundIn(t)
        /\ \A b \in Analyses \ {a} : analysis'[b] = analysis[b]
    BY <2>1 DEF MarketInv
  <2> QED
    BY <2>2, <2>3 DEF MarketInv
<1> QED
  BY <1>1, <1>2 DEF GoOn

LEMMA MarketStepKeeps ==
  ASSUME MarketInv, [MarketNext]_marketVars
  PROVE  MarketInv'
<1>1. ASSUME NEW t \in MarketTokens, StartTokenMonitoring(t) \/ StopMonitoringToken(t)
      PROVE  MarketInv'
  BY <1>1 DEF StartTokenMonitoring, StopMonitoringToken, analysisVars, MarketInv
<1>2. ASSUME NEW t \in MarketTokens, HandlePriceUpdate(t) PROVE MarketInv'
  <2>1. PICK r \in Trends : trend' = [trend EXCEPT ![t] = r]
    BY <1>2 DEF HandlePriceUpdate
  <2>2. UNCHANGED <<monitoredTokens, analysis, marketConditions>>
    BY <1>2 DEF HandlePriceUpdate, analysisVars
  <2> QED
    BY <2>1, <2>2 DEF MarketInv
<1>3. CASE StopAllMonitoring
  BY <1>3 DEF StopAllMonitoring, analysisVars, MarketInv
<1>4. CASE ShutdownMarketData
  BY <1>4 DEF ShutdownMarketData, MarketInv
<1>5. ASSUME NEW positions, UpdatePortfolioPositions(positions) PROVE MarketInv'
  BY <1>5 DEF UpdatePortfolioPositions, analysisVars, MarketInv
<1>6. ASSUME NEW a \in Analyses, PerformMarketAnalysis(a) PROVE MarketInv'
  <2>1. GoOn(a, {}) /\ UNCHANGED <<trend, monitoredTokens, marketConditions>>
    BY <1>6 DEF PerformMarketAnalysis
  <2> QED
    BY <2>1, GoingOn DEF MarketInv
<1>7. ASSUME NEW a \in Analyses, AnalyzeTokenMarketCondition(a) PROVE MarketInv'
  <2>1. /\ analysis[a] # NotAnalyzing
        /\ GoOn(a, analysis[a].done) /\ UNCHANGED <<trend, monitoredTokens>>
    BY <1>7 DEF AnalyzeTokenMarketCondition
  <2>2. PICK score \in LiquidityScores :
          marketConditions' = [marketConditions EXCEPT ![analysis[a].token] =
            [volatility |-> analysis[a].found.volatility,
             sentiment |-> analysis[a].found.sentiment, liquidity |-> score]]
    BY <1>7 DEF AnalyzeTokenMarketCondition
  <2>3. analysis[a].token \in MarketTokens /\ analysis[a].found \in Trends
    BY <2>1 DEF MarketInv
  <2>4. score \in 1..9
    BY MarketAssumption DEF LiquidityScores
  <2>5. [volatility |-> analysis[a].found.volatility,
         sentiment |-> analysis[a].found.sentiment, liquidity |-> score] \in Conditions
    BY <2>3, <2>4, MarketAssumption DEF Conditions
  <2>6. marketConditions' \in [MarketTokens -> Conditions \cup {NoCondition}]
    BY <2>2, <2>3, <2>5 DEF MarketInv
  <2> QED
    BY <2>1, <2>6, GoingOn DEF MarketInv
<1>8. CASE UNCHANGED marketVars
  BY <1>8 DEF marketVars, analysisVars, MarketInv
<1> QED
  BY <1>1, <1>2, <1>3, <1>4, <1>5, <1>6, <1>7, <1>8 DEF MarketNext

(* A market that is called favorable is never one to sell in or to avoid, nor one of high
   risk, however analyses, shutdowns and price updates follow each other. *)
THEOREM FavorableNeverRisky == MarketSpec => []FavorableIsSafe
<1>1. MarketInit => MarketInv
  BY DEF MarketInit, MarketInv
<1>2. MarketInv => FavorableIsSafe
  BY TablesAgree DEF MarketInv, FavorableIsSafe
<1> QED
  BY <1>1, <1>2, MarketStepKeeps, PTL DEF MarketSpec
-----------------------------------------------------------------------------
(***************************************************************************)
(* PriceFeedMonitor.  An alert is remembered for no longer than the        *)
(* breaker that gave it takes to open again.                               *)
(***************************************************************************)
Breakers == [state : {"closed", "open", "half-open"}, failureCount : 0..OpensAt,
             reopensIn : 0..OpenTime]

(* What was said of an opening is forgotten before the breaker closes, and what was said of
   a recovery before it may recover again. *)
ForgottenInTime(b, opening, recovery) ==
  /\ b.state # "open" => b.reopensIn = 0
  /\ opening + b.reopensIn >= AlertWindow
  /\ b.state # "closed" => recovery + b.reopensIn >= AlertWindow

MonitorInv ==
  /\ feedBreaker \in [MonitoredServices -> Breakers]
  /\ saidSince \in [Messages -> 0..AlertWindow]
  /\ \A s \in MonitoredServices :
       ForgottenInTime(feedBreaker[s], saidSince[<<"opened", s>>], saidSince[<<"recovered", s>>])

LEMMA Counted ==
  ASSUME NEW b \in Breakers
  PROVE  MoreFailures(b) \in 0..OpensAt /\ FewerFailures(b) \in 0..OpensAt
  BY MonitorAssumption DEF Breakers, MoreFailures, FewerFailures

LEMMA AreMessages ==
  ASSUME NEW s \in MonitoredServices
  PROVE  <<"opened", s>> \in Messages /\ <<"recovered", s>> \in Messages
  BY DEF Messages, Alerts

LEMMA AddedTypes ==
  ASSUME MonitorInv, NEW said, AddAlerts(said)
  PROVE  saidSince' \in [Messages -> 0..AlertWindow]
  BY MonitorAssumption DEF AddAlerts, MonitorInv

LEMMA SinceIsInt ==
  ASSUME MonitorInv, NEW m \in Messages
  PROVE  saidSince[m] \in Int
<1>1. saidSince[m] \in 0..AlertWindow
  BY DEF MonitorInv
<1>2. AlertWindow \in Int
  BY MonitorAssumption
<1> QED
  BY <1>1, <1>2

(* What is alerted of other services, or of other things, is not forgotten. *)
LEMMA OthersRemembered ==
  ASSUME MonitorInv, NEW said, AddAlerts(said), NEW m \in Messages, m \notin said
  PROVE  saidSince'[m] = saidSince[m]
  BY DEF AddAlerts, NewAlerts

LEMMA FailureKeepsMonitor ==
  ASSUME MonitorInv, NEW s \in MonitoredServices, RecordFailure(s)
  PROVE  /\ MonitorInv'
         /\ feedBreaker[s].state # "open" /\ feedBreaker'[s].state = "open"
              => <<"opened", s>> \in emitted'
         /\ feedBreaker[s].state # "closed" => feedBreaker'[s].state # "closed"
         /\ \A t \in MonitoredServices \ {s} : feedBreaker'[t] = feedBreaker[t]
<1> DEFINE b == feedBreaker[s]
<1>0. b \in Breakers /\ OpenTime \in Nat /\ AlertWindow \in 1..OpenTime
  BY MonitorAssumption DEF MonitorInv
<1>1. \A t \in MonitoredServices \ {s} : feedBreaker'[t] = feedBreaker[t]
  BY DEF RecordFailure, MonitorInv
<1>2. ASSUME NEW t \in MonitoredServices \ {s}
      PROVE  ForgottenInTime(feedBreaker[t], saidSince[<<"opened", t>>],
                             saidSince[<<"recovered", t>>])'
  <2>1. /\ saidSince'[<<"opened", t>>] = saidSince[<<"opened", t>>]
        /\ saidSince'[<<"recovered", t>>] = saidSince[<<"recovered", t>>]
    BY AreMessages, OthersRemembered DEF RecordFailure
  <2> QED
    BY <1>1, <2>1 DEF MonitorInv
<1>3. CASE OpensWith(b)
  <2>1. /\ feedBreaker' = [feedBreaker EXCEPT ![s] =
             [state |-> "open", failureCount |-> OpensAt, reopensIn |-> OpenTime]]
        /\ AddAlerts({<<"opened", s>>})
    BY <1>3 DEF RecordFailure
  <2>2. feedBreaker'[s] = [state |-> "open", failureCount |-> OpensAt, reopensIn |-> OpenTime]
    BY <2>1 DEF MonitorInv
  <2>3. feedBreaker' \in [MonitoredServices -> Breakers]
    BY <2>1, MonitorAssumption DEF MonitorInv, Breakers
  <2>4. saidSince' \in [Messages -> 0..AlertWindow]
    BY <2>1, AddedTypes
  <2>5. ForgottenInTime(feedBreaker[s], saidSince[<<"opened", s>>],
                        saidSince[<<"recovered", s>>])'
    <3>1. /\ saidSince'[<<"opened", s>>] \in 0..AlertWindow
          /\ saidSince'[<<"recovered", s>>] \in 0..AlertWindow
      BY <2>4, AreMessages
    <3> QED
      BY <1>0, <2>2, <3>1 DEF ForgottenInTime
  <2>6. MonitorInv'
    BY <1>2, <2>3, <2>4, <2>5 DEF MonitorInv
  <2>7. <<"opened", s>> \in emitted'
    <3>1. b.state = "closed"
      BY <1>3 DEF OpensWith
    <3>2. saidSince[<<"opened", s>>] >= AlertWindow
      <4>1. saidSince[<<"opened", s>>] \in 0..AlertWindow
        BY AreMessages DEF MonitorInv
      <4>2. ForgottenInTime(b, saidSince[<<"opened", s>>], saidSince[<<"recovered", s>>])
        BY DEF MonitorInv
      <4> QED
        BY <1>0, <3>1, <4>1, <4>2 DEF ForgottenInTime
    <3> QED
      BY <2>1, <3>2 DEF AddAlerts, NewAlerts
  <2> QED
    BY <1>1, <2>2, <2>6, <2>7
<1>4. CASE ~OpensWith(b)
  <2>1. /\ feedBreaker' = [feedBreaker EXCEPT ![s] =
             [feedBreaker[s] EXCEPT !.failureCount = MoreFailures(feedBreaker[s])]]
        /\ AddAlerts({})
    BY <1>4 DEF RecordFailure
  <2>2. feedBreaker'[s] = [b EXCEPT !.failureCount = MoreFailures(b)]
    BY <2>1 DEF MonitorInv
  <2>3. /\ feedBreaker'[s] \in Breakers
        /\ feedBreaker'[s].state = b.state /\ feedBreaker'[s].reopensIn = b.reopensIn
    BY <1>0, <2>2, Counted DEF Breakers
  <2>4. feedBreaker' \in [MonitoredServices -> Breakers]
    BY <2>1, <2>2, <2>3 DEF MonitorInv
  <2>5. saidSince' \in [Messages -> 0..AlertWindow]
    BY <2>1, AddedTypes
  <2>6. /\ saidSince'[<<"opened", s>>] = saidSince[<<"opened", s>>]
        /\ saidSince'[<<"recovered", s>>] = saidSince[<<"recovered", s>>]
    BY <2>1, AreMessages, OthersRemembered
  <2>7. ForgottenInTime(feedBreaker[s], saidSince[<<"opened", s>>],
                        saidSince[<<"recovered", s>>])'
    BY <2>3, <2>6 DEF ForgottenInTime, MonitorInv
  <2> QED
    BY <1>1, <1>2, <2>3, <2>4, <2>5, <2>7 DEF MonitorInv
<1> QED
  BY <1>3, <1>4

LEMMA SuccessKeepsMonitor ==
  ASSUME MonitorInv, NEW s \in MonitoredServices, RecordSuccess(s)
  PROVE  /\ MonitorInv'
         /\ feedBreaker[s].state # "closed" /\ feedBreaker'[s].state = "closed"
              => <<"recovered", s>> \in emitted'
         /\ feedBreaker[s].state # "open" => feedBreaker'[s].state # "open"
         /\ \A t \in MonitoredServices \ {s} : feedBreaker'[t] = feedBreaker[t]
<1> DEFINE b == feedBreaker[s]
<1>0. b \in Breakers /\ OpenTime \in Nat /\ AlertWindow \in 1..OpenTime
  BY MonitorAssumption DEF MonitorInv
<1>1. \A t \in MonitoredServices \ {s} : feedBreaker'[t] = feedBreaker[t]
  BY DEF RecordSuccess, MonitorInv
<1>2. ASSUME NEW t \in MonitoredServices \ {s}
      PROVE  ForgottenInTime(feedBreaker[t], saidSince[<<"opened", t>>],
                             saidSince[<<"recovered", t>>])'
  <2>1. /\ saidSince'[<<"opened", t>>] = saidSince[<<"opened", t>>]
        /\ saidSince'[<<"recovered", t>>] = saidSince[<<"recovered", t>>]
    BY AreMessages, OthersRemembered DEF RecordSuccess
  <2> QED
    BY <1>1, <2>1 DEF MonitorInv
<1>3. /\ saidSince'[<<"opened", s>>] = saidSince[<<"opened", s>>]
      /\ saidSince' \in [Messages -> 0..AlertWindow]
  <2> DEFINE said == IF b.state = "half-open" THEN {<<"recovered", s>>} ELSE {}
  <2>1. AddAlerts(said) /\ <<"opened", s>> \notin said
    BY DEF RecordSuccess
  <2> HIDE DEF said
  <2> QED
    BY <2>1, AreMessages, OthersRemembered, AddedTypes
<1>4. CASE b.state = "half-open"
  <2>1. /\ feedBreaker' = [feedBreaker EXCEPT ![s] = ClosedFeed]
        /\ AddAlerts({<<"recovered", s>>})
    BY <1>4 DEF RecordSuccess
  <2>2. feedBreaker'[s] = ClosedFeed /\ feedBreaker' \in [MonitoredServices -> Breakers]
    BY <2>1, MonitorAssumption DEF MonitorInv, Breakers, ClosedFeed
  <2>3. /\ saidSince[<<"opened", s>>] \in 0..AlertWindow
        /\ saidSince[<<"recovered", s>>] \in 0..AlertWindow
    BY AreMessages DEF MonitorInv
  <2>4. ForgottenInTime(b, saidSince[<<"opened", s>>], saidSince[<<"recovered", s>>])
    BY DEF MonitorInv
  <2>5. b.reopensIn = 0
    BY <1>4, <2>4 DEF ForgottenInTime
  <2>6. saidSince[<<"opened", s>>] >= AlertWindow /\ saidSince[<<"recovered", s>>] >= AlertWindow
    BY <1>0, <1>4, <2>3, <2>4, <2>5 DEF ForgottenInTime
  <2>7. ForgottenInTime(feedBreaker[s], saidSince[<<"opened", s>>],
                        saidSince[<<"recovered", s>>])'
    BY <1>0, <1>3, <2>2, <2>3, <2>6 DEF ForgottenInTime, ClosedFeed
  <2>8. <<"recovered", s>> \in emitted'
    BY <2>1, <2>6 DEF AddAlerts, NewAlerts
  <2>9. feedBreaker'[s].state = "closed"
    BY <2>2 DEF ClosedFeed
  <2> QED
    BY <1>1, <1>2, <1>3, <2>2, <2>7, <2>8, <2>9 DEF MonitorInv
<1>5. CASE b.state # "half-open"
  <2>1. AddAlerts({})
    BY <1>5 DEF RecordSuccess
  <2>2. \/ feedBreaker'[s] = [b EXCEPT !.failureCount = FewerFailures(b)]
        \/ feedBreaker'[s] = b
    BY <1>5 DEF RecordSuccess, MonitorInv
  <2>3. /\ feedBreaker'[s] \in Breakers
        /\ feedBreaker'[s].state = b.state /\ feedBreaker'[s].reopensIn = b.reopensIn
    BY <1>0, <2>2, Counted DEF Breakers
  <2>4. feedBreaker' \in [MonitoredServices -> Breakers]
    <3>1. DOMAIN feedBreaker' = MonitoredServices /\ feedBreaker' = [t \in MonitoredServices |-> feedBreaker'[t]]
      BY DEF RecordSuccess, MonitorInv
    <3>2. \A t \in MonitoredServices : feedBreaker'[t] \in Breakers
      BY <1>1, <2>3 DEF MonitorInv
    <3> QED
      BY <3>1, <3>2
  <2>5. saidSince'[<<"recovered", s>>] = saidSince[<<"recovered", s>>]
    <3>1. <<"recovered", s>> \in Messages /\ <<"recovered", s>> \notin {}
      BY AreMessages
    <3> QED
      BY <2>1, <3>1, OthersRemembered
  <2>6. ForgottenInTime(feedBreaker[s], saidSince[<<"opened", s>>],
                        saidSince[<<"recovered", s>>])'
    BY <1>3, <2>3, <2>5 DEF ForgottenInTime, MonitorInv
  <2> QED
    BY <1>1, <1>2, <1>3, <2>3, <2>4, <2>6 DEF MonitorInv
<1> QED
  BY <1>4, <1>5

(* The other steps neither open nor close a breaker. *)
NoneOpensOrCloses ==
  \A s \in MonitoredServices :
    /\ feedBreaker[s].state # "open" => feedBreaker'[s].state # "open"
    /\ feedBreaker[s].state # "closed" => feedBreaker'[s].state # "closed"

LEMMA HalfOpenKeepsMonitor ==
  ASSUME MonitorInv, NEW s \in MonitoredServices, BecomesHalfOpen(s)
  PROVE  MonitorInv' /\ NoneOpensOrCloses
<1>1. /\ feedBreaker[s].state = "open" /\ feedBreaker[s].reopensIn = 0
      /\ feedBreaker' = [feedBreaker EXCEPT ![s].state = "half-open"]
      /\ saidSince' = saidSince
  BY DEF BecomesHalfOpen
<1>2. feedBreaker' \in [MonitoredServices -> Breakers]
  BY <1>1 DEF MonitorInv, Breakers
<1>3. /\ feedBreaker'[s].state = "half-open" /\ feedBreaker'[s].reopensIn = 0
      /\ \A t \in MonitoredServices \ {s} : feedBreaker'[t] = feedBreaker[t]
  BY <1>1 DEF MonitorInv, Breakers
<1>4. ForgottenInTime(feedBreaker[s], saidSince[<<"opened", s>>],
                      saidSince[<<"recovered", s>>])'
  BY <1>1, <1>3 DEF MonitorInv, ForgottenInTime
<1> QED
  BY <1>1, <1>2, <1>3, <1>4 DEF MonitorInv, NoneOpensOrCloses

LEMMA TickKeepsMonitor ==
  ASSUME MonitorInv, MonitorTick
  PROVE  MonitorInv' /\ NoneOpensOrCloses
<1>0. OpenTime \in Nat /\ AlertWindow \in 1..OpenTime
  BY MonitorAssumption
<1>1. ASSUME NEW s \in MonitoredServices
      PROVE  /\ feedBreaker'[s] \in Breakers
             /\ feedBreaker'[s].state = feedBreaker[s].state
             /\ feedBreaker'[s].reopensIn =
                  IF feedBreaker[s].reopensIn > 0 THEN feedBreaker[s].reopensIn - 1 ELSE 0
  BY <1>0 DEF MonitorTick, MonitorInv, Breakers
<1>2. ASSUME NEW m \in Messages
      PROVE  /\ saidSince'[m] \in 0..AlertWindow
             /\ saidSince'[m] = IF saidSince[m] < AlertWindow THEN saidSince[m] + 1 ELSE AlertWindow
  BY <1>0 DEF MonitorTick, MonitorInv
<1>3. /\ feedBreaker' \in [MonitoredServices -> Breakers]
      /\ saidSince' \in [Messages -> 0..AlertWindow]
  BY <1>1, <1>2 DEF MonitorTick
<1>4. ASSUME NEW s \in MonitoredServices
      PROVE  ForgottenInTime(feedBreaker[s], saidSince[<<"opened", s>>],
                             saidSince[<<"recovered", s>>])'
  <2>1. /\ ForgottenInTime(feedBreaker[s], saidSince[<<"opened", s>>],
                           saidSince[<<"recovered", s>>])
        /\ feedBreaker[s].reopensIn \in Nat
        /\ saidSince[<<"opened", s>>] \in Nat /\ saidSince[<<"recovered", s>>] \in Nat
    BY <1>0, AreMessages DEF MonitorInv, Breakers
  <2>2. \A m \in {<<"opened", s>>, <<"recovered", s>>} :
          saidSince'[m] = IF saidSince[m] < AlertWindow THEN saidSince[m] + 1 ELSE AlertWindow
    BY <1>2, AreMessages
  <2> QED
    BY <1>0, <1>1, <2>1, <2>2 DEF ForgottenInTime
<1> QED
  BY <1>1, <1>3, <1>4 DEF MonitorInv, NoneOpensOrCloses

LEMMA QuietKeepsMonitor ==
  ASSUME MonitorInv, \/ PerformHealthCheck \/ StartHealthChecks \/ StopHealthChecks
                     \/ ShutdownMonitor \/ UNCHANGED monitorVars
  PROVE  MonitorInv' /\ NoneOpensOrCloses
<1>0. OpenTime \in Nat /\ AlertWindow \in 1..OpenTime
  BY MonitorAssumption
<1>1. feedBreaker' = feedBreaker
  BY DEF PerformHealthCheck, StartHealthChecks, StopHealthChecks, ShutdownMonitor, monitorVars
<1>2. /\ saidSince' \in [Messages -> 0..AlertWindow]
      /\ \A s \in MonitoredServices :
           /\ saidSince'[<<"opened", s>>] >= saidSince[<<"opened", s>>]
           /\ saidSince'[<<"recovered", s>>] >= saidSince[<<"recovered", s>>]
  <2>1. CASE PerformHealthCheck
    <3>1. PICK found \in SUBSET {m \in Messages : m[1] \in OfHealth} :
            AddAlerts(found \cup {<<"unavailable", s>> : s \in
                                    {t \in MonitoredServices : feedBreaker[t].state = "open"}})
      BY <2>1 DEF PerformHealthCheck
    <3> DEFINE said == found \cup {<<"unavailable", s>> : s \in
                                     {t \in MonitoredServices : feedBreaker[t].state = "open"}}
    <3>2. \A s \in MonitoredServices : <<"opened", s>> \notin said /\ <<"recovered", s>> \notin said
      BY DEF OfHealth
    <3>3. AddAlerts(said)
      BY <3>1
    <3> HIDE DEF said
    <3>4. saidSince' \in [Messages -> 0..AlertWindow]
      BY <3>3, AddedTypes
    <3>5. \A s \in MonitoredServices :
            /\ saidSince'[<<"opened", s>>] = saidSince[<<"opened", s>>]
            /\ saidSince'[<<"recovered", s>>] = saidSince[<<"recovered", s>>]
      BY <3>2, <3>3, AreMessages, OthersRemembered
    <3>6. \A s \in MonitoredServices :
            saidSince[<<"opened", s>>] \in Int /\ saidSince[<<"recovered", s>>] \in Int
      BY AreMessages, SinceIsInt
    <3> QED
      BY <3>4, <3>5, <3>6
  <2>2. CASE ShutdownMonitor
    <3>1. saidSince' = [m \in Messages |-> AlertWindow]
      BY <2>2 DEF ShutdownMonitor
    <3>2. \A s \in MonitoredServices :
            /\ saidSince[<<"opened", s>>] \in 0..AlertWindow
            /\ saidSince[<<"recovered", s>>] \in 0..AlertWindow
      BY AreMessages DEF MonitorInv
    <3> QED
      BY <1>0, <3>1, <3>2, AreMessages
  <2>3. CASE StartHealthChecks \/ StopHealthChecks \/ UNCHANGED monitorVars
    <3>1. saidSince' = saidSince
      BY <2>3 DEF StartHealthChecks, StopHealthChecks, monitorVars
    <3>2. \A s \in MonitoredServices :
            saidSince[<<"opened", s>>] \in Int /\ saidSince[<<"recovered", s>>] \in Int
      BY AreMessages, SinceIsInt
    <3> QED
      BY <3>1, <3>2 DEF MonitorInv
  <2> QED
    BY <2>1, <2>2, <2>3
<1>3. ASSUME NEW s \in MonitoredServices
      PROVE  ForgottenInTime(feedBreaker[s], saidSince[<<"opened", s>>],
                             saidSince[<<"recovered", s>>])'
  <2>1. /\ feedBreaker[s].reopensIn \in Nat
        /\ saidSince[<<"opened", s>>] \in Nat /\ saidSince[<<"recovered", s>>] \in Nat
        /\ saidSince'[<<"opened", s>>] \in Nat /\ saidSince'[<<"recovered", s>>] \in Nat
    BY <1>0, <1>2, AreMessages DEF MonitorInv, Breakers
  <2>2. ForgottenInTime(feedBreaker[s], saidSince[<<"opened", s>>],
                        saidSince[<<"recovered", s>>])
    BY DEF MonitorInv
  <2> QED
    BY <1>0, <1>1, <1>2, <2>1, <2>2 DEF ForgottenInTime
<1> QED
  BY <1>1, <1>2, <1>3 DEF MonitorInv, NoneOpensOrCloses

(* No opening and no recovery of a price service goes unsaid, for any thresholds, as long as
   a breaker stays open for the time that an alert is remembered. *)
THEOREM OutagesAreSaid == MonitorSpec => EveryOutageIsAlerted
<1>1. MonitorInit => MonitorInv
  <2> SUFFICES ASSUME MonitorInit PROVE MonitorInv
    OBVIOUS
  <2>1. \A s \in MonitoredServices :
          feedBreaker[s] = ClosedFeed /\ saidSince[<<"opened", s>>] = AlertWindow
    BY AreMessages DEF MonitorInit
  <2> QED
    BY <2>1, MonitorAssumption
       DEF MonitorInit, MonitorInv, Breakers, ClosedFeed, ForgottenInTime
<1>2. MonitorInv /\ [MonitorNext]_monitorVars =>
        /\ MonitorInv'
        /\ \A s \in MonitoredServices :
             /\ feedBreaker[s].state # "open" /\ feedBreaker'[s].state = "open"
                  => <<"opened", s>> \in emitted'
             /\ feedBreaker[s].state # "closed" /\ feedBreaker'[s].state = "closed"
                  => <<"recovered", s>> \in emitted'
  <2> SUFFICES ASSUME MonitorInv, [MonitorNext]_monitorVars
               PROVE  /\ MonitorInv'
                      /\ \A s \in MonitoredServices :
                           /\ feedBreaker[s].state # "open" /\ feedBreaker'[s].state = "open"
                                => <<"opened", s>> \in emitted'
                           /\ feedBreaker[s].state # "closed" /\ feedBreaker'[s].state = "closed"
                                => <<"recovered", s>> \in emitted'
    OBVIOUS
  <2>1. CASE \E s \in MonitoredServices : RecordFailure(s)
    BY <2>1, FailureKeepsMonitor
  <2>2. CASE \E s \in MonitoredServices : RecordSuccess(s)
    BY <2>2, SuccessKeepsMonitor
  <2>3. CASE \E s \in MonitoredServices : BecomesHalfOpen(s)
    BY <2>3, HalfOpenKeepsMonitor DEF NoneOpensOrCloses
  <2>4. CASE \/ PerformHealthCheck \/ StartHealthChecks \/ StopHealthChecks
             \/ ShutdownMonitor \/ UNCHANGED monitorVars
    BY <2>4, QuietKeepsMonitor DEF NoneOpensOrCloses
  <2>5. CASE MonitorTick
    BY <2>5, TickKeepsMonitor DEF NoneOpensOrCloses
  <2> QED
    BY <2>1, <2>2, <2>3, <2>4, <2>5 DEF MonitorNext
<1> QED
  BY <1>1, <1>2, PTL DEF MonitorSpec, EveryOutageIsAlerted
-----------------------------------------------------------------------------
(***************************************************************************)
(* SlippageProtection.  How long ago a cached volatility was the true one  *)
(* is never more than how long ago it was computed.                        *)
(***************************************************************************)
SlippageInv ==
  /\ volatility \in Volatility /\ cachedFor \in 0..2 /\ trueFor \in [Volatility -> 0..2]
  /\ trueFor[volatility] = 0
  /\ cachedFor < 2 => cached \in Volatility /\ trueFor[cached] <= cachedFor
  /\ limits # NoLimits => limits.used \in Volatility /\ trueFor[limits.used] < 2

LEMMA CappedAtTwo ==
  ASSUME NEW n \in 0..2
  PROVE  Min({2, n + 1}) = IF n < 2 THEN n + 1 ELSE 2
<1> DEFINE m == IF n < 2 THEN n + 1 ELSE 2
<1>1. m \in {2, n + 1} /\ \A y \in {2, n + 1} : m <= y
  OBVIOUS
<1>2. \A x \in {2, n + 1} : (\A y \in {2, n + 1} : x <= y) => x = m
  OBVIOUS
<1> HIDE DEF m
<1>3. Min({2, n + 1}) = m
  BY <1>1, <1>2 DEF Min
<1> QED
  BY <1>3 DEF m

LEMMA SlippageStepKeeps ==
  ASSUME SlippageInv, [SlippageNext]_slippageVars
  PROVE  SlippageInv'
<1>1. ASSUME NEW amount \in Amounts, AskForLimits(amount) PROVE SlippageInv'
  <2>1. UNCHANGED <<volatility, trueFor>> /\ GetVolatilityMetrics /\ limits'.used = cached'
    BY <1>1 DEF AskForLimits
  <2>2. /\ cachedFor' \in 0..2 /\ cachedFor' < 2
        /\ cached' \in Volatility /\ trueFor[cached'] <= cachedFor'
    BY <2>1 DEF GetVolatilityMetrics, SlippageInv
  <2>3. trueFor[cached'] \in 0..2
    BY <2>2 DEF SlippageInv
  <2>4. trueFor[cached'] < 2
    BY <2>2, <2>3
  <2> QED
    BY <2>1, <2>2, <2>4 DEF SlippageInv
<1>2. ASSUME NEW v \in Volatility, PricesChange(v) PROVE SlippageInv'
  <2>1. /\ volatility' = v /\ trueFor' = [trueFor EXCEPT ![v] = 0] /\ limits' = NoLimits
        /\ UNCHANGED <<cachedFor, cached>>
    BY <1>2 DEF PricesChange
  <2>2. trueFor' \in [Volatility -> 0..2] /\ trueFor'[v] = 0
    BY <2>1 DEF SlippageInv
  <2>3. cachedFor < 2 => trueFor'[cached] <= cachedFor
    BY <2>1 DEF SlippageInv
  <2> QED
    BY <2>1, <2>2, <2>3 DEF SlippageInv
<1>3. CASE \/ \E l \in PoolLiquidity : UpdateLiquidityData(l)
           \/ \E t \in TripTimers : TriggerCircuitBreaker(t)
  <2>1. UNCHANGED <<volatility, cachedFor, cached, trueFor>> /\ limits' = NoLimits
    BY <1>3 DEF UpdateLiquidityData, TriggerCircuitBreaker
  <2> QED
    BY <2>1 DEF SlippageInv
<1>4. CASE TimePasses
  <2>1. /\ cachedFor' = Min({2, cachedFor + 1})
        /\ trueFor' = [v \in Volatility |->
                         IF v = volatility THEN 0 ELSE Min({2, trueFor[v] + 1})]
        /\ limits' = NoLimits /\ UNCHANGED <<volatility, cached>>
    BY <1>4 DEF TimePasses
  <2>2. /\ cachedFor' = IF cachedFor < 2 THEN cachedFor + 1 ELSE 2
        /\ cachedFor' \in 0..2
    BY <2>1, CappedAtTwo DEF SlippageInv
  <2>3. ASSUME NEW v \in Volatility
        PROVE  /\ trueFor'[v] \in 0..2
               /\ trueFor[v] < 2 => trueFor'[v] <= trueFor[v] + 1
    <3>1. trueFor[v] \in 0..2
      BY DEF SlippageInv
    <3>2. Min({2, trueFor[v] + 1}) = IF trueFor[v] < 2 THEN trueFor[v] + 1 ELSE 2
      BY <3>1, CappedAtTwo
    <3>3. trueFor'[v] = IF v = volatility THEN 0 ELSE Min({2, trueFor[v] + 1})
      BY <2>1
    <3> QED
      BY <3>1, <3>2, <3>3
  <2>4. trueFor' \in [Volatility -> 0..2] /\ trueFor'[volatility] = 0
    BY <2>1, <2>3 DEF SlippageInv
  <2>5. cachedFor' < 2 => cached \in Volatility /\ trueFor'[cached] <= cachedFor'
    <3> SUFFICES ASSUME cachedFor' < 2
                 PROVE  cached \in Volatility /\ trueFor'[cached] <= cachedFor'
      OBVIOUS
    <3>1. cachedFor < 2 /\ cachedFor' = cachedFor + 1 /\ cachedFor \in 0..2
      BY <2>2 DEF SlippageInv
    <3>2. cached \in Volatility /\ trueFor[cached] <= cachedFor /\ trueFor[cached] \in 0..2
      BY <3>1 DEF SlippageInv
    <3>3. trueFor'[cached] \in 0..2 /\ (trueFor[cached] < 2 => trueFor'[cached] <= trueFor[cached] + 1)
      BY <2>3, <3>2
    <3> QED
      BY <3>1, <3>2, <3>3
  <2> QED
    BY <2>1, <2>2, <2>4, <2>5 DEF SlippageInv
<1>5. CASE UNCHANGED slippageVars
  BY <1>5 DEF slippageVars, SlippageInv, NoLimits
<1> QED
  BY <1>1, <1>2, <1>3, <1>4, <1>5 DEF SlippageNext

(* A limit never rests on a volatility that has not been true for a minute, however prices
   change and however often limits are asked for. *)
THEOREM VolatilityFresh == SlippageSpec => []VolatilityIsRecent
<1>1. SlippageInit => SlippageInv
  BY DEF SlippageInit, SlippageInv
<1>2. SlippageInv => VolatilityIsRecent
  BY DEF SlippageInv, VolatilityIsRecent
<1> QED
  BY <1>1, <1>2, SlippageStepKeeps, PTL DEF SlippageSpec
-----------------------------------------------------------------------------
(***************************************************************************)
(* PositionMachine, the synchronous one.  It takes every step that         *)
(* PositionLifecycle allows and no other; what it says of a position       *)
(* agrees with the latest price and with how the position was closed.      *)
(***************************************************************************)
Trail == INSTANCE PositionLifecycle_proofs
  WITH Rules <- BaseRules, state <- currentState, history <- stateHistory

LEMMA BaseTable == BaseRules \subseteq States \X Triggers \X States
  BY DEF BaseRules, States, Triggers

LEMMA TrailFormed == Trail!WellFormed
  BY HistoryAssumption
  DEF Trail!WellFormed, BaseRules, States, Triggers, Trail!States, Trail!Triggers

(* Every step of the machine is a rule taken from the current state, a forced change, or
   leaves state and history alone. *)
THEOREM MachineImplements == MachineSpec => LifecycleSpec
<1>1. MachineInit => Lifecycle!Init
  BY DEF MachineInit, Lifecycle!Init
<1>2. [MachineNext]_machineVars => [Lifecycle!Next]_(Lifecycle!vars)
  <2> SUFFICES ASSUME [MachineNext]_machineVars
               PROVE  Lifecycle!Next \/ UNCHANGED <<currentState, stateHistory>>
    BY DEF Lifecycle!vars
  <2>1. ASSUME NEW t \in Triggers, NEW u \in CallerUpdates, Transition(t, u)
        PROVE  Lifecycle!Next \/ UNCHANGED <<currentState, stateHistory>>
    <3>1. CASE \E rule \in Applicable(BaseRules, currentState, t) :
                 /\ currentState' = rule[3]
                 /\ stateHistory' = Lifecycle!Record(stateHistory, rule[3], t)
      BY <3>1 DEF Lifecycle!Next, Lifecycle!Transition, Applicable, Lifecycle!Applicable,
                  Triggers, Lifecycle!Triggers
    <3> QED
      BY <2>1, <3>1 DEF Transition
  <2>2. ASSUME NEW s \in States, ForceState(s) PROVE Lifecycle!Next
    BY <2>2 DEF ForceState, Lifecycle!Next, Lifecycle!ForceState, States, Lifecycle!States
  <2>3. ASSUME NEW p \in Prices, UpdatePrice(p) PROVE UNCHANGED <<currentState, stateHistory>>
    BY <2>3 DEF UpdatePrice
  <2> QED
    BY <2>1, <2>2, <2>3 DEF MachineNext, machineVars
<1> QED
  BY <1>1, <1>2, PTL DEF MachineSpec, LifecycleSpec, Lifecycle!Spec

(* PositionLifecycle and the module of its proofs name the same behaviours. *)
LEMMA SameTrail == Lifecycle!Spec <=> Trail!Spec
  BY PTL DEF Lifecycle!Spec, Lifecycle!Init, Lifecycle!Next, Lifecycle!vars, Lifecycle!Transition,
             Lifecycle!ForceState, Lifecycle!Applicable, Lifecycle!Record, Lifecycle!States,
             Lifecycle!Triggers, Trail!Spec, Trail!Init, Trail!Next, Trail!vars,
             Trail!Transition, Trail!ForceState, Trail!Applicable, Trail!Record,
             Trail!States, Trail!Triggers

(* The history of the synchronous machine ends in its state, and every entry but a forced
   one follows from the one before by a rule. *)
THEOREM MachineAudited == MachineSpec => []Lifecycle!HistoryFollowsRules
<1>1. Trail!Spec => [](Trail!TypeOK /\ Trail!HistoryFollowsRules)
  BY TrailFormed, Trail!Truthful
<1>2. Trail!HistoryFollowsRules => Lifecycle!HistoryFollowsRules
  BY DEF Lifecycle!HistoryFollowsRules, Trail!HistoryFollowsRules
<1> QED
  BY <1>1, <1>2, MachineImplements, SameTrail, PTL DEF LifecycleSpec

(* The last entry of the history is the change that was just made. *)
LEMMA RecordedLast ==
  ASSUME NEW h \in Seq(Lifecycle!Entry), Len(h) \in 1..MaxHistory,
         NEW s \in States, NEW t \in Triggers \cup {NoTrigger}
  PROVE  LET r == Lifecycle!Record(h, s, t)
         IN  /\ r \in Seq(Lifecycle!Entry)
             /\ Len(r) \in 1..MaxHistory
             /\ r[Len(r)].trigger = t
<1>1. /\ Lifecycle!Entry = Trail!Entry /\ Lifecycle!Record(h, s, t) = Trail!Record(h, s, t)
      /\ s \in Trail!States /\ t \in Trail!Triggers \cup {NoTrigger}
  BY DEF Lifecycle!Entry, Trail!Entry, Lifecycle!States, Trail!States, Lifecycle!Triggers,
         Trail!Triggers, Lifecycle!Record, Trail!Record, States, Triggers
<1>2. h \in Seq(Trail!Entry) /\ Len(h) \in 0..MaxHistory
  BY <1>1, HistoryAssumption
<1>3. LET r == Trail!Record(h, s, t)
      IN  /\ r \in Seq(Trail!Entry)
          /\ Len(r) \in 1..MaxHistory
          /\ r[Len(r)] = [state |-> s, trigger |-> t]
  BY <1>1, <1>2, TrailFormed, Trail!RecordFacts
<1> QED
  BY <1>1, <1>3

MachineInv == MachineTypes /\ PnlMatchesPrice /\ ClosedIsStamped

(* Updates that keep price and PnL in agreement and never take a stamp away. *)
Harmless(u) ==
  /\ DOMAIN u \in SUBSET Fields
  /\ \A f \in DOMAIN u : u[f] \in Values
  /\ "price" \in DOMAIN u <=> "pnl" \in DOMAIN u
  /\ "price" \in DOMAIN u => u["price"] = u["pnl"]
  /\ "exitTimestamp" \in DOMAIN u => u["exitTimestamp"] = Stamped

LEMMA HarmlessUpdates ==
  /\ Harmless(NoUpdates)
  /\ \A r \in Reasons : Harmless(ReasonUpdate(r))
  /\ \A p \in Prices : Harmless(PriceUpdate(p))
  BY DEF NoUpdates, ReasonUpdate, PriceUpdate, Harmless, Fields, Values

LEMMA HarmlessSpread ==
  ASSUME NEW ctx \in [Fields -> Values], ctx["pnl"] = ctx["price"], NEW u, Harmless(u)
  PROVE  /\ Spread(ctx, u) \in [Fields -> Values]
         /\ Spread(ctx, u)["pnl"] = Spread(ctx, u)["price"]
         /\ ctx["exitTimestamp"] = Stamped => Spread(ctx, u)["exitTimestamp"] = Stamped
<1>1. {"price", "pnl", "exitTimestamp"} \subseteq Fields
  BY DEF Fields
<1>2. \A f \in Fields : Spread(ctx, u)[f] = IF f \in DOMAIN u THEN u[f] ELSE ctx[f]
  BY DEF Spread
<1>3. Spread(ctx, u) \in [Fields -> Values]
  BY DEF Spread, Harmless
<1> QED
  BY <1>1, <1>2, <1>3 DEF Harmless

(* What the action of a rule writes: the PnL of the price that is there, and a stamp. *)
LEMMA RuleWriteFacts ==
  ASSUME NEW ctx \in [Fields -> Values], ctx["pnl"] = ctx["price"], NEW rule \in BaseRules
  PROVE  LET new == Spread(ctx, RuleWrites(rule, ctx))
         IN  /\ new \in [Fields -> Values]
             /\ new["pnl"] = new["price"]
             /\ ctx["exitTimestamp"] = Stamped => new["exitTimestamp"] = Stamped
             /\ rule[3] = "CLOSED" => new["exitTimestamp"] = Stamped
<1> DEFINE new == Spread(ctx, RuleWrites(rule, ctx))
<1>0. /\ ctx["price"] \in Values /\ ctx["exitReason"] \in Values
      /\ Stamped \in Values /\ DefaultReason \in Values
      /\ "price" \in Fields /\ "pnl" \in Fields /\ "exitTimestamp" \in Fields
      /\ "exitReason" \in Fields
  BY DefaultReasonAssumption DEF Fields, Values
<1>1. CASE RuleWrites(rule, ctx) = ClosedPnl(ctx)
  <2>1. \A f \in Fields : new[f] = IF f = "pnl" THEN ctx["price"]
                                   ELSE IF f = "exitTimestamp" THEN Stamped ELSE ctx[f]
    BY <1>1 DEF Spread, ClosedPnl
  <2>2. new \in [Fields -> Values]
    BY <1>0, <1>1 DEF Spread, ClosedPnl
  <2> QED
    BY <1>0, <2>1, <2>2
<1>2. CASE RuleWrites(rule, ctx) = StampOnly
  <2>1. \A f \in Fields : new[f] = IF f = "exitTimestamp" THEN Stamped ELSE ctx[f]
    BY <1>2 DEF Spread, StampOnly
  <2>2. new \in [Fields -> Values]
    BY <1>0, <1>2 DEF Spread, StampOnly
  <2> QED
    BY <1>0, <2>1, <2>2
<1>3. CASE RuleWrites(rule, ctx) = ForcedClose(ctx, DefaultReason)
  <2>1. \A f \in Fields \ {"exitReason"} :
          new[f] = IF f = "exitTimestamp" THEN Stamped ELSE ctx[f]
    BY <1>3 DEF Spread, ForcedClose
  <2>2. new \in [Fields -> Values]
    BY <1>0, <1>3 DEF Spread, ForcedClose
  <2> QED
    BY <1>0, <2>1, <2>2
<1>4. CASE RuleWrites(rule, ctx) = NoUpdates /\ rule[3] # "CLOSED"
  <2>1. Harmless(RuleWrites(rule, ctx))
    BY <1>4, HarmlessUpdates
  <2> QED
    BY <1>4, <2>1, HarmlessSpread
<1>5. rule[3] = "CLOSED" => rule[1] \in {"EXITING", "ERROR"}
  BY DEF BaseRules, States
<1> QED
  BY <1>1, <1>2, <1>3, <1>4, <1>5 DEF RuleWrites

LEMMA TransitionKeepsMachine ==
  ASSUME MachineInv, NEW t \in Triggers, NEW u \in CallerUpdates, Transition(t, u)
  PROVE  MachineInv'
<1> DEFINE given == Spread(context, u)
<1>1. Harmless(u)
  BY HarmlessUpdates DEF CallerUpdates
<1>2. /\ given \in [Fields -> Values] /\ given["pnl"] = given["price"]
      /\ context["exitTimestamp"] = Stamped => given["exitTimestamp"] = Stamped
  BY <1>1, HarmlessSpread DEF MachineInv, MachineTypes, PnlMatchesPrice
<1>3. CASE context' = given /\ UNCHANGED <<currentState, stateHistory>>
  BY <1>2, <1>3 DEF MachineInv, MachineTypes, PnlMatchesPrice, ClosedIsStamped
<1>4. ASSUME NEW rule \in Applicable(BaseRules, currentState, t),
             currentState' = rule[3],
             context' = Spread(given, RuleWrites(rule, given)),
             stateHistory' = Lifecycle!Record(stateHistory, rule[3], t)
      PROVE  MachineInv'
  <2>1. rule \in BaseRules /\ rule[3] \in States
    BY BaseTable DEF Applicable
  <2>2. /\ context' \in [Fields -> Values] /\ context'["pnl"] = context'["price"]
        /\ rule[3] = "CLOSED" => context'["exitTimestamp"] = Stamped
    BY <1>2, <1>4, <2>1, RuleWriteFacts
  <2>3. stateHistory' \in Seq(Lifecycle!Entry) /\ Len(stateHistory') \in 1..MaxHistory
    BY <1>4, <2>1, RecordedLast DEF MachineInv, MachineTypes
  <2> QED
    BY <1>4, <2>1, <2>2, <2>3 DEF MachineInv, MachineTypes, PnlMatchesPrice, ClosedIsStamped
<1> QED
  BY <1>3, <1>4 DEF Transition

LEMMA MachineStepKeeps ==
  ASSUME MachineInv, [MachineNext]_machineVars
  PROVE  MachineInv'
<1>1. ASSUME NEW p \in Prices, UpdatePrice(p) PROVE MachineInv'
  <2>1. context' = Spread(context, PriceUpdate(p)) /\ UNCHANGED <<currentState, stateHistory>>
    BY <1>1 DEF UpdatePrice
  <2>2. Harmless(PriceUpdate(p))
    BY HarmlessUpdates
  <2>3. /\ context' \in [Fields -> Values] /\ context'["pnl"] = context'["price"]
        /\ context["exitTimestamp"] = Stamped => context'["exitTimestamp"] = Stamped
    BY <2>1, <2>2, HarmlessSpread DEF MachineInv, MachineTypes, PnlMatchesPrice
  <2> QED
    BY <2>1, <2>3 DEF MachineInv, MachineTypes, PnlMatchesPrice, ClosedIsStamped
<1>2. ASSUME NEW s \in States, ForceState(s) PROVE MachineInv'
  <2>1. /\ currentState' = s /\ stateHistory' = Lifecycle!Record(stateHistory, s, NoTrigger)
        /\ context' = context
    BY <1>2 DEF ForceState
  <2>2. /\ stateHistory' \in Seq(Lifecycle!Entry) /\ Len(stateHistory') \in 1..MaxHistory
        /\ stateHistory'[Len(stateHistory')].trigger = NoTrigger
    BY <2>1, RecordedLast DEF MachineInv, MachineTypes
  <2>3. NoTrigger # "EXIT_COMPLETED"
    BY HistoryAssumption DEF Triggers
  <2> QED
    BY <2>1, <2>2, <2>3 DEF MachineInv, MachineTypes, PnlMatchesPrice, ClosedIsStamped
<1>3. CASE UNCHANGED machineVars
  BY <1>3 DEF machineVars, MachineInv, MachineTypes, PnlMatchesPrice, ClosedIsStamped
<1> QED
  BY <1>1, <1>2, <1>3, TransitionKeepsMachine DEF MachineNext

LEMMA MachineStart == MachineInit => MachineInv
<1> SUFFICES ASSUME MachineInit PROVE MachineInv
  OBVIOUS
<1>1. Trail!Init
  BY DEF MachineInit, Trail!Init, Trail!Record, Lifecycle!Record
<1>2. Trail!TypeOK
  BY <1>1, TrailFormed, Trail!InitFacts
<1>3. stateHistory \in Seq(Lifecycle!Entry) /\ Len(stateHistory) \in 1..MaxHistory
  BY <1>2 DEF Trail!TypeOK, Trail!Entry, Lifecycle!Entry, Trail!States, Lifecycle!States,
              Trail!Triggers, Lifecycle!Triggers
<1>4. context \in [Fields -> Values] /\ context["pnl"] = context["price"]
  BY DEF MachineInit, InitialContext, Fields, Values
<1>5. currentState = "CREATED" /\ "CREATED" \in States
  BY DEF MachineInit, States
<1> QED
  BY <1>3, <1>4, <1>5 DEF MachineInv, MachineTypes, PnlMatchesPrice, ClosedIsStamped

(* The synchronous machine shows the PnL of the latest price at every moment, and stamps the
   exit of whatever it closes by a rule. *)
THEOREM MachineAgrees == MachineSpec => [](PnlMatchesPrice /\ ClosedIsStamped)
  BY MachineStart, MachineStepKeeps, PTL DEF MachineSpec, MachineInv
=============================================================================
