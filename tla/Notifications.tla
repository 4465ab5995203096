--------------------------- MODULE Notifications ---------------------------
(***************************************************************************)
(* NotificationSystem: notifications go through the rules they match, in   *)
(* order, and through each rule's channels.  A rule's limits are read      *)
(* before the first channel is awaited and updated after the last, and     *)
(* calls of sendNotification() overlap.                                    *)
(***************************************************************************)
EXTENDS Naturals, Sequences, FiniteSets

CONSTANTS Senders,     \* calls of sendNotification() that may overlap
          Channels,
          RuleOrder,   \* the rules' ids, in the order they were added
          ChannelsOf,  \* the channels of each rule, a sequence
          MaxPerHour,  \* of each rule; 0 is none
          Cooldown,    \* of each rule, in ticks; 0 is none
          Hour,        \* the length of an hour, in ticks
          MaxSends     \* bound: notifications of a behaviour

RuleIds == { RuleOrder[i] : i \in DOMAIN RuleOrder }

ASSUME HourAssumption == Hour \in Nat \ {0} /\ MaxSends \in Nat
ASSUME SendersAssumption == IsFiniteSet(Senders)
ASSUME RulesAssumption == MaxPerHour \in [RuleIds -> Nat]

VARIABLES registered,    \* the channels that were not removed
          hourlyCounts,  \* of each rule: the ages of the notifications that count
          cooldowns,     \* of each rule: the age of the latest send, Hour when older or none
          job,           \* of each sender: its notification, the rules left, and the
                         \* channels left of the first
          sends          \* notifications so far

limits == <<hourlyCounts, cooldowns>>
notificationVars == <<registered, limits, job, sends>>

Idle == [id |-> 0, rules |-> <<>>, channels |-> <<>>, sending |-> FALSE]
NoSends == [n \in {} |-> 0]

NotificationInit ==
  /\ registered = Channels
  /\ hourlyCounts = [r \in RuleIds |-> NoSends] /\ cooldowns = [r \in RuleIds |-> Hour]
  /\ job = [s \in Senders |-> Idle]
  /\ sends = 0
-----------------------------------------------------------------------------
(* A faulty variant: the cooldown is looked at instead of the hourly count. *)
CanSendByCooldown(r) == Cooldown[r] = 0 \/ cooldowns[r] >= Cooldown[r]

(* canSendForRule() *)
Recent(ages) == { n \in DOMAIN ages : ages[n] < Hour }
CanSendForRule(r) ==
  /\ Cooldown[r] = 0 \/ cooldowns[r] >= Cooldown[r]
  /\ MaxPerHour[r] = 0 \/ Cardinality(Recent(hourlyCounts[r])) < MaxPerHour[r]

(* updateRuleLimits(): the notification counts from now on, old ones no longer. *)
Counted(ages, id) == [n \in Recent(ages) \cup {id} |-> IF n = id THEN 0 ELSE ages[n]]
UpdateRuleLimits(r, id) ==
  /\ cooldowns' = IF Cooldown[r] = 0 THEN cooldowns ELSE [cooldowns EXCEPT ![r] = 0]
  /\ hourlyCounts' = IF MaxPerHour[r] = 0 THEN hourlyCounts
                     ELSE [hourlyCounts EXCEPT ![r] = Counted(@, id)]

(***************************************************************************)
(* sendNotification(): the rules it matches that are enabled may be any,   *)
(* whatever addRule() and setRuleEnabled() were called for.                *)
(***************************************************************************)
Send(s, matching) ==
  /\ ~job[s].sending /\ sends < MaxSends /\ sends' = sends + 1
  /\ matching # {}
  /\ job' = [job EXCEPT ![s] = [id |-> sends + 1,
                                rules |-> SelectSeq(RuleOrder, LAMBDA r : r \in matching),
                                channels |-> <<>>, sending |-> TRUE]]
  /\ UNCHANGED <<registered, limits>>

Between(s) == job[s].sending /\ job[s].channels = <<>>

(* The next rule is passed over ... *)
SkipRule(s) ==
  /\ Between(s) /\ job[s].rules # <<>> /\ ~CanSendForRule(Head(job[s].rules))
  /\ job' = [job EXCEPT ![s].rules = Tail(@)]
  /\ UNCHANGED <<registered, limits, sends>>

(* ... or its channels are taken one after the other. *)
BeginRule(s) ==
  /\ Between(s) /\ job[s].rules # <<>> /\ CanSendForRule(Head(job[s].rules))
  /\ job' = [job EXCEPT ![s].channels = ChannelsOf[Head(job[s].rules)]]
  /\ UNCHANGED <<registered, limits, sends>>

(* After the last channel the limits are updated, and the next rule's turn comes. *)
Onwards(s) ==
  LET channels == Tail(job[s].channels)
  IN IF channels # <<>>
     THEN job' = [job EXCEPT ![s].channels = channels] /\ UNCHANGED limits
     ELSE /\ job' = [job EXCEPT ![s].channels = <<>>, ![s].rules = Tail(@)]
          /\ UpdateRuleLimits(Head(job[s].rules), job[s].id)

(* A channel's turn is over: it has answered, or is disabled or not there. *)
ChannelAnswers(s) == /\ job[s].channels # <<>> /\ Onwards(s)
                     /\ UNCHANGED <<registered, sends>>

(***************************************************************************)
(* The channel was removed while it was asked: its statistics are gone,    *)
(* and the assignment to them throws, in the handler of the error too.     *)
(* The rest of the call, the limits included, is skipped.                  *)
(***************************************************************************)
ChannelGone(s) ==
  /\ job[s].channels # <<>> /\ Head(job[s].channels) \notin registered
  /\ job' = [job EXCEPT ![s] = Idle]
  /\ UNCHANGED <<registered, limits, sends>>

Sent(s) == /\ Between(s) /\ job[s].rules = <<>>
           /\ job' = [job EXCEPT ![s] = Idle]
           /\ UNCHANGED <<registered, limits, sends>>

RemoveChannel(c) == /\ c \in registered /\ registered' = registered \ {c}
                    /\ UNCHANGED <<limits, job, sends>>

Aged(a) == IF a < Hour THEN a + 1 ELSE a
Tick == /\ hourlyCounts' = [r \in RuleIds |-> [n \in DOMAIN hourlyCounts[r] |-> Aged(hourlyCounts[r][n])]]
        /\ cooldowns' = [r \in RuleIds |-> Aged(cooldowns[r])]
        /\ UNCHANGED <<registered, job, sends>>

NotificationNext ==
  \/ \E s \in Senders : \/ \E m \in SUBSET RuleIds : Send(s, m)
                        \/ SkipRule(s) \/ BeginRule(s) \/ ChannelAnswers(s)
                        \/ ChannelGone(s) \/ Sent(s)
  \/ \E c \in Channels : RemoveChannel(c)
  \/ Tick

NotificationSpec == NotificationInit /\ [][NotificationNext]_notificationVars
-----------------------------------------------------------------------------
(* The sends of a rule in the past hour, and those on their way. *)
OnTheirWay(r) == { s \in Senders : job[s].channels # <<>> /\ Head(job[s].rules) = r }
InTheHour(r) == Cardinality(Recent(hourlyCounts[r])) + Cardinality(OnTheirWay(r))

(***************************************************************************)
(* The hourly limit is read before the channels answer and counted after:  *)
(* calls that overlap exceed it, but by no more than the calls there are,  *)
(* as long as no channel is removed.                                       *)
(***************************************************************************)
OvershootBounded ==
  registered = Channels =>
    \A r \in RuleIds : MaxPerHour[r] > 0 =>
      InTheHour(r) <= MaxPerHour[r] + Cardinality(Senders) - 1

(* maxPerHour: no more than that in an hour. *)
WithinHourlyLimit == \A r \in RuleIds : MaxPerHour[r] > 0 => InTheHour(r) <= MaxPerHour[r]
=============================================================================
