------------------------- MODULE SubscriptionManager -------------------------
(***************************************************************************)
(* The table of subscriptions of the MQTT agent task,                      *)
(* Common/app/mqtt/mqtt_agent_task.c and subscription_manager.h: slots     *)
(* with a topic filter, a reference count and the status of the last       *)
(* SUBACK, and callbacks that point to slots.                              *)
(*                                                                         *)
(* A task subscribes and unsubscribes in sections that hold the mutex;     *)
(* between them it has no lock, while its request waits for the broker.    *)
(* When the connection ends the agent cancels the requests, takes the      *)
(* mutex, forgets the statuses and keeps the mutex until it has            *)
(* resubscribed.  Sessions that outlive a connection, and the hand-over of *)
(* the mutex, are in module MqttAgent; here each reconnection starts       *)
(* without a session and resubscribes.                                     *)
(*                                                                         *)
(* Each task has one filter, one quality of service and one callback, and  *)
(* subscribes again only when it was refused or has unsubscribed.  No      *)
(* filter is a prefix of another.  The order of the callbacks does not     *)
(* matter: they are a set.  The heap does not run out.                     *)
(***************************************************************************)
EXTENDS Naturals, FiniteSetsExt

CONSTANTS
  Tasks,
  Filter,      \* the filter each task uses
  QoS0,        \* the tasks that ask for QoS 0; the others ask for QoS 1
  MQTT_AGENT_MAX_SUBSCRIPTIONS,
  MQTT_AGENT_MAX_CALLBACKS,
  MaxCount,    \* bound: the reference counts
  MaxLosses,   \* bound: the connections lost
  Faults       \* what may happen: see SubscriptionManagerAssumption

Filters == {Filter[t] : t \in Tasks}
Empty   == 0   \* pTopicFilter is NULL: not a filter
Slots   == 0 .. MQTT_AGENT_MAX_SUBSCRIPTIONS - 1

ASSUME SubscriptionManagerAssumption ==
  /\ Empty \notin Filters
  /\ MQTT_AGENT_MAX_SUBSCRIPTIONS \in Nat \ {0}
  \* prvCompressSubscriptionList takes the one for the other
  /\ MQTT_AGENT_MAX_CALLBACKS = MQTT_AGENT_MAX_SUBSCRIPTIONS
  /\ MaxCount \in Nat \ {0} /\ MaxLosses \in Nat
  /\ QoS0 \subseteq Tasks
  /\ Faults \subseteq {"refused",    \* the broker refuses a filter
                       "quietLoss",  \* the connection ends, and is made again, between calls
                       "loss"}       \* the connection ends at any time

VARIABLES
  subs,    \* pxSubscriptions
  acked,   \* slots whose pxSubAckStatus is not MQTTSubAckFailure
  count,   \* pulSubCbCount
  cbs,     \* pxCallbacks: which task, which slot
  step,    \* where each task stands
  slot,    \* the slot its call works on
  old,     \* ulCallbackCount of its unsubscription
  result,  \* how its last request ended
  told,    \* tasks told MQTTSuccess that did not begin to unsubscribe since
  conn,    \* the connection
  losses,  \* connections lost so far
  broker   \* the filters the broker holds for this client

table  == <<subs, acked, count, cbs>>
client == <<step, slot, old, result, told>>
vars   == <<subs, acked, count, cbs, step, slot, old, result, told, conn, losses,
            broker>>

TypeOK ==
  /\ subs \in [Slots -> Filters \cup {Empty}]
  /\ acked \subseteq Slots
  /\ count \in [Slots -> 0 .. MaxCount]
  /\ cbs \subseteq [task : Tasks, slot : Slots]
  /\ Cardinality(cbs) <= MQTT_AGENT_MAX_CALLBACKS
  /\ step \in [Tasks -> {"idle", "subSend", "subQueued", "subSent", "subDone",
                         "unsubSend", "unsubQueued", "unsubSent", "unsubDone"}]
  /\ slot \in [Tasks -> Slots]
  /\ old \in [Tasks -> 0 .. MaxCount]
  /\ result \in [Tasks -> {"granted", "refused", "cancelled"}]
  /\ told \subseteq Tasks
  /\ conn \in {"up", "down", "locked", "resubscribing"}
  /\ losses \in 0 .. MaxLosses
  /\ broker \subseteq Filters

Init ==
  /\ subs = [i \in Slots |-> Empty]
  /\ acked = {} /\ cbs = {}
  /\ count = [i \in Slots |-> 0]
  /\ step = [t \in Tasks |-> "idle"]
  /\ slot = [t \in Tasks |-> 0]
  /\ old = [t \in Tasks |-> 0]
  /\ result = [t \in Tasks |-> "granted"] /\ told = {}
  /\ conn = "up" /\ losses = 0 /\ broker = {}

MutexFree == conn \in {"up", "down"}

(* A call begins: a task has one at a time. *)
MayCall(t) ==
  /\ step[t] = "idle" /\ MutexFree
  /\ conn = "up" \/ "loss" \in Faults

Goto(t, s) == step' = [step EXCEPT ![t] = s]

(* The call returns and its variables are gone. *)
Return(t) ==
  /\ Goto(t, "idle")
  /\ slot' = [slot EXCEPT ![t] = 0]
  /\ old' = [old EXCEPT ![t] = 0]
  /\ result' = [result EXCEPT ![t] = "granted"]

-----------------------------------------------------------------------------
(* MqttAgent_SubscribeSync.                                                *)

EmptySlots == {i \in Slots : subs[i] = Empty}

(* The search stops at the filter, and at an empty slot that is not the    *)
(* first: the comparison of no characters finds it equal to any filter.    *)
Hits(f) ==
  {i \in Slots : IF subs[i] = Empty THEN i # Min(EmptySlots) ELSE subs[i] = f}

Target(f) == IF Hits(f) # {} THEN Min(Hits(f)) ELSE Min(EmptySlots)

(* The status is reset in the first empty slot, if the search comes by it, *)
(* and in an empty slot it stops at, unless QoS 0 is asked for: that is    *)
(* what an empty slot holds.                                               *)
Reset(t) ==
  {i \in EmptySlots :
     \/ i = Min(EmptySlots) /\ \A j \in Hits(Filter[t]) : i < j
     \/ i = Target(Filter[t]) /\ t \notin QoS0}

SubscribeSync(t) ==
  /\ MayCall(t) /\ t \notin told
  /\ Hits(Filter[t]) \cup EmptySlots # {}
  /\ LET f  == Filter[t]
         i  == Target(f)
         cb == [task |-> t, slot |-> i]
         fresh == cb \notin cbs
     IN /\ acked' = acked \ Reset(t)
        /\ count[i] < MaxCount
        /\ IF fresh /\ Cardinality(cbs) = MQTT_AGENT_MAX_CALLBACKS
           THEN UNCHANGED <<subs, count, cbs, client>>
           ELSE /\ cbs' = cbs \cup {cb}
                /\ count' = [count EXCEPT ![i] = IF fresh THEN @ + 1 ELSE @]
                /\ subs' = [subs EXCEPT ![i] =
                              IF i \notin acked' /\ @ = Empty THEN f ELSE @]
                /\ IF i \in acked'
                   THEN told' = told \cup {t} /\ UNCHANGED <<step, slot>>
                   ELSE /\ slot' = [slot EXCEPT ![t] = i]
                        /\ Goto(t, "subSend") /\ UNCHANGED told
                /\ UNCHANGED <<old, result>>
  /\ UNCHANGED <<conn, losses, broker>>

(* prvSendSubRequest and prvSendUnsubRequest.                              *)
SendRequest(t) ==
  /\ step[t] \in {"subSend", "unsubSend"}
  /\ Goto(t, IF step[t] = "subSend" THEN "subQueued" ELSE "unsubQueued")
  /\ UNCHANGED <<table, slot, old, result, told, conn, losses, broker>>

(* A cancelled request has no SUBACK code, and the zero that is stored     *)
(* then means success.                                                     *)
StoreAnyStatus(t) == acked \cup {slot[t]}

StoreStatus(t) ==
  IF result[t] = "refused" THEN acked \ {slot[t]} ELSE acked \cup {slot[t]}

(* The status is stored through a pointer into the table, without the      *)
(* mutex.                                                                  *)
SubscribeReturns(t) ==
  /\ step[t] = "subDone"
  /\ acked' = StoreStatus(t)
  /\ told' = IF result[t] = "granted" THEN told \cup {t} ELSE told
  /\ Return(t)
  /\ UNCHANGED <<subs, count, cbs, conn, losses, broker>>

-----------------------------------------------------------------------------
(* MqttAgent_UnSubscribeSync.                                              *)

LoweredUnchecked(n) == n - 1

Lowered(n) == IF n > 0 THEN n - 1 ELSE 0

Of(f) == {i \in Slots : subs[i] = f}

UnSubscribeSync(t) ==
  /\ MayCall(t) /\ t \in told
  /\ told' = told \ {t}
  /\ IF Of(Filter[t]) = {}
     THEN UNCHANGED <<count, old, step>>
     ELSE LET i == Min(Of(Filter[t])) IN
          /\ old' = [old EXCEPT ![t] = count[i]]
          /\ count' = [count EXCEPT ![i] = Lowered(@)]
          /\ Goto(t, IF count[i] = 1 THEN "unsubSend" ELSE "unsubDone")
  /\ UNCHANGED <<subs, acked, cbs, slot, result, conn, losses, broker>>

RemoveCallback(t) ==
  /\ step[t] = "unsubDone" /\ MutexFree
  /\ Return(t)
  /\ LET unused == {i \in Of(Filter[t]) : count[i] = 0} IN
     IF unused = {} \/ [task |-> t, slot |-> Min(unused)] \notin cbs
     THEN UNCHANGED table
     ELSE LET i == Min(unused) IN
          /\ cbs' = cbs \ {[task |-> t, slot |-> i]}
          /\ IF old[t] = 1
             THEN /\ subs' = [subs EXCEPT ![i] = Empty]
                  /\ acked' = acked \ {i}
             ELSE UNCHANGED <<subs, acked>>
          /\ UNCHANGED count
  /\ UNCHANGED <<told, conn, losses, broker>>

-----------------------------------------------------------------------------
(* The agent, the library and the broker.                                  *)

Waiting == {t \in Tasks : step[t] \in {"subQueued", "subSent", "unsubQueued", "unsubSent"}}

Serving == conn \in {"up", "resubscribing"}

(* The command is sent and the broker acts on it.  What is sent is what    *)
(* the slot holds now.                                                     *)
SubscribeSent(t) ==
  /\ Serving /\ step[t] = "subQueued" /\ subs[slot[t]] # Empty
  /\ \E answer \in {"granted"} \cup (Faults \cap {"refused"}) :
       /\ result' = [result EXCEPT ![t] = answer]
       /\ broker' = IF answer = "granted" THEN broker \cup {subs[slot[t]]} ELSE broker
  /\ Goto(t, "subSent")
  /\ UNCHANGED <<table, slot, old, told, conn, losses>>

UnsubscribeSent(t) ==
  /\ Serving /\ step[t] = "unsubQueued"
  /\ broker' = broker \ {Filter[t]}
  /\ Goto(t, "unsubSent")
  /\ UNCHANGED <<table, slot, old, result, told, conn, losses>>

Acknowledged(t) ==
  /\ Serving /\ step[t] \in {"subSent", "unsubSent"}
  /\ Goto(t, IF step[t] = "subSent" THEN "subDone" ELSE "unsubDone")
  /\ UNCHANGED <<table, slot, old, result, told, conn, losses, broker>>

CancelAll ==
  /\ step' = [t \in Tasks |->
                IF t \notin Waiting THEN step[t]
                ELSE IF step[t] \in {"subQueued", "subSent"} THEN "subDone"
                ELSE "unsubDone"]
  /\ result' = [t \in Tasks |-> IF t \in Waiting THEN "cancelled" ELSE result[t]]

(* An empty slot cannot be sent: the command loop ends as when the         *)
(* connection does.                                                        *)
LoopEnds ==
  \/ "loss" \in Faults
  \/ "quietLoss" \in Faults /\ \A t \in Tasks : step[t] = "idle"
  \/ \E t \in Tasks : step[t] = "subQueued" /\ subs[slot[t]] = Empty

(* The resubscription, cancelled, has no SUBACK codes either: what its     *)
(* callback reads through the null pointer is anything.                    *)
ConnectionLost ==
  /\ Serving /\ LoopEnds /\ losses < MaxLosses
  /\ CancelAll
  /\ \E read \in SUBSET (IF conn = "resubscribing" THEN Slots \ EmptySlots ELSE {}) :
       acked' = acked \cup read
  /\ conn' = "down" /\ losses' = losses + 1
  /\ UNCHANGED <<subs, count, cbs, slot, old, told, broker>>

LockTable ==
  /\ conn = "down"
  /\ acked' = {}
  /\ conn' = "locked"
  /\ UNCHANGED <<subs, count, cbs, client, losses, broker>>

(* prvCompressSubscriptionList: filters move to the front and the          *)
(* callbacks follow; the counts stay behind.                               *)
Place(i) == Cardinality({j \in Slots \ EmptySlots : j < i})

(* prvUpdateCallbackRefs *)
LeftBehind(cb) == cb

Moved(cb) == [cb EXCEPT !.slot = IF subs[@] = Empty THEN @ ELSE Place(@)]

prvCompressSubscriptionList ==
  /\ subs' = [i \in Slots |->
                LET from == {j \in Slots \ EmptySlots : Place(j) = i}
                IN IF from = {} THEN Empty ELSE subs[Min(from)]]
  /\ cbs' = {Moved(cb) : cb \in cbs}
  /\ UNCHANGED count

Reconnect ==
  /\ conn = "locked"
  /\ CancelAll
  /\ prvCompressSubscriptionList
  /\ broker' = {}
  /\ conn' = "resubscribing"
  /\ UNCHANGED <<acked, slot, old, told, losses>>

(* The slots of the resubscription, and its answer, a status for each: of  *)
(* a filter that is refused only the status is changed, and its callbacks  *)
(* are orphans.                                                            *)
Resent == 0 .. Cardinality(Slots \ EmptySlots) - 1

Resubscribed ==
  /\ conn = "resubscribing"
  /\ \E refused \in SUBSET (IF "refused" \in Faults THEN Resent ELSE {}) :
       /\ broker' = broker \cup {subs[i] : i \in Resent \ refused}
       /\ acked' = (acked \ refused) \cup (Resent \ refused)
  /\ conn' = "up"
  /\ UNCHANGED <<subs, count, cbs, client, losses>>

-----------------------------------------------------------------------------
Task(t) ==
  \/ SubscribeSync(t) \/ SendRequest(t) \/ SubscribeReturns(t)
  \/ UnSubscribeSync(t) \/ RemoveCallback(t)

Agent ==
  \/ \E t \in Tasks : SubscribeSent(t) \/ UnsubscribeSent(t) \/ Acknowledged(t)
  \/ ConnectionLost \/ LockTable \/ Reconnect \/ Resubscribed

Next == Agent \/ \E t \in Tasks : Task(t)

Spec == Init /\ [][Next]_vars

-----------------------------------------------------------------------------
(* A task that was told its subscription is in force has its callback in   *)
(* the table, on a slot that holds its filter, wherever the slots of other *)
(* tasks were freed, reused and moved meanwhile.                           *)
TableServes ==
  \A t \in told : \E cb \in cbs : cb.task = t /\ subs[cb.slot] = Filter[t]

(* Until the connection is lost a first time, the broker holds the filter  *)
(* of every task that was told its subscription is in force, whatever the  *)
(* other tasks subscribe, unsubscribe and are refused meanwhile.           *)
BrokerServes == losses = 0 => \A t \in told : Filter[t] \in broker

(* A callback never stands on the slot of another task's filter: a publish *)
(* reaches only who asked for it.                                          *)
OwnFilterOnly == \A cb \in cbs : subs[cb.slot] \in {Filter[cb.task], Empty}

(* "Unsubscribe from the specified topic is no other callback exist for    *)
(* the same filter": when MqttAgent_UnSubscribeSync returns, the broker    *)
(* has no filter that no callback is for.                                  *)
Unsubscribed ==
  [][\A t \in Tasks : step[t] = "unsubDone" /\ step'[t] = "idle"
       => \/ Filter[t] \notin broker'
          \/ \E cb \in cbs' : subs'[cb.slot] = Filter[t]]_vars
=============================================================================
