--------------------- MODULE SubscriptionManager_proofs ---------------------
(***************************************************************************)
(* Proofs about SubscriptionManager, for any set of tasks, any filters and *)
(* any size of the table.                                                  *)
(*                                                                         *)
(* The first part is about the operators: the least element of a set of    *)
(* slots, and the places to which prvCompressSubscriptionList moves the    *)
(* filters.  The invariants follow: the types, the table while no call is  *)
(* open when the connection ends, and the first session.                   *)
(***************************************************************************)
EXTENDS SubscriptionManager, FiniteSetTheorems, TLAPS

Used == Slots \ EmptySlots

(* Nothing is left to move once the table was compressed.                  *)
TypeInv ==
  /\ TypeOK
  /\ IsFiniteSet(cbs)
  /\ conn = "resubscribing" => Resent = Used

-----------------------------------------------------------------------------
(* Least elements.                                                         *)

Less == OpToRel(<, Nat)

LEMMA LeastElement ==
  ASSUME NEW T \in SUBSET Nat, T # {}
  PROVE  \E x \in T : \A y \in T : x <= y
<1>1. PICK x \in T : \A y \in T : <<y, x>> \notin Less
  BY NatLessThanWellFounded, WFMin DEF Less
<1>2. ASSUME NEW y \in T PROVE x <= y
  <2>1. <<y, x>> \notin Less
    BY <1>1
  <2>2. x \in Nat /\ y \in Nat
    OBVIOUS
  <2> QED BY <2>1, <2>2 DEF Less, OpToRel
<1> QED BY <1>2

(* Min returns the least slot of a set that is not empty.                  *)
LEMMA MinOfSlots ==
  ASSUME NEW T \in SUBSET Slots, T # {}
  PROVE  Min(T) \in T /\ \A y \in T : Min(T) <= y
<1>1. T \in SUBSET Nat
  BY SubscriptionManagerAssumption DEF Slots
<1>2. \E x \in T : \A y \in T : x <= y
  BY <1>1, LeastElement
<1> QED BY <1>2 DEF Min

(* The least slot of a set is the one that is below all others.            *)
LEMMA MinIs ==
  ASSUME NEW T \in SUBSET Slots, NEW x \in T, \A y \in T : x <= y
  PROVE  Min(T) = x
<1>1. Min(T) \in T /\ Min(T) <= x /\ x <= Min(T)
  BY MinOfSlots
<1>2. Min(T) \in Slots /\ x \in Slots
  BY <1>1
<1>3. Min(T) \in Nat /\ x \in Nat
  BY <1>2, SubscriptionManagerAssumption DEF Slots
<1> QED BY <1>1, <1>3

-----------------------------------------------------------------------------
(* prvCompressSubscriptionList.                                            *)

UsedBelow(i) == {j \in Used : j < i}

LEMMA SlotsFinite ==
  /\ IsFiniteSet(Slots) /\ IsFiniteSet(Used) /\ Used \subseteq Slots
  /\ \A i \in Slots : i \in Nat /\ i < MQTT_AGENT_MAX_SUBSCRIPTIONS
  /\ Cardinality(Used) \in Nat /\ Cardinality(Used) <= MQTT_AGENT_MAX_SUBSCRIPTIONS
<1>1. IsFiniteSet(Slots) /\ Cardinality(Slots) = MQTT_AGENT_MAX_SUBSCRIPTIONS
  BY SubscriptionManagerAssumption, FS_Interval DEF Slots
<1>2. Used \in SUBSET Slots
  BY DEF Used
<1>3. IsFiniteSet(Used) /\ Cardinality(Used) <= Cardinality(Slots)
  BY <1>1, <1>2, FS_Subset
<1>4. Cardinality(Used) \in Nat
  BY <1>3, FS_CardinalityType
<1> QED BY <1>1, <1>2, <1>3, <1>4, SubscriptionManagerAssumption DEF Slots

LEMMA PlaceType ==
  ASSUME NEW i \in Slots
  PROVE  IsFiniteSet(UsedBelow(i)) /\ Place(i) = Cardinality(UsedBelow(i)) /\ Place(i) \in Nat
<1>1. UsedBelow(i) \in SUBSET Used
  BY DEF UsedBelow
<1>2. IsFiniteSet(UsedBelow(i))
  BY <1>1, SlotsFinite, FS_Subset
<1>3. Place(i) = Cardinality(UsedBelow(i))
  BY DEF Place, UsedBelow, Used
<1> QED BY <1>2, <1>3, FS_CardinalityType

(* A filter further back moves to a place further back.                    *)
LEMMA PlaceGrows ==
  ASSUME NEW i \in Used, NEW j \in Slots, i < j
  PROVE  Place(i) < Place(j)
<1> DEFINE S == UsedBelow(i) \cup {i}
<1>1. i \in Slots /\ i \in Nat /\ j \in Nat
  BY SlotsFinite
<1>2. IsFiniteSet(S) /\ Cardinality(S) = Place(i) + 1
  <2>1. i \notin UsedBelow(i)
    BY <1>1 DEF UsedBelow
  <2> QED BY <1>1, <2>1, PlaceType, FS_AddElement
<1>3. S \in SUBSET UsedBelow(j)
  <2>1. ASSUME NEW k \in UsedBelow(i) PROVE k < j
    BY <1>1, <2>1, SlotsFinite DEF UsedBelow
  <2> QED BY <2>1 DEF UsedBelow
<1>4. Cardinality(S) <= Place(j)
  BY <1>3, PlaceType, FS_Subset
<1> QED BY <1>1, <1>2, <1>4, PlaceType

(* Every place lies below the number of filters.                           *)
LEMMA PlaceBound ==
  ASSUME NEW i \in Used
  PROVE  Place(i) \in 0 .. Cardinality(Used) - 1
<1> DEFINE S == UsedBelow(i) \cup {i}
<1>1. i \in Slots /\ i \in Nat
  BY SlotsFinite
<1>2. IsFiniteSet(S) /\ Cardinality(S) = Place(i) + 1
  <2>1. i \notin UsedBelow(i)
    BY <1>1 DEF UsedBelow
  <2> QED BY <1>1, <2>1, PlaceType, FS_AddElement
<1>3. S \in SUBSET Used
  BY DEF UsedBelow
<1>4. Cardinality(S) <= Cardinality(Used)
  BY <1>3, SlotsFinite, FS_Subset
<1> QED BY <1>1, <1>2, <1>4, PlaceType, SlotsFinite

(* No two filters move to the same place, and no place is left out.        *)
LEMMA PlacesDiffer ==
  ASSUME NEW i \in Used, NEW j \in Used, Place(i) = Place(j)
  PROVE  i = j
<1>1. i \in Slots /\ j \in Slots /\ i \in Nat /\ j \in Nat
  BY SlotsFinite
<1>2. Place(i) \in Nat
  BY <1>1, PlaceType
<1>3. ~(i < j) /\ ~(j < i)
  BY <1>1, <1>2, PlaceGrows
<1> QED BY <1>1, <1>3

LEMMA PlacesFill ==
  ASSUME NEW k \in 0 .. Cardinality(Used) - 1
  PROVE  \E j \in Used : Place(j) = k
<1> DEFINE T == 0 .. Cardinality(Used) - 1
           f == [j \in Used |-> Place(j)]
<1>1. f \in [Used -> T]
  BY PlaceBound
<1>2. f \in Injection(Used, T)
  BY <1>1, PlacesDiffer DEF Injection, IsInjective
<1>3. IsFiniteSet(T) /\ Cardinality(T) = Cardinality(Used)
  BY SlotsFinite, FS_Interval
<1>4. f \in Surjection(Used, T)
  BY <1>2, <1>3, FS_Injection
<1> QED BY <1>4 DEF Surjection

(* The table after it was compressed: each filter is at its place, and     *)
(* the slots in use are the first ones.                                    *)
LEMMA Compressed ==
  ASSUME TypeOK, prvCompressSubscriptionList
  PROVE  /\ subs' \in [Slots -> Filters \cup {Empty}]
         /\ \A j \in Used : Place(j) \in Slots /\ subs'[Place(j)] = subs[j]
         /\ Used' = 0 .. Cardinality(Used) - 1
         /\ Resent' = Used'
<1> DEFINE From(i) == {j \in Used : Place(j) = i}
<1>0. subs' = [i \in Slots |-> IF From(i) = {} THEN Empty ELSE subs[Min(From(i))]]
  BY DEF prvCompressSubscriptionList, Used
<1>1. ASSUME NEW j \in Used
      PROVE  Place(j) \in Slots /\ subs'[Place(j)] = subs[j]
  <2>1. Place(j) \in Slots
    BY PlaceBound, SlotsFinite, SubscriptionManagerAssumption DEF Slots
  <2>2. From(Place(j)) = {j}
    BY PlacesDiffer
  <2>3. Min({j}) = j
    BY SlotsFinite, MinIs
  <2> HIDE DEF From
  <2> QED BY <1>0, <2>1, <2>2, <2>3
<1>2. ASSUME NEW i \in Slots, From(i) # {}
      PROVE  subs'[i] = subs[Min(From(i))] /\ Min(From(i)) \in Used
  <2>1. From(i) \in SUBSET Slots
    BY SlotsFinite
  <2>2. Min(From(i)) \in From(i)
    BY <1>2, <2>1, MinOfSlots
  <2>3. From(i) \subseteq Used
    OBVIOUS
  <2> HIDE DEF From
  <2> QED BY <1>0, <1>2, <2>2, <2>3
<1>3. ASSUME NEW i \in Slots, From(i) = {}
      PROVE  subs'[i] = Empty
  <2> HIDE DEF From
  <2> QED BY <1>0, <1>3
<1>4. \A j \in Used : subs[j] \in Filters
  BY DEF TypeOK, Used, EmptySlots
<1>5. subs' \in [Slots -> Filters \cup {Empty}]
  <2> HIDE DEF From
  <2> QED BY <1>0, <1>2, <1>3, <1>4
<1>6. ASSUME NEW i \in Slots
      PROVE  subs'[i] # Empty <=> i \in 0 .. Cardinality(Used) - 1
  <2>1. CASE From(i) = {}
    BY <1>3, <2>1, PlacesFill
  <2>2. CASE From(i) # {}
    <3>1. subs'[i] # Empty
      <4> HIDE DEF From
      <4> QED BY <1>2, <1>4, <2>2, SubscriptionManagerAssumption
    <3>2. i \in 0 .. Cardinality(Used) - 1
      BY <2>2, PlaceBound
    <3> QED BY <3>1, <3>2
  <2> QED BY <2>1, <2>2
<1>7. 0 .. Cardinality(Used) - 1 \subseteq Slots
  BY SlotsFinite, SubscriptionManagerAssumption DEF Slots
<1>8. Used' = 0 .. Cardinality(Used) - 1
  <2>1. Used' = {i \in Slots : subs'[i] # Empty}
    BY DEF Used, EmptySlots
  <2> HIDE DEF From
  <2> QED BY <1>6, <1>7, <2>1
<1>9. Resent' = Used'
  <2>1. Resent' = 0 .. Cardinality(Used') - 1
    BY DEF Resent, Used
  <2>2. Cardinality(Used') = Cardinality(Used)
    BY <1>8, SlotsFinite, FS_Interval
  <2> QED BY <1>8, <2>1, <2>2
<1> QED BY <1>1, <1>5, <1>8, <1>9

-----------------------------------------------------------------------------
(* The types.                                                              *)

(* A slot the search of MqttAgent_SubscribeSync ends at.                   *)
LEMMA TargetIs ==
  ASSUME NEW f, Hits(f) \cup EmptySlots # {}
  PROVE  /\ Target(f) \in Slots
         /\ subs[Target(f)] \in {f, Empty}
         /\ \A j \in Of(f) : f # Empty => Target(f) <= j
<1>1. Hits(f) \in SUBSET Slots /\ EmptySlots \in SUBSET Slots
  BY DEF Hits, EmptySlots
<1>2. CASE Hits(f) # {}
  <2>1. Target(f) = Min(Hits(f))
    BY <1>2 DEF Target
  <2>2. Target(f) \in Hits(f) /\ \A y \in Hits(f) : Target(f) <= y
    BY <1>1, <1>2, <2>1, MinOfSlots
  <2>3. subs[Target(f)] \in {f, Empty}
    BY <2>2 DEF Hits
  <2>4. f # Empty => Of(f) \subseteq Hits(f)
    BY DEF Of, Hits
  <2> QED BY <1>1, <2>2, <2>3, <2>4
<1>3. CASE Hits(f) = {}
  <2>1. Target(f) = Min(EmptySlots)
    BY <1>3 DEF Target
  <2>2. Target(f) \in EmptySlots
    BY <1>1, <1>3, <2>1, MinOfSlots
  <2>3. f # Empty => Of(f) = {}
    BY <1>3 DEF Of, Hits
  <2> QED BY <2>2, <2>3 DEF EmptySlots
<1> QED BY <1>2, <1>3

LEMMA FiltersNotEmpty == \A t \in Tasks : Filter[t] \in Filters /\ Filter[t] # Empty
BY SubscriptionManagerAssumption DEF Filters

(* The callbacks that follow their slots are not more than they were.      *)
LEMMA MovedFits ==
  ASSUME TypeInv, prvCompressSubscriptionList
  PROVE  /\ cbs' \subseteq [task : Tasks, slot : Slots]
         /\ IsFiniteSet(cbs') /\ Cardinality(cbs') <= MQTT_AGENT_MAX_CALLBACKS
         /\ \A cb \in cbs : subs[cb.slot] # Empty =>
              Moved(cb) = [task |-> cb.task, slot |-> Place(cb.slot)]
<1> USE DEF TypeInv, TypeOK
<1>1. cbs' = {Moved(cb) : cb \in cbs}
  BY DEF prvCompressSubscriptionList
<1>2. \A cb \in cbs : cb.task \in Tasks /\ cb.slot \in Slots
                      /\ cb = [task |-> cb.task, slot |-> cb.slot]
  OBVIOUS
<1>3. ASSUME NEW cb \in cbs, subs[cb.slot] # Empty
      PROVE  /\ Moved(cb) = [task |-> cb.task, slot |-> Place(cb.slot)]
             /\ Moved(cb) \in [task : Tasks, slot : Slots]
  <2>1. cb.slot \in Used
    BY <1>2, <1>3 DEF Used, EmptySlots
  <2>2. Place(cb.slot) \in Slots
    BY <2>1, Compressed
  <2>3. Moved(cb) = [cb EXCEPT !.slot = Place(cb.slot)]
    BY <1>3 DEF Moved
  <2>4. [cb EXCEPT !.slot = Place(cb.slot)] = [task |-> cb.task, slot |-> Place(cb.slot)]
    BY <1>2
  <2> QED BY <1>2, <2>2, <2>3, <2>4
<1>4. ASSUME NEW cb \in cbs, subs[cb.slot] = Empty
      PROVE  Moved(cb) \in [task : Tasks, slot : Slots]
  <2>1. Moved(cb) = [cb EXCEPT !.slot = cb.slot]
    BY <1>4 DEF Moved
  <2> QED BY <1>2, <2>1
<1>5. cbs' \subseteq [task : Tasks, slot : Slots]
  BY <1>1, <1>3, <1>4
<1>6. IsFiniteSet(cbs') /\ Cardinality(cbs') <= Cardinality(cbs)
  <2> DEFINE g == [cb \in cbs |-> Moved(cb)]
  <2>1. g \in Surjection(cbs, cbs')
    BY <1>1 DEF Surjection
  <2> QED BY <2>1, FS_Surjection
<1>7. Cardinality(cbs') \in Nat /\ Cardinality(cbs) \in Nat
  BY <1>6, FS_CardinalityType
<1> QED BY <1>3, <1>5, <1>6, <1>7, SubscriptionManagerAssumption

LEMMA SlotZero == 0 \in Slots
BY SubscriptionManagerAssumption DEF Slots

LEMMA TypeInit == Init => TypeInv
BY FS_EmptySet, SlotZero, SubscriptionManagerAssumption DEF Init, TypeInv, TypeOK

LEMMA SubscribeSyncTypes ==
  ASSUME TypeInv, NEW t \in Tasks, SubscribeSync(t)
  PROVE  TypeInv'
<1> DEFINE i  == Target(Filter[t])
           cb == [task |-> t, slot |-> i]
<1>1. i \in Slots /\ cb \in [task : Tasks, slot : Slots]
  BY TargetIs DEF SubscribeSync
<1>2. conn' = conn /\ losses' = losses /\ broker' = broker /\ conn # "resubscribing"
      /\ acked' = acked \ Reset(t) /\ count[i] < MaxCount
  BY DEF SubscribeSync, MayCall, MutexFree
<1>3. Cardinality(cbs) \in Nat
  BY FS_CardinalityType DEF TypeInv
<1>4. CASE UNCHANGED <<subs, count, cbs, client>>
  BY <1>2, <1>4 DEF TypeInv, TypeOK, client
<1>5. CASE /\ ~(cb \notin cbs /\ Cardinality(cbs) = MQTT_AGENT_MAX_CALLBACKS)
           /\ cbs' = cbs \cup {cb}
           /\ count' = [count EXCEPT ![i] = IF cb \notin cbs THEN @ + 1 ELSE @]
           /\ subs' = [subs EXCEPT ![i] =
                         IF i \notin acked' /\ @ = Empty THEN Filter[t] ELSE @]
           /\ IF i \in acked'
              THEN told' = told \cup {t} /\ UNCHANGED <<step, slot>>
              ELSE /\ slot' = [slot EXCEPT ![t] = i]
                   /\ Goto(t, "subSend") /\ UNCHANGED told
           /\ UNCHANGED <<old, result>>
  <2>1. IsFiniteSet(cbs') /\ Cardinality(cbs') <= MQTT_AGENT_MAX_CALLBACKS
    <3> HIDE DEF cb
    <3>1. /\ IsFiniteSet(cbs \cup {cb})
          /\ Cardinality(cbs \cup {cb}) =
               IF cb \in cbs THEN Cardinality(cbs) ELSE Cardinality(cbs) + 1
      BY FS_AddElement DEF TypeInv
    <3>2. Cardinality(cbs) <= MQTT_AGENT_MAX_CALLBACKS /\ MQTT_AGENT_MAX_CALLBACKS \in Nat
      BY SubscriptionManagerAssumption DEF TypeInv, TypeOK
    <3> QED BY <1>3, <1>5, <3>1, <3>2
  <2>2. count' \in [Slots -> 0 .. MaxCount]
    <3>1. count[i] \in 0 .. MaxCount /\ count[i] + 1 \in 0 .. MaxCount
      BY <1>1, <1>2, SubscriptionManagerAssumption DEF TypeInv, TypeOK
    <3> HIDE DEF i, cb
    <3> QED BY <1>5, <3>1 DEF TypeInv, TypeOK
  <2>3. subs' \in [Slots -> Filters \cup {Empty}]
    <3> HIDE DEF i, cb
    <3> QED BY <1>5, FiltersNotEmpty DEF TypeInv, TypeOK
  <2>4. /\ told' \subseteq Tasks
        /\ slot' \in [Tasks -> Slots]
        /\ step' \in [Tasks -> {"idle", "subSend", "subQueued", "subSent", "subDone",
                                "unsubSend", "unsubQueued", "unsubSent", "unsubDone"}]
    <3> HIDE DEF i, cb
    <3> QED BY <1>1, <1>5 DEF TypeInv, TypeOK, Goto
  <2>5. cbs' \subseteq [task : Tasks, slot : Slots]
    <3> HIDE DEF cb
    <3> QED BY <1>1, <1>5 DEF TypeInv, TypeOK
  <2> QED BY <1>2, <1>5, <2>1, <2>2, <2>3, <2>4, <2>5 DEF TypeInv, TypeOK
<1> QED BY <1>4, <1>5 DEF SubscribeSync

LEMMA RemoveCallbackTypes ==
  ASSUME TypeInv, NEW t \in Tasks, RemoveCallback(t)
  PROVE  TypeInv'
<1> DEFINE unused == {i \in Of(Filter[t]) : count[i] = 0}
           cb == [task |-> t, slot |-> Min(unused)]
<1>1. /\ step' \in [Tasks -> {"idle", "subSend", "subQueued", "subSent", "subDone",
                              "unsubSend", "unsubQueued", "unsubSent", "unsubDone"}]
      /\ slot' \in [Tasks -> Slots] /\ old' \in [Tasks -> 0 .. MaxCount]
      /\ result' \in [Tasks -> {"granted", "refused", "cancelled"}]
      /\ UNCHANGED <<told, conn, losses, broker>>
      /\ conn # "resubscribing"
  BY SlotZero, SubscriptionManagerAssumption
     DEF RemoveCallback, Return, Goto, TypeInv, TypeOK, MutexFree
<1>2. CASE UNCHANGED table
  BY <1>1, <1>2 DEF TypeInv, TypeOK, table
<1>3. CASE /\ cbs' = cbs \ {cb}
           /\ \/ UNCHANGED <<subs, acked>>
              \/ /\ subs' = [subs EXCEPT ![Min(unused)] = Empty]
                 /\ acked' = acked \ {Min(unused)}
           /\ UNCHANGED count
  <2>1. Cardinality(cbs) \in Nat
    BY FS_CardinalityType DEF TypeInv
  <2> HIDE DEF cb, unused
  <2>2. IsFiniteSet(cbs') /\ Cardinality(cbs') <= MQTT_AGENT_MAX_CALLBACKS
    <3>1. /\ IsFiniteSet(cbs \ {cb})
          /\ Cardinality(cbs \ {cb}) =
               IF cb \in cbs THEN Cardinality(cbs) - 1 ELSE Cardinality(cbs)
      BY FS_RemoveElement DEF TypeInv
    <3>2. Cardinality(cbs) <= MQTT_AGENT_MAX_CALLBACKS /\ MQTT_AGENT_MAX_CALLBACKS \in Nat
      BY SubscriptionManagerAssumption DEF TypeInv, TypeOK
    <3> QED BY <1>3, <2>1, <3>1, <3>2
  <2> QED BY <1>1, <1>3, <2>2 DEF TypeInv, TypeOK
<1> QED BY <1>2, <1>3 DEF RemoveCallback

LEMMA TypeStep == TypeInv /\ [Next]_vars => TypeInv'
<1> SUFFICES ASSUME TypeInv, [Next]_vars PROVE TypeInv'
  OBVIOUS
<1> USE SubscriptionManagerAssumption
<1>1. ASSUME NEW t \in Tasks, Task(t) PROVE TypeInv'
  <2>1. CASE SubscribeSync(t)
    BY <2>1, SubscribeSyncTypes
  <2>2. CASE SendRequest(t)
    BY <2>2 DEF SendRequest, Goto, table, TypeInv, TypeOK, Resent, Used, EmptySlots
  <2>3. CASE SubscribeReturns(t)
    BY <2>3, SlotZero DEF SubscribeReturns, StoreStatus, Return, Goto, TypeInv, TypeOK,
       Resent, Used, EmptySlots
  <2>4. CASE UnSubscribeSync(t)
    <3>1. conn # "resubscribing" /\ UNCHANGED <<subs, acked, cbs, slot, result, conn, losses, broker>>
      BY <2>4 DEF UnSubscribeSync, MayCall, MutexFree
    <3>2. told' \subseteq Tasks
      BY <2>4 DEF UnSubscribeSync, TypeInv, TypeOK
    <3>3. CASE Of(Filter[t]) = {}
      BY <2>4, <3>1, <3>2, <3>3 DEF UnSubscribeSync, TypeInv, TypeOK
    <3>4. CASE Of(Filter[t]) # {}
      <4> DEFINE i == Min(Of(Filter[t]))
      <4>1. i \in Slots
        BY <3>4, MinOfSlots DEF Of
      <4>2. count[i] \in 0 .. MaxCount /\ Lowered(count[i]) \in 0 .. MaxCount
        BY <4>1 DEF TypeInv, TypeOK, Lowered
      <4>3. /\ old' = [old EXCEPT ![t] = count[i]]
            /\ count' = [count EXCEPT ![i] = Lowered(@)]
            /\ Goto(t, IF count[i] = 1 THEN "unsubSend" ELSE "unsubDone")
        BY <2>4, <3>4 DEF UnSubscribeSync
      <4> HIDE DEF i
      <4> QED BY <3>1, <3>2, <4>1, <4>2, <4>3 DEF Goto, TypeInv, TypeOK
    <3> QED BY <3>3, <3>4
  <2>5. CASE RemoveCallback(t)
    BY <2>5, RemoveCallbackTypes
  <2> QED BY <1>1, <2>1, <2>2, <2>3, <2>4, <2>5 DEF Task
<1>2. ASSUME NEW t \in Tasks, SubscribeSent(t) \/ UnsubscribeSent(t) \/ Acknowledged(t)
      PROVE  TypeInv'
  <2>1. CASE SubscribeSent(t)
    <3>1. subs[slot[t]] \in Filters
      BY <2>1 DEF SubscribeSent, TypeInv, TypeOK
    <3> QED BY <2>1, <3>1 DEF SubscribeSent, Goto, table, TypeInv, TypeOK, Resent, Used, EmptySlots
  <2>2. CASE UnsubscribeSent(t)
    BY <2>2 DEF UnsubscribeSent, Goto, table, TypeInv, TypeOK, Resent, Used, EmptySlots
  <2>3. CASE Acknowledged(t)
    BY <2>3 DEF Acknowledged, Goto, table, TypeInv, TypeOK, Resent, Used, EmptySlots
  <2> QED BY <1>2, <2>1, <2>2, <2>3
<1>3. CASE ConnectionLost
  <2>1. acked' \subseteq Slots
    BY <1>3 DEF ConnectionLost, TypeInv, TypeOK
  <2> QED BY <1>3, <2>1 DEF ConnectionLost, CancelAll, TypeInv, TypeOK
<1>4. CASE LockTable
  BY <1>4 DEF LockTable, client, TypeInv, TypeOK
<1>5. CASE Reconnect
  <2>1. subs' \in [Slots -> Filters \cup {Empty}] /\ Resent' = Used'
    BY <1>5, Compressed DEF Reconnect, TypeInv
  <2>2. /\ cbs' \subseteq [task : Tasks, slot : Slots]
        /\ IsFiniteSet(cbs') /\ Cardinality(cbs') <= MQTT_AGENT_MAX_CALLBACKS
    BY <1>5, MovedFits DEF Reconnect
  <2>3. count' = count
    BY <1>5 DEF Reconnect, prvCompressSubscriptionList
  <2> QED BY <1>5, <2>1, <2>2, <2>3 DEF Reconnect, CancelAll, TypeInv, TypeOK
<1>6. CASE Resubscribed
  <2>1. Resent = Used
    BY <1>6 DEF Resubscribed, TypeInv
  <2>2. \A i \in Used : i \in Slots /\ subs[i] \in Filters
    BY DEF Used, EmptySlots, TypeInv, TypeOK
  <2> QED BY <1>6, <2>1, <2>2 DEF Resubscribed, client, TypeInv, TypeOK
<1>7. CASE UNCHANGED vars
  BY <1>7 DEF vars, TypeInv, TypeOK, Resent, Used, EmptySlots
<1> QED BY <1>1, <1>2, <1>3, <1>4, <1>5, <1>6, <1>7 DEF Next, Agent

(* Every variable keeps its type, the callbacks fit into their table, and  *)
(* what is resubscribed after a compression is what the table holds: for   *)
(* any filters, shared or not, and whenever the connection ends.           *)
LEMMA TypeAlways == Spec => []TypeInv
<1>1. TypeInv /\ UNCHANGED vars => TypeInv'
  BY TypeStep
<1> QED BY TypeInit, TypeStep, PTL DEF Spec

THEOREM TypeCorrect == Spec => []TypeOK
<1>1. TypeInv => TypeOK
  BY DEF TypeInv
<1> QED BY <1>1, TypeAlways, PTL

-----------------------------------------------------------------------------
(* The table, when no two tasks use one filter and the connection ends     *)
(* only between calls.                                                     *)

PrivateFilters == \A s, t \in Tasks : Filter[s] = Filter[t] => s = t

Subscribing(t)   == step[t] \in {"subSend", "subQueued", "subSent", "subDone"}
Unsubscribing(t) == step[t] \in {"unsubSend", "unsubQueued", "unsubSent", "unsubDone"}

TableInv ==
  /\ \A cb \in cbs : subs[cb.slot] = Filter[cb.task]
  /\ acked \subseteq Used
  /\ \A t \in Tasks : Subscribing(t) => [task |-> t, slot |-> slot[t]] \in cbs
  /\ \A t \in told : step[t] = "idle" /\ \E cb \in cbs : cb.task = t
  /\ conn # "up" => \A t \in Tasks : step[t] = "idle"
  /\ conn = "locked" => acked = {}

LEMMA TableInit == Init => TableInv
BY DEF Init, TableInv, Used, Subscribing

(* What a subscription does to the table, if it does anything.             *)
Subscribed(t, i) ==
  /\ [task |-> t, slot |-> i] \in cbs \/ Cardinality(cbs) # MQTT_AGENT_MAX_CALLBACKS
  /\ cbs' = cbs \cup {[task |-> t, slot |-> i]}
  /\ count' = [count EXCEPT ![i] = IF [task |-> t, slot |-> i] \notin cbs THEN @ + 1 ELSE @]
  /\ subs' = [subs EXCEPT ![i] = Filter[t]]
  /\ IF i \in acked THEN told' = told \cup {t} /\ UNCHANGED <<step, slot>>
     ELSE /\ slot' = [slot EXCEPT ![t] = i]
          /\ Goto(t, "subSend") /\ UNCHANGED told

LEMMA SubscribeSyncTable ==
  ASSUME TypeInv, TableInv, NEW t \in Tasks, SubscribeSync(t)
  PROVE  LET i == Target(Filter[t]) IN
         /\ i \in Slots /\ subs[i] \in {Filter[t], Empty}
         /\ \A j \in Of(Filter[t]) : i <= j
         /\ acked' = acked /\ step[t] = "idle" /\ t \notin told
         /\ \/ UNCHANGED <<subs, count, cbs, client>>
            \/ Subscribed(t, i) /\ UNCHANGED <<old, result>>
         /\ UNCHANGED <<conn, losses, broker>>
<1> DEFINE i  == Target(Filter[t])
           cb == [task |-> t, slot |-> i]
<1>1. i \in Slots /\ subs[i] \in {Filter[t], Empty} /\ \A j \in Of(Filter[t]) : i <= j
  BY TargetIs, FiltersNotEmpty DEF SubscribeSync
<1>2. acked' = acked
  <2>1. Reset(t) \cap acked = {}
    BY DEF Reset, TableInv, Used
  <2>2. acked' = acked \ Reset(t)
    BY DEF SubscribeSync
  <2> QED BY <2>1, <2>2
<1>3. i \in acked => subs[i] # Empty
  BY DEF TableInv, Used, EmptySlots
<1>4. step[t] = "idle" /\ t \notin told /\ UNCHANGED <<conn, losses, broker>>
  BY DEF SubscribeSync, MayCall
<1>5. ASSUME ~UNCHANGED <<subs, count, cbs, client>>
      PROVE  Subscribed(t, i) /\ UNCHANGED <<old, result>>
  <2>1. /\ ~(cb \notin cbs /\ Cardinality(cbs) = MQTT_AGENT_MAX_CALLBACKS)
        /\ cbs' = cbs \cup {cb}
        /\ count' = [count EXCEPT ![i] = IF cb \notin cbs THEN @ + 1 ELSE @]
        /\ subs' = [subs EXCEPT ![i] =
                      IF i \notin acked' /\ @ = Empty THEN Filter[t] ELSE @]
        /\ IF i \in acked'
           THEN told' = told \cup {t} /\ UNCHANGED <<step, slot>>
           ELSE /\ slot' = [slot EXCEPT ![t] = i]
                /\ Goto(t, "subSend") /\ UNCHANGED told
        /\ UNCHANGED <<old, result>>
    BY <1>5 DEF SubscribeSync
  <2>2. subs' = [subs EXCEPT ![i] = Filter[t]]
    <3> HIDE DEF i
    <3> QED BY <1>1, <1>2, <1>3, <2>1 DEF TypeInv, TypeOK
  <2> HIDE DEF i
  <2> QED BY <1>2, <2>1, <2>2 DEF Subscribed
<1> HIDE DEF i
<1> QED BY <1>1, <1>2, <1>4, <1>5 DEF i

LEMMA SubscribeTable ==
  ASSUME TypeInv, TableInv, NEW t \in Tasks, SubscribeSync(t), conn = "up"
  PROVE  TableInv'
<1> DEFINE i == Target(Filter[t])
<1>0. /\ i \in Slots /\ subs[i] \in {Filter[t], Empty}
      /\ acked' = acked /\ step[t] = "idle" /\ t \notin told
      /\ \/ UNCHANGED <<subs, count, cbs, client>>
         \/ Subscribed(t, i) /\ UNCHANGED <<old, result>>
      /\ UNCHANGED <<conn, losses, broker>>
  BY SubscribeSyncTable
<1> HIDE DEF i
<1>1. CASE UNCHANGED <<subs, count, cbs, client>>
  BY <1>0, <1>1 DEF TableInv, client, Used, EmptySlots, Subscribing
<1>2. CASE Subscribed(t, i)
  <2>1. \A cb \in cbs' : subs'[cb.slot] = Filter[cb.task]
    BY <1>0, <1>2, FiltersNotEmpty DEF Subscribed, TableInv, TypeInv, TypeOK
  <2>2. acked' \subseteq Used'
    BY <1>0, <1>2, FiltersNotEmpty DEF Subscribed, TableInv, TypeInv, TypeOK, Used, EmptySlots
  <2>3. \A s \in Tasks : Subscribing(s)' => [task |-> s, slot |-> slot'[s]] \in cbs'
    BY <1>0, <1>2 DEF Subscribed, TableInv, TypeInv, TypeOK, Subscribing, Goto
  <2>4. \A s \in told' : step'[s] = "idle" /\ \E cb \in cbs' : cb.task = s
    BY <1>0, <1>2 DEF Subscribed, TableInv, TypeInv, TypeOK, Goto
  <2>5. conn = "up"
    BY DEF SubscribeSync, MayCall
  <2> QED BY <1>0, <2>1, <2>2, <2>3, <2>4, <2>5 DEF TableInv
<1> QED BY <1>0, <1>1, <1>2

LEMMA ReturnsTable ==
  ASSUME TypeInv, TableInv, NEW t \in Tasks, SubscribeReturns(t)
  PROVE  TableInv'
<1>1. slot[t] \in Used
  <2>1. slot[t] \in Slots /\ step[t] = "subDone"
    BY DEF SubscribeReturns, TypeInv, TypeOK
  <2>2. [task |-> t, slot |-> slot[t]] \in cbs
    BY <2>1 DEF TableInv, Subscribing
  <2>3. subs[slot[t]] = Filter[t]
    BY <2>2 DEF TableInv
  <2> QED BY <2>1, <2>3, FiltersNotEmpty DEF Used, EmptySlots
<1>2. UNCHANGED <<subs, count, cbs, conn, losses, broker>> /\ step[t] = "subDone"
      /\ Return(t) /\ acked' = StoreStatus(t)
      /\ told' \subseteq told \cup {t}
  BY DEF SubscribeReturns
<1>3. acked' \subseteq Used'
  BY <1>1, <1>2 DEF StoreStatus, TableInv, Used, EmptySlots
<1>4. \A s \in told' : step'[s] = "idle" /\ \E cb \in cbs' : cb.task = s
  <2>1. [task |-> t, slot |-> slot[t]] \in cbs
    BY <1>2 DEF TableInv, Subscribing
  <2>2. step' = [step EXCEPT ![t] = "idle"]
    BY <1>2 DEF Return, Goto
  <2>3. \A s \in told : s \in Tasks /\ step[s] = "idle" /\ \E cb \in cbs : cb.task = s
    BY DEF TableInv, TypeInv, TypeOK
  <2> QED BY <1>2, <2>1, <2>2, <2>3 DEF TypeInv, TypeOK
<1>5. conn = "up"
  BY <1>2 DEF TableInv
<1> QED BY <1>2, <1>3, <1>4, <1>5 DEF TableInv, Return, Goto, TypeInv, TypeOK, Subscribing

LEMMA UnSubscribeTable ==
  ASSUME TypeInv, TableInv, NEW t \in Tasks, UnSubscribeSync(t), conn = "up"
  PROVE  TableInv'
<1>1. /\ step[t] = "idle" /\ conn = "up" /\ told' = told \ {t}
      /\ UNCHANGED <<subs, acked, cbs, slot, result, conn, losses, broker>>
      /\ \/ step' = step
         \/ Goto(t, "unsubSend") \/ Goto(t, "unsubDone")
  BY DEF UnSubscribeSync, MayCall
<1>2. \A s \in Tasks : Subscribing(s)' => Subscribing(s)
  BY <1>1 DEF Goto, Subscribing, TypeInv, TypeOK
<1>3. \A s \in told' : step'[s] = step[s] /\ s \in told
  BY <1>1 DEF Goto, TypeInv, TypeOK
<1> QED BY <1>1, <1>2, <1>3 DEF TableInv, Used, EmptySlots

(* What the removal of a callback does, if it does anything: the slot is   *)
(* one of the task's own.                                                  *)
LEMMA RemoveCallbackEffect ==
  ASSUME NEW t \in Tasks, RemoveCallback(t)
  PROVE  /\ step[t] = "unsubDone" /\ Return(t) /\ UNCHANGED <<told, conn, losses, broker>>
         /\ \/ UNCHANGED table
            \/ \E i \in Of(Filter[t]) :
                 /\ cbs' = cbs \ {[task |-> t, slot |-> i]} /\ UNCHANGED count
                 /\ \/ UNCHANGED <<subs, acked>>
                    \/ subs' = [subs EXCEPT ![i] = Empty] /\ acked' = acked \ {i}
<1> DEFINE unused == {i \in Of(Filter[t]) : count[i] = 0}
<1>1. CASE unused = {}
  BY <1>1 DEF RemoveCallback
<1>2. CASE unused # {}
  <2>1. Min(unused) \in unused
    BY <1>2, MinOfSlots DEF Of
  <2>2. Min(unused) \in Of(Filter[t])
    BY <2>1
  <2> HIDE DEF unused
  <2>3. \/ UNCHANGED table
        \/ /\ cbs' = cbs \ {[task |-> t, slot |-> Min(unused)]} /\ UNCHANGED count
           /\ \/ UNCHANGED <<subs, acked>>
              \/ subs' = [subs EXCEPT ![Min(unused)] = Empty] /\ acked' = acked \ {Min(unused)}
    BY DEF RemoveCallback, unused
  <2> QED BY <2>2, <2>3 DEF RemoveCallback
<1> QED BY <1>1, <1>2

LEMMA RemoveTable ==
  ASSUME PrivateFilters, TypeInv, TableInv, NEW t \in Tasks, RemoveCallback(t)
  PROVE  TableInv'
<1>1. /\ step[t] = "unsubDone" /\ Return(t) /\ UNCHANGED <<told, conn, losses, broker>>
      /\ conn = "up" /\ t \notin told
  BY RemoveCallbackEffect DEF TableInv
<1>2. CASE UNCHANGED table
  BY <1>1, <1>2 DEF table, TableInv, Used, EmptySlots, Return, Goto, TypeInv, TypeOK, Subscribing
<1>3. CASE ~UNCHANGED table
  <2>1. PICK i \in Of(Filter[t]) :
          /\ cbs' = cbs \ {[task |-> t, slot |-> i]}
          /\ \/ UNCHANGED <<subs, acked>>
             \/ subs' = [subs EXCEPT ![i] = Empty] /\ acked' = acked \ {i}
    BY <1>3, RemoveCallbackEffect
  <2>2. i \in Slots /\ subs[i] = Filter[t]
    BY DEF Of
  <2>3. \A cb \in cbs' : cb \in cbs /\ cb.slot # i /\ cb.slot \in Slots
    BY <2>1, <2>2 DEF PrivateFilters, TableInv, TypeInv, TypeOK
  <2>4. \A cb \in cbs' : subs'[cb.slot] = Filter[cb.task]
    BY <2>1, <2>2, <2>3 DEF TableInv, TypeInv, TypeOK
  <2>5. acked' \subseteq Used'
    BY <2>1, <2>2 DEF TableInv, TypeInv, TypeOK, Used, EmptySlots
  <2>6. \A s \in Tasks : s # t => step'[s] = step[s] /\ slot'[s] = slot[s]
    BY <1>1 DEF Return, Goto, TypeInv, TypeOK
  <2>7. step'[t] = "idle"
    BY <1>1 DEF Return, Goto, TypeInv, TypeOK
  <2>8. \A s \in Tasks : Subscribing(s)' => [task |-> s, slot |-> slot'[s]] \in cbs'
    BY <2>1, <2>6, <2>7 DEF TableInv, Subscribing
  <2>9. \A s \in told' : s \in Tasks /\ s # t /\ step'[s] = "idle" /\ \E cb \in cbs' : cb.task = s
    BY <1>1, <2>1, <2>6 DEF TableInv, TypeInv, TypeOK
  <2> QED BY <1>1, <2>4, <2>5, <2>8, <2>9 DEF TableInv
<1> QED BY <1>2, <1>3

LEMMA LostTable ==
  ASSUME "loss" \notin Faults, TypeInv, TableInv, ConnectionLost
  PROVE  TableInv' /\ \A t \in Tasks : step[t] = "idle"
<1>1. \A t \in Tasks : step[t] = "idle"
  <2>1. \A t \in Tasks : step[t] = "subQueued" => subs[slot[t]] # Empty
    BY FiltersNotEmpty DEF TableInv, TypeInv, TypeOK, Subscribing
  <2> QED BY <2>1 DEF ConnectionLost, LoopEnds
<1>2. \A t \in Tasks : step'[t] = step[t]
  BY <1>1 DEF ConnectionLost, CancelAll, Waiting
<1>3. UNCHANGED <<subs, count, cbs, slot, old, told, broker>> /\ acked' \subseteq acked \cup Used /\ conn' = "down"
  BY DEF ConnectionLost, Used
<1> QED BY <1>1, <1>2, <1>3 DEF TableInv, TypeInv, TypeOK, Used, EmptySlots, Subscribing

LEMMA ReconnectTable ==
  ASSUME TypeInv, TableInv, Reconnect
  PROVE  TableInv'
<1>1. /\ \A t \in Tasks : step[t] = "idle"
      /\ acked' = {} /\ conn' = "resubscribing" /\ UNCHANGED <<slot, told>>
      /\ prvCompressSubscriptionList
  BY DEF Reconnect, TableInv
<1>2. \A t \in Tasks : step'[t] = "idle"
  BY <1>1 DEF Reconnect, CancelAll, Waiting
<1>3. /\ \A j \in Used : Place(j) \in Slots /\ subs'[Place(j)] = subs[j]
      /\ \A cb \in cbs : subs[cb.slot] # Empty =>
           Moved(cb) = [task |-> cb.task, slot |-> Place(cb.slot)]
  BY <1>1, Compressed, MovedFits DEF TypeInv
<1>4. cbs' = {Moved(cb) : cb \in cbs}
  BY <1>1 DEF prvCompressSubscriptionList
<1>5. \A cb \in cbs : cb.slot \in Used /\ subs[cb.slot] # Empty /\ subs[cb.slot] = Filter[cb.task]
  BY FiltersNotEmpty DEF TableInv, TypeInv, TypeOK, Used, EmptySlots
<1>6. \A cb \in cbs : Moved(cb).task = cb.task /\ subs'[Moved(cb).slot] = Filter[cb.task]
  BY <1>3, <1>5
<1>7. \A cb \in cbs' : subs'[cb.slot] = Filter[cb.task]
  BY <1>4, <1>6
<1>8. \A t \in told' : \E cb \in cbs' : cb.task = t
  BY <1>1, <1>4, <1>6 DEF TableInv
<1>9. told' \subseteq Tasks
  BY <1>1 DEF TypeInv, TypeOK
<1> QED BY <1>1, <1>2, <1>7, <1>8, <1>9 DEF TableInv, Subscribing

(* Connections are not lost during calls, or have not been lost yet.       *)
Quiet == "loss" \notin Faults \/ losses = 0

UpUntilLost == losses = 0 => conn = "up"

LEMMA UpStep == TypeInv /\ UpUntilLost /\ [Next]_vars => UpUntilLost'
<1> SUFFICES ASSUME TypeInv, UpUntilLost, [Next]_vars PROVE UpUntilLost'
  OBVIOUS
<1>1. losses \in Nat
  BY SubscriptionManagerAssumption DEF TypeInv, TypeOK
<1>2. ASSUME NEW t \in Tasks, Task(t) \/ SubscribeSent(t) \/ UnsubscribeSent(t) \/ Acknowledged(t)
      PROVE  conn' = conn /\ losses' = losses
  BY <1>2 DEF Task, SubscribeSync, SendRequest, SubscribeReturns, UnSubscribeSync,
     RemoveCallback, SubscribeSent, UnsubscribeSent, Acknowledged
<1>3. CASE ConnectionLost
  BY <1>1, <1>3 DEF ConnectionLost, UpUntilLost
<1>4. CASE LockTable \/ Reconnect \/ Resubscribed
  BY <1>4 DEF LockTable, Reconnect, Resubscribed, UpUntilLost
<1>5. CASE UNCHANGED vars
  BY <1>5 DEF vars, UpUntilLost
<1> QED BY <1>2, <1>3, <1>4, <1>5 DEF Next, Agent, UpUntilLost

LEMMA UpAlways == Spec => []UpUntilLost
<1>1. Init => UpUntilLost
  BY DEF Init, UpUntilLost
<1> QED BY <1>1, UpStep, TypeAlways, PTL DEF Spec

LEMMA StaysQuiet ==
  ASSUME TypeInv, UpUntilLost, [Next]_vars, Quiet'
  PROVE  /\ Quiet /\ (ConnectionLost => "loss" \notin Faults)
         /\ \A t \in Tasks : MayCall(t) => conn = "up"
<1>1. losses \in Nat
  BY SubscriptionManagerAssumption DEF TypeInv, TypeOK
<1>2. CASE ConnectionLost
  BY <1>1, <1>2 DEF ConnectionLost, Quiet, UpUntilLost, MayCall
<1>3. CASE ~ConnectionLost
  <2>1. losses' = losses
    BY <1>3 DEF Next, Task, Agent, SubscribeSync, SendRequest, SubscribeReturns, UnSubscribeSync,
       RemoveCallback, SubscribeSent, UnsubscribeSent, Acknowledged, LockTable, Reconnect,
       Resubscribed, vars
  <2> QED BY <1>3, <2>1 DEF Quiet, UpUntilLost, MayCall
<1> QED BY <1>2, <1>3

LEMMA TableStep ==
  ASSUME PrivateFilters
  PROVE  TypeInv /\ UpUntilLost /\ (Quiet => TableInv) /\ [Next]_vars => (Quiet => TableInv)'
<1> SUFFICES ASSUME TypeInv, UpUntilLost, Quiet => TableInv, [Next]_vars, Quiet'
             PROVE  TableInv'
  OBVIOUS
<1>0. /\ TableInv /\ (ConnectionLost => "loss" \notin Faults)
      /\ \A t \in Tasks : MayCall(t) => conn = "up"
  BY StaysQuiet
<1> USE <1>0
<1>1. ASSUME NEW t \in Tasks, Task(t) PROVE TableInv'
  <2>1. CASE SendRequest(t)
    <3>1. conn = "up"
      BY <2>1 DEF SendRequest, TableInv
    <3> QED BY <2>1, <3>1 DEF SendRequest, Goto, table, TableInv, TypeInv, TypeOK,
           Used, EmptySlots, Subscribing
  <2>2. CASE SubscribeSync(t)
    BY <2>2, SubscribeTable DEF SubscribeSync
  <2>3. CASE UnSubscribeSync(t)
    BY <2>3, UnSubscribeTable DEF UnSubscribeSync
  <2> QED BY <1>1, <2>1, <2>2, <2>3, ReturnsTable, RemoveTable DEF Task
<1>2. ASSUME NEW t \in Tasks, SubscribeSent(t) \/ UnsubscribeSent(t) \/ Acknowledged(t)
      PROVE  TableInv'
  <2>1. /\ step[t] # "idle" /\ conn = "up" /\ UNCHANGED <<table, slot, told, conn>>
        /\ \E s \in {"subSent", "unsubSent", "subDone", "unsubDone"} :
             /\ Goto(t, s)
             /\ s \in {"subSent", "subDone"} => Subscribing(t)
    BY <1>2 DEF SubscribeSent, UnsubscribeSent, Acknowledged, table, TableInv, Subscribing
  <2>2. \A s \in Tasks : Subscribing(s)' => Subscribing(s)
    BY <2>1 DEF Goto, Subscribing, TypeInv, TypeOK
  <2>3. \A s \in told' : step'[s] = step[s]
    BY <2>1 DEF Goto, TableInv, TypeInv, TypeOK
  <2> QED BY <2>1, <2>2, <2>3 DEF TableInv, table, Used, EmptySlots
<1>3. CASE LockTable
  BY <1>3 DEF LockTable, client, TableInv, Used, EmptySlots, Subscribing
<1>4. CASE Resubscribed
  <2>1. Resent \subseteq Used
    BY <1>4 DEF Resubscribed, TypeInv
  <2> QED BY <1>4, <2>1 DEF Resubscribed, client, TableInv, Used, EmptySlots, Subscribing
<1>5. CASE UNCHANGED vars
  BY <1>5 DEF vars, TableInv, Used, EmptySlots, Subscribing
<1> QED BY <1>1, <1>2, <1>3, <1>4, <1>5, LostTable, ReconnectTable DEF Next, Agent

LEMMA TableAlways ==
  ASSUME PrivateFilters
  PROVE  Spec => [](Quiet => TableInv)
<1>1. TypeInv /\ UpUntilLost /\ (Quiet => TableInv) /\ [Next]_vars => (Quiet => TableInv)'
  BY TableStep
<1> QED BY <1>1, TableInit, TypeAlways, UpAlways, PTL DEF Spec

(* A callback never stands on the slot of another task's filter.           *)
THEOREM OwnFilters ==
  ASSUME PrivateFilters, "loss" \notin Faults
  PROVE  Spec => []OwnFilterOnly
<1>1. (Quiet => TableInv) => OwnFilterOnly
  BY DEF Quiet, TableInv, OwnFilterOnly
<1> QED BY <1>1, TableAlways, PTL

(* A task that was told its subscription is in force has its callback on a *)
(* slot that holds its filter, wherever slots were freed, reused and moved.*)
THEOREM TableServesTold ==
  ASSUME PrivateFilters, "loss" \notin Faults
  PROVE  Spec => []TableServes
<1>1. TypeInv /\ (Quiet => TableInv) => TableServes
  BY DEF TypeInv, TypeOK, Quiet, TableInv, TableServes
<1> QED BY <1>1, TableAlways, TypeAlways, PTL

-----------------------------------------------------------------------------
(* The first session.                                                      *)

First(t)       == Min(Of(Filter[t]))
OwnCallback(t) == [task |-> t, slot |-> First(t)]

(* An unsubscription lowers the count before it removes the callback.      *)
Counted(i) ==
  \E cb \in cbs : cb.slot = i /\ ~(Unsubscribing(cb.task) /\ i = First(cb.task))

(* What holds of a task: it has the first of the slots with its filter.    *)
TaskOK(t) ==
  /\ t \in told => Filter[t] \in broker
  /\ t \in told \/ Subscribing(t) \/ Unsubscribing(t) => OwnCallback(t) \in cbs
  /\ Subscribing(t) => slot[t] = First(t)
  /\ Unsubscribing(t) => old[t] = 1
  /\ result[t] # "cancelled"
  /\ step[t] \in {"subSent", "subDone"} /\ result[t] = "granted" => Filter[t] \in broker

(* A status is stored only for a task that was told, or that unsubscribes. *)
AckOK(i) ==
  \E t \in Tasks : /\ subs[i] = Filter[t] /\ i = First(t)
                   /\ t \in told \/ Unsubscribing(t)

SessionInv ==
  losses = 0 =>
    /\ conn = "up"
    /\ \A t \in Tasks : TaskOK(t)
    /\ \A i \in acked : AckOK(i)
    /\ \A i \in Slots : count[i] = IF Counted(i) THEN 1 ELSE 0

LEMMA SessionInit == Init => SessionInv
BY DEF Init, SessionInv, TaskOK, Counted, Subscribing, Unsubscribing

(* The slots of a filter do not change unless the filter comes or goes.    *)
LEMMA OfSame ==
  ASSUME TypeInv, NEW t \in Tasks, NEW i \in Slots, NEW v,
         subs[i] # Filter[t], v # Filter[t], subs' = [subs EXCEPT ![i] = v]
  PROVE  Of(Filter[t])' = Of(Filter[t]) /\ First(t)' = First(t)
<1>1. Of(Filter[t])' = Of(Filter[t])
  BY DEF Of, TypeInv, TypeOK
<1> QED BY <1>1 DEF First

LEMMA SubsSame ==
  ASSUME UNCHANGED subs, NEW t
  PROVE  Of(Filter[t])' = Of(Filter[t]) /\ First(t)' = First(t)
BY DEF Of, First

(* A step of another task, or of the agent, that leaves the table alone.   *)
LEMMA SessionFrame ==
  ASSUME SessionInv, losses' = losses, conn' = conn,
         UNCHANGED <<subs, count, cbs>>,
         acked' \subseteq acked, told' = told,
         \A t \in Tasks : TaskOK(t) /\ losses = 0 =>
           TaskOK(t)' /\ (Unsubscribing(t)' <=> Unsubscribing(t)),
         cbs \subseteq [task : Tasks, slot : Slots]
  PROVE  SessionInv'
<1> SUFFICES ASSUME losses = 0
             PROVE  /\ conn' = "up"
                    /\ \A t \in Tasks : TaskOK(t)'
                    /\ \A i \in acked' : AckOK(i)'
                    /\ \A i \in Slots : count'[i] = IF Counted(i)' THEN 1 ELSE 0
  BY DEF SessionInv
<1>1. \A t \in Tasks : TaskOK(t)' /\ (Unsubscribing(t)' <=> Unsubscribing(t))
  BY DEF SessionInv
<1>2. \A t \in Tasks : First(t)' = First(t)
  BY SubsSame
<1>3. \A i \in acked' : AckOK(i)'
  BY <1>1, <1>2 DEF SessionInv, AckOK
<1>4. \A i \in Slots : Counted(i)' <=> Counted(i)
  BY <1>1, <1>2 DEF Counted
<1> QED BY <1>1, <1>3, <1>4 DEF SessionInv

LEMMA SubscribeSession ==
  ASSUME PrivateFilters, TypeInv, TableInv, SessionInv, NEW t \in Tasks, SubscribeSync(t)
  PROVE  SessionInv'
<1> SUFFICES ASSUME losses = 0
             PROVE  /\ conn' = "up"
                    /\ \A s \in Tasks : TaskOK(s)'
                    /\ \A j \in acked' : AckOK(j)'
                    /\ \A j \in Slots : count'[j] = IF Counted(j)' THEN 1 ELSE 0
  BY SubscribeSyncTable DEF SessionInv
<1> DEFINE i == Target(Filter[t])
<1>0. /\ i \in Slots /\ subs[i] \in {Filter[t], Empty}
      /\ \A j \in Of(Filter[t]) : i <= j
      /\ acked' = acked /\ step[t] = "idle" /\ t \notin told
      /\ \/ UNCHANGED <<subs, count, cbs, client>>
         \/ Subscribed(t, i) /\ UNCHANGED <<old, result>>
      /\ UNCHANGED <<conn, losses, broker>>
  BY SubscribeSyncTable
<1> HIDE DEF i
<1>1. /\ conn = "up" /\ \A s \in Tasks : TaskOK(s) /\ \A j \in acked : AckOK(j)
      /\ \A j \in Slots : count[j] = IF Counted(j) THEN 1 ELSE 0
  BY DEF SessionInv
<1>2. CASE UNCHANGED <<subs, count, cbs, client>>
  <2>1. \A s \in Tasks : First(s)' = First(s)
    BY <1>2, SubsSame
  <2>2. \A s : TaskOK(s)' <=> TaskOK(s)
    BY <1>0, <1>2, SubsSame DEF TaskOK, OwnCallback, client, Subscribing, Unsubscribing
  <2>3. \A j : AckOK(j)' <=> AckOK(j)
    BY <1>2, <2>1 DEF AckOK, client, Unsubscribing
  <2>4. \A j : Counted(j)' <=> Counted(j)
    BY <1>2, SubsSame DEF Counted, client, Unsubscribing
  <2> QED BY <1>0, <1>1, <1>2, <2>2, <2>3, <2>4
<1>3. CASE Subscribed(t, i) /\ UNCHANGED <<old, result>>
  \* no status is stored for a task that was not told
  <2>1. i \notin acked
    <3>1. i \in acked => subs[i] # Empty
      BY DEF TableInv, Used, EmptySlots
    <3> QED BY <1>0, <1>1, <3>1 DEF AckOK, PrivateFilters, Unsubscribing
  <2>2. /\ cbs' = cbs \cup {[task |-> t, slot |-> i]}
        /\ count' = [count EXCEPT ![i] = IF [task |-> t, slot |-> i] \notin cbs THEN @ + 1 ELSE @]
        /\ subs' = [subs EXCEPT ![i] = Filter[t]]
        /\ slot' = [slot EXCEPT ![t] = i]
        /\ step' = [step EXCEPT ![t] = "subSend"]
        /\ told' = told
    BY <1>3, <2>1 DEF Subscribed, Goto
  <2>3. Of(Filter[t])' = Of(Filter[t]) \cup {i}
    BY <1>0, <2>2 DEF Of, TypeInv, TypeOK
  <2>4. First(t)' = i
    <3>1. Of(Filter[t])' \in SUBSET Slots
      BY DEF Of
    <3>2. \A j \in Of(Filter[t])' : i <= j
      BY <1>0, <2>3, SlotsFinite
    <3>3. Min(Of(Filter[t])') = i
      BY <2>3, <3>1, <3>2, MinIs
    <3> QED BY <3>3 DEF First
  <2>5. \A s \in Tasks : s # t => First(s)' = First(s)
    <3> SUFFICES ASSUME NEW s \in Tasks, s # t PROVE First(s)' = First(s)
      OBVIOUS
    <3>1. subs[i] # Filter[s] /\ Filter[t] # Filter[s]
      BY <1>0, FiltersNotEmpty DEF PrivateFilters
    <3> QED BY <1>0, <2>2, <3>1, OfSame
  <2>6. \A s \in Tasks : s # t => step'[s] = step[s] /\ slot'[s] = slot[s]
    BY <2>2 DEF TypeInv, TypeOK
  <2>7. step'[t] = "subSend" /\ slot'[t] = i
    BY <2>2 DEF TypeInv, TypeOK
  <2>8. \A s \in Tasks : TaskOK(s)'
    <3>1. TaskOK(t)'
      BY <1>0, <1>1, <1>3, <2>2, <2>4, <2>7 DEF TaskOK, OwnCallback, Subscribing, Unsubscribing
    <3>2. ASSUME NEW s \in Tasks, s # t PROVE TaskOK(s)'
      BY <1>0, <1>1, <1>3, <2>2, <2>5, <2>6, <3>2 DEF TaskOK, OwnCallback, Subscribing, Unsubscribing
    <3> QED BY <3>1, <3>2
  <2>9. \A j \in acked' : AckOK(j)'
    <3> SUFFICES ASSUME NEW j \in acked PROVE AckOK(j)'
      BY <1>0
    <3>1. PICK s \in Tasks : subs[j] = Filter[s] /\ j = First(s) /\ (s \in told \/ Unsubscribing(s))
      BY <1>1 DEF AckOK
    <3>2. s # t /\ j # i /\ j \in Slots
      BY <1>0, <2>1, <3>1 DEF Unsubscribing, TypeInv, TypeOK
    <3>3. subs'[j] = subs[j]
      BY <2>2, <3>2 DEF TypeInv, TypeOK
    <3> QED BY <2>2, <2>5, <2>6, <3>1, <3>2, <3>3 DEF AckOK, Unsubscribing
  <2>10. ASSUME NEW j \in Slots PROVE count'[j] = IF Counted(j)' THEN 1 ELSE 0
    <3>1. \A cb \in cbs : cb.task \in Tasks /\ cb = [task |-> cb.task, slot |-> cb.slot]
      BY DEF TypeInv, TypeOK
    <3>2. ASSUME NEW cb \in cbs
          PROVE  (Unsubscribing(cb.task) /\ j = First(cb.task))' <=> (Unsubscribing(cb.task) /\ j = First(cb.task))
      BY <1>0, <2>5, <2>6, <2>7, <3>1 DEF Unsubscribing
    <3>3. CASE j # i
      <4>1. Counted(j)' <=> Counted(j)
        <5>1. \A cb : cb \in cbs' /\ cb.slot = j => cb \in cbs
          BY <2>2, <3>3
        <5>2. cbs \subseteq cbs'
          BY <2>2
        <5> QED BY <3>2, <5>1, <5>2 DEF Counted
      <4> QED BY <1>1, <2>2, <3>3, <4>1 DEF TypeInv, TypeOK
    <3>4. CASE j = i
      <4>1. Counted(j)'
        <5>1. [task |-> t, slot |-> i] \in cbs' /\ ~Unsubscribing(t)'
          BY <2>2, <2>7 DEF Unsubscribing
        <5>2. [task |-> t, slot |-> i].slot = j /\ [task |-> t, slot |-> i].task = t
          BY <3>4
        <5> QED BY <5>1, <5>2 DEF Counted, Unsubscribing
      <4>2. Counted(i) <=> [task |-> t, slot |-> i] \in cbs
        <5>1. ASSUME NEW cb \in cbs, cb.slot = i PROVE cb = [task |-> t, slot |-> i]
          <6>1. subs[i] = Filter[cb.task] /\ Filter[cb.task] # Empty
            BY <3>1, <5>1, FiltersNotEmpty DEF TableInv
          <6>2. cb.task = t
            BY <1>0, <3>1, <6>1 DEF PrivateFilters
          <6> QED BY <3>1, <5>1, <6>2
        <5>2. ~Unsubscribing(t)
          BY <1>0 DEF Unsubscribing
        <5> QED BY <5>1, <5>2 DEF Counted
      <4>3. count[i] = IF [task |-> t, slot |-> i] \in cbs THEN 1 ELSE 0
        BY <1>0, <1>1, <4>2
      <4> QED BY <1>0, <2>2, <3>4, <4>1, <4>3 DEF TypeInv, TypeOK
    <3> QED BY <3>3, <3>4
  <2> QED BY <1>0, <1>1, <2>8, <2>9, <2>10
<1> QED BY <1>0, <1>2, <1>3

LEMMA ReturnsSession ==
  ASSUME TypeInv, TableInv, SessionInv, NEW t \in Tasks, SubscribeReturns(t)
  PROVE  SessionInv'
<1> SUFFICES ASSUME losses = 0
             PROVE  /\ conn' = "up"
                    /\ \A s \in Tasks : TaskOK(s)'
                    /\ \A j \in acked' : AckOK(j)'
                    /\ \A j \in Slots : count'[j] = IF Counted(j)' THEN 1 ELSE 0
  BY DEF SessionInv, SubscribeReturns
<1>1. /\ conn = "up" /\ \A s \in Tasks : TaskOK(s) /\ \A j \in acked : AckOK(j)
      /\ \A j \in Slots : count[j] = IF Counted(j) THEN 1 ELSE 0
  BY DEF SessionInv
<1>2. /\ step[t] = "subDone" /\ step' = [step EXCEPT ![t] = "idle"]
      /\ slot' = [slot EXCEPT ![t] = 0] /\ old' = [old EXCEPT ![t] = 0]
      /\ result' = [result EXCEPT ![t] = "granted"]
      /\ UNCHANGED <<subs, count, cbs, conn, losses, broker>>
      /\ acked' = StoreStatus(t)
      /\ told' = IF result[t] = "granted" THEN told \cup {t} ELSE told
      /\ t \notin told
  BY DEF SubscribeReturns, Return, Goto, TableInv
<1>3. /\ \A s \in Tasks : s # t => /\ step'[s] = step[s] /\ slot'[s] = slot[s]
                                  /\ old'[s] = old[s] /\ result'[s] = result[s]
      /\ step'[t] = "idle" /\ result'[t] = "granted"
  BY <1>2 DEF TypeInv, TypeOK
<1>4. \A s : First(s)' = First(s)
  BY <1>2, SubsSame
<1>5. \A s \in Tasks : Unsubscribing(s)' <=> Unsubscribing(s)
  BY <1>2, <1>3 DEF Unsubscribing
<1>6. OwnCallback(t) \in cbs /\ slot[t] = First(t) /\ subs[First(t)] = Filter[t]
      /\ (result[t] = "granted" => Filter[t] \in broker)
      /\ result[t] \in {"granted", "refused"}
  <2>1. TaskOK(t) /\ Subscribing(t)
    BY <1>1, <1>2 DEF Subscribing
  <2>2. OwnCallback(t) \in cbs /\ slot[t] = First(t)
    BY <2>1 DEF TaskOK
  <2>3. subs[First(t)] = Filter[t]
    BY <2>2 DEF OwnCallback, TableInv
  <2> QED BY <1>2, <2>1, <2>2, <2>3 DEF TaskOK, TypeInv, TypeOK
<1>7. \A s \in Tasks : TaskOK(s)'
  <2>1. TaskOK(t)'
    BY <1>2, <1>3, <1>4, <1>6 DEF TaskOK, OwnCallback, Subscribing, Unsubscribing
  <2>2. ASSUME NEW s \in Tasks, s # t PROVE TaskOK(s)'
    <3>1. TaskOK(s)
      BY <1>1
    <3>2. s \in told' <=> s \in told
      BY <1>2, <2>2
    <3> QED BY <1>2, <1>3, <1>4, <2>2, <3>1, <3>2
           DEF TaskOK, OwnCallback, Subscribing, Unsubscribing
  <2> QED BY <2>1, <2>2
<1>8. ASSUME NEW j \in acked' PROVE AckOK(j)'
  <2>1. CASE j \in acked
    <3>1. PICK s \in Tasks : subs[j] = Filter[s] /\ j = First(s) /\ (s \in told \/ Unsubscribing(s))
      BY <1>1, <2>1 DEF AckOK
    <3>2. subs'[j] = Filter[s] /\ j = First(s)' /\ (s \in told' \/ Unsubscribing(s)')
      BY <1>2, <1>4, <1>5, <3>1
    <3> QED BY <3>2 DEF AckOK
  <2>2. CASE j \notin acked
    <3>1. j = First(t) /\ result[t] = "granted"
      BY <1>2, <1>6, <1>8, <2>2 DEF StoreStatus
    <3>2. subs'[j] = Filter[t] /\ j = First(t)' /\ t \in told'
      BY <1>2, <1>4, <1>6, <3>1
    <3> QED BY <3>2 DEF AckOK
  <2> QED BY <2>1, <2>2
<1>9. \A j : Counted(j)' <=> Counted(j)
  <2>1. \A cb \in cbs : cb.task \in Tasks
    BY DEF TypeInv, TypeOK
  <2> QED BY <1>2, <1>4, <1>5, <2>1 DEF Counted
<1> QED BY <1>1, <1>2, <1>7, <1>8, <1>9

(* The slot of a task that was told, or that unsubscribes, and who stands  *)
(* on it.                                                                  *)
LEMMA OwnSlot ==
  ASSUME PrivateFilters, TypeInv, TableInv, NEW t \in Tasks, OwnCallback(t) \in cbs
  PROVE  /\ First(t) \in Slots /\ subs[First(t)] = Filter[t]
         /\ First(t) \in Of(Filter[t])
         /\ \A cb \in cbs : cb.slot = First(t) => cb.task = t /\ cb = OwnCallback(t)
<1>1. First(t) \in Slots /\ subs[First(t)] = Filter[t]
  BY DEF OwnCallback, TableInv, TypeInv, TypeOK
<1>2. ASSUME NEW cb \in cbs, cb.slot = First(t)
      PROVE  cb.task = t /\ cb = OwnCallback(t)
  <2>1. subs[First(t)] = Filter[cb.task] /\ cb.task \in Tasks
        /\ cb = [task |-> cb.task, slot |-> cb.slot]
    BY <1>2 DEF TableInv, TypeInv, TypeOK
  <2>2. cb.task = t
    BY <1>1, <2>1 DEF PrivateFilters
  <2> QED BY <1>2, <2>1, <2>2 DEF OwnCallback
<1> QED BY <1>1, <1>2 DEF Of

LEMMA UnSubscribeSession ==
  ASSUME PrivateFilters, TypeInv, TableInv, SessionInv, NEW t \in Tasks, UnSubscribeSync(t)
  PROVE  SessionInv'
<1> SUFFICES ASSUME losses = 0
             PROVE  /\ conn' = "up"
                    /\ \A s \in Tasks : TaskOK(s)'
                    /\ \A j \in acked' : AckOK(j)'
                    /\ \A j \in Slots : count'[j] = IF Counted(j)' THEN 1 ELSE 0
  BY DEF SessionInv, UnSubscribeSync
<1>1. /\ conn = "up" /\ \A s \in Tasks : TaskOK(s) /\ \A j \in acked : AckOK(j)
      /\ \A j \in Slots : count[j] = IF Counted(j) THEN 1 ELSE 0
  BY DEF SessionInv
<1>2. step[t] = "idle" /\ t \in told /\ OwnCallback(t) \in cbs
  BY <1>1 DEF UnSubscribeSync, MayCall, TaskOK
<1>3. /\ First(t) \in Slots /\ subs[First(t)] = Filter[t] /\ First(t) \in Of(Filter[t])
      /\ \A cb \in cbs : cb.slot = First(t) => cb.task = t /\ cb = OwnCallback(t)
  BY <1>2, OwnSlot
<1>4. count[First(t)] = 1
  <2>1. OwnCallback(t).slot = First(t) /\ OwnCallback(t).task = t
    BY DEF OwnCallback
  <2>2. Counted(First(t))
    BY <1>2, <2>1 DEF Counted, Unsubscribing
  <2> QED BY <1>1, <1>3, <2>2
<1>5. /\ old' = [old EXCEPT ![t] = 1]
      /\ count' = [count EXCEPT ![First(t)] = 0]
      /\ step' = [step EXCEPT ![t] = "unsubSend"]
      /\ told' = told \ {t}
      /\ UNCHANGED <<subs, acked, cbs, slot, result, conn, losses, broker>>
  BY <1>3, <1>4 DEF UnSubscribeSync, Lowered, Goto, First, TypeInv, TypeOK
<1>6. /\ \A s \in Tasks : s # t => step'[s] = step[s] /\ old'[s] = old[s]
      /\ step'[t] = "unsubSend" /\ old'[t] = 1
  BY <1>5 DEF TypeInv, TypeOK
<1>7. \A s : First(s)' = First(s)
  BY <1>5, SubsSame
<1>8. \A s \in Tasks : TaskOK(s)'
  <2>1. TaskOK(t)'
    <3>1. TaskOK(t)
      BY <1>1
    <3> QED BY <1>2, <1>5, <1>6, <1>7, <3>1 DEF TaskOK, OwnCallback, Subscribing, Unsubscribing
  <2>2. ASSUME NEW s \in Tasks, s # t PROVE TaskOK(s)'
    <3>1. TaskOK(s)
      BY <1>1
    <3> QED BY <1>5, <1>6, <1>7, <2>2, <3>1 DEF TaskOK, OwnCallback, Subscribing, Unsubscribing
  <2> QED BY <2>1, <2>2
<1>9. ASSUME NEW j \in acked' PROVE AckOK(j)'
  <2>1. PICK s \in Tasks : subs[j] = Filter[s] /\ j = First(s) /\ (s \in told \/ Unsubscribing(s))
    BY <1>1, <1>5 DEF AckOK
  <2>2. s \in told' \/ Unsubscribing(s)'
    BY <1>5, <1>6, <2>1 DEF Unsubscribing
  <2> QED BY <1>5, <1>7, <2>1, <2>2 DEF AckOK
<1>10. ASSUME NEW j \in Slots PROVE count'[j] = IF Counted(j)' THEN 1 ELSE 0
  <2>1. \A cb \in cbs : cb.task \in Tasks
    BY DEF TypeInv, TypeOK
  <2>2. CASE j = First(t)
    <3>1. ~Counted(j)'
      BY <1>3, <1>5, <1>6, <1>7, <2>2 DEF Counted, Unsubscribing
    <3> QED BY <1>3, <1>5, <2>2, <3>1 DEF TypeInv, TypeOK
  <2>3. CASE j # First(t)
    <3>1. ASSUME NEW cb \in cbs
          PROVE  (Unsubscribing(cb.task) /\ j = First(cb.task))' <=> (Unsubscribing(cb.task) /\ j = First(cb.task))
      BY <1>6, <1>7, <2>1, <2>3 DEF Unsubscribing
    <3>2. Counted(j)' <=> Counted(j)
      BY <1>5, <3>1 DEF Counted
    <3> QED BY <1>1, <1>5, <2>3, <3>2 DEF TypeInv, TypeOK
  <2> QED BY <2>2, <2>3
<1> QED BY <1>1, <1>5, <1>8, <1>9, <1>10

LEMMA RemoveSession ==
  ASSUME PrivateFilters, TypeInv, TableInv, SessionInv, NEW t \in Tasks, RemoveCallback(t)
  PROVE  SessionInv'
<1> SUFFICES ASSUME losses = 0
             PROVE  /\ conn' = "up"
                    /\ \A s \in Tasks : TaskOK(s)'
                    /\ \A j \in acked' : AckOK(j)'
                    /\ \A j \in Slots : count'[j] = IF Counted(j)' THEN 1 ELSE 0
  BY DEF SessionInv, RemoveCallback
<1> DEFINE i == First(t)
<1>1. /\ conn = "up" /\ \A s \in Tasks : TaskOK(s) /\ \A j \in acked : AckOK(j)
      /\ \A j \in Slots : count[j] = IF Counted(j) THEN 1 ELSE 0
  BY DEF SessionInv
<1>2. step[t] = "unsubDone" /\ OwnCallback(t) \in cbs /\ old[t] = 1 /\ t \notin told
  BY <1>1 DEF RemoveCallback, TaskOK, Unsubscribing, TableInv
<1>3. /\ i \in Slots /\ subs[i] = Filter[t] /\ i \in Of(Filter[t])
      /\ \A cb \in cbs : cb.slot = i => cb.task = t /\ cb = OwnCallback(t)
  BY <1>2, OwnSlot
<1>4. count[i] = 0
  <2>1. ~Counted(i)
    BY <1>2, <1>3 DEF Counted, Unsubscribing
  <2> QED BY <1>1, <1>3, <2>1
<1>5. Min({j \in Of(Filter[t]) : count[j] = 0}) = i
  <2>1. \A j \in Of(Filter[t]) : i <= j
    BY <1>3, MinOfSlots DEF First, Of
  <2>2. {j \in Of(Filter[t]) : count[j] = 0} \in SUBSET Slots
    BY DEF Of
  <2> HIDE DEF i
  <2> QED BY <1>3, <1>4, <2>1, <2>2, MinIs
<1>6. /\ cbs' = cbs \ {OwnCallback(t)}
      /\ subs' = [subs EXCEPT ![i] = Empty]
      /\ acked' = acked \ {i}
      /\ count' = count
      /\ step' = [step EXCEPT ![t] = "idle"] /\ slot' = [slot EXCEPT ![t] = 0]
      /\ old' = [old EXCEPT ![t] = 0] /\ result' = [result EXCEPT ![t] = "granted"]
      /\ UNCHANGED <<told, conn, losses, broker>>
  <2>1. i \in {j \in Of(Filter[t]) : count[j] = 0}
    BY <1>3, <1>4
  <2> HIDE DEF i
  <2>2. OwnCallback(t) = [task |-> t, slot |-> i]
    BY DEF OwnCallback, i
  <2> QED BY <1>2, <1>5, <2>1, <2>2 DEF RemoveCallback, Return, Goto
<1> HIDE DEF i
<1>7. /\ \A s \in Tasks : s # t => /\ step'[s] = step[s] /\ slot'[s] = slot[s]
                                  /\ old'[s] = old[s] /\ result'[s] = result[s]
      /\ step'[t] = "idle" /\ result'[t] = "granted"
  BY <1>6 DEF TypeInv, TypeOK
<1>8. ASSUME NEW s \in Tasks, s # t PROVE First(s)' = First(s)
  <2>1. subs[i] # Filter[s] /\ Empty # Filter[s]
    BY <1>3, <1>8, FiltersNotEmpty DEF PrivateFilters
  <2> QED BY <1>3, <1>6, <2>1, OfSame
<1>9. \A s \in Tasks : TaskOK(s)'
  <2>1. TaskOK(t)'
    BY <1>2, <1>6, <1>7 DEF TaskOK, Subscribing, Unsubscribing
  <2>2. ASSUME NEW s \in Tasks, s # t PROVE TaskOK(s)'
    <3>1. TaskOK(s) /\ OwnCallback(s) # OwnCallback(t) /\ First(s)' = First(s)
      BY <1>1, <1>8, <2>2 DEF OwnCallback
    <3> QED BY <1>6, <1>7, <2>2, <3>1 DEF TaskOK, OwnCallback, Subscribing, Unsubscribing
  <2> QED BY <2>1, <2>2
<1>10. ASSUME NEW j \in acked' PROVE AckOK(j)'
  <2>1. PICK s \in Tasks : subs[j] = Filter[s] /\ j = First(s) /\ (s \in told \/ Unsubscribing(s))
    BY <1>1, <1>6 DEF AckOK
  <2>2. s # t /\ j # i
    BY <1>6, <2>1 DEF i
  <2>3. subs'[j] = Filter[s]
    BY <1>6, <2>1, <2>2 DEF TypeInv, TypeOK
  <2>4. s \in told' \/ Unsubscribing(s)'
    BY <1>6, <1>7, <2>1, <2>2 DEF Unsubscribing
  <2>5. j = First(s)'
    BY <1>8, <2>1, <2>2
  <2> QED BY <2>3, <2>4, <2>5 DEF AckOK
<1>11. ASSUME NEW j \in Slots PROVE count'[j] = IF Counted(j)' THEN 1 ELSE 0
  <2>1. \A cb \in cbs : cb.task \in Tasks
    BY DEF TypeInv, TypeOK
  <2>2. CASE j = i
    <3>1. ~Counted(j)'
      BY <1>3, <1>6, <2>2 DEF Counted
    <3> QED BY <1>4, <1>6, <2>2, <3>1
  <2>3. CASE j # i
    <3>1. ASSUME NEW cb \in cbs, cb.slot = j
          PROVE  /\ cb # OwnCallback(t)
                 /\ (Unsubscribing(cb.task) /\ j = First(cb.task))' <=> (Unsubscribing(cb.task) /\ j = First(cb.task))
      <4>1. cb # OwnCallback(t)
        BY <2>3, <3>1 DEF OwnCallback, i
      <4>2. CASE cb.task = t
        BY <1>7, <2>3, <4>1, <4>2 DEF Unsubscribing, i
      <4>3. CASE cb.task # t
        BY <1>7, <1>8, <2>1, <4>1, <4>3 DEF Unsubscribing
      <4> QED BY <4>2, <4>3
    <3>2. Counted(j)' <=> Counted(j)
      BY <1>6, <3>1 DEF Counted
    <3> QED BY <1>1, <1>6, <3>2
  <2> QED BY <2>2, <2>3
<1> QED BY <1>1, <1>6, <1>9, <1>10, <1>11

LEMMA SessionStep ==
  ASSUME PrivateFilters
  PROVE  TypeInv /\ UpUntilLost /\ (Quiet => TableInv) /\ SessionInv /\ [Next]_vars => SessionInv'
<1> SUFFICES ASSUME TypeInv, UpUntilLost, Quiet => TableInv, SessionInv, [Next]_vars, losses' = 0
             PROVE  SessionInv'
  BY DEF SessionInv
<1>a. TableInv
  BY StaysQuiet DEF Quiet
<1> USE <1>a
<1>0. cbs \subseteq [task : Tasks, slot : Slots]
  BY DEF TypeInv, TypeOK
<1>1. ASSUME NEW t \in Tasks, SendRequest(t) \/ SubscribeSent(t) \/ UnsubscribeSent(t) \/ Acknowledged(t)
      PROVE  SessionInv'
  <2>1. /\ UNCHANGED <<table, slot, old, told, conn, losses>>
        /\ \E s \in {"subQueued", "unsubQueued", "subSent", "unsubSent", "subDone", "unsubDone"} :
             step' = [step EXCEPT ![t] = s]
    BY <1>1 DEF SendRequest, SubscribeSent, UnsubscribeSent, Acknowledged, table, Goto
  <2>2. \A s \in Tasks : s # t => step'[s] = step[s]
    BY <2>1 DEF TypeInv, TypeOK
  <2>3. \A s \in Tasks : First(s)' = First(s)
    BY <2>1, SubsSame DEF table
  <2>4. ASSUME NEW s \in Tasks, TaskOK(s), losses = 0
        PROVE  TaskOK(s)' /\ (Unsubscribing(s)' <=> Unsubscribing(s))
    <3>1. CASE SendRequest(t)
      BY <2>1, <2>2, <2>3, <2>4, <3>1
         DEF SendRequest, Goto, table, TaskOK, OwnCallback, Subscribing, Unsubscribing, TypeInv, TypeOK
    <3>2. CASE SubscribeSent(t)
      <4>1. subs[slot[t]] = Filter[t]
        BY <3>2 DEF SubscribeSent, Subscribing, TableInv
      <4>2. PICK answer \in {"granted", "refused"} :
              /\ result' = [result EXCEPT ![t] = answer]
              /\ broker' = IF answer = "granted" THEN broker \cup {Filter[t]} ELSE broker
        BY <3>2, <4>1 DEF SubscribeSent
      <4>3. step[t] = "subQueued" /\ step' = [step EXCEPT ![t] = "subSent"]
        BY <3>2 DEF SubscribeSent, Goto
      <4> QED BY <2>1, <2>2, <2>3, <2>4, <4>2, <4>3
             DEF table, TaskOK, OwnCallback, Subscribing, Unsubscribing, TypeInv, TypeOK
    <3>3. CASE UnsubscribeSent(t)
      <4>1. /\ step[t] = "unsubQueued" /\ step' = [step EXCEPT ![t] = "unsubSent"]
            /\ broker' = broker \ {Filter[t]} /\ result' = result
        BY <3>3 DEF UnsubscribeSent, Goto
      <4>2. t \notin told
        BY <4>1 DEF TableInv
      <4>3. s # t => Filter[s] # Filter[t]
        BY DEF PrivateFilters
      <4> QED BY <2>1, <2>2, <2>3, <2>4, <4>1, <4>2, <4>3
             DEF table, TaskOK, OwnCallback, Subscribing, Unsubscribing, TypeInv, TypeOK
    <3>4. CASE Acknowledged(t)
      BY <2>1, <2>2, <2>3, <2>4, <3>4
         DEF Acknowledged, Goto, table, TaskOK, OwnCallback, Subscribing, Unsubscribing, TypeInv, TypeOK
    <3> QED BY <1>1, <3>1, <3>2, <3>3, <3>4
  <2> QED BY <1>0, <2>1, <2>4, SessionFrame DEF table
<1>2. CASE ConnectionLost
  BY <1>2, SubscriptionManagerAssumption DEF ConnectionLost, SessionInv, TypeInv, TypeOK
<1>3. CASE LockTable \/ Reconnect \/ Resubscribed
  BY <1>3 DEF LockTable, Reconnect, Resubscribed, SessionInv
<1>4. CASE UNCHANGED vars
  <2>1. \A s \in Tasks : TaskOK(s)' <=> TaskOK(s)
    BY <1>4, SubsSame DEF vars, TaskOK, OwnCallback, Subscribing, Unsubscribing
  <2> QED BY <1>0, <1>4, <2>1, SessionFrame DEF vars, Unsubscribing
<1> QED BY <1>1, <1>2, <1>3, <1>4, SubscribeSession, ReturnsSession, UnSubscribeSession,
       RemoveSession DEF Next, Agent, Task

(* Until the connection is lost a first time, at whatever moment, the      *)
(* broker holds the filter of every task that was told its subscription is *)
(* in force.                                                               *)
THEOREM BrokerServesTold ==
  ASSUME PrivateFilters
  PROVE  Spec => []BrokerServes
<1>1. TypeInv /\ UpUntilLost /\ (Quiet => TableInv) /\ SessionInv /\ [Next]_vars
        => SessionInv'
  BY SessionStep
<1>2. TypeInv /\ SessionInv => BrokerServes
  BY DEF TypeInv, TypeOK, SessionInv, TaskOK, BrokerServes
<1> QED BY <1>1, <1>2, SessionInit, TypeAlways, UpAlways, TableAlways, PTL DEF Spec
=============================================================================
