-------------------------- MODULE MqttAgent_proofs --------------------------
(***************************************************************************)
(* Proofs about MqttAgent, for any set of tasks, any pool and any of the   *)
(* network's events.                                                       *)
(*                                                                         *)
(* A command moves from the queue to the agent's hands and on to the       *)
(* commands that await an acknowledgment; AgentInv says when it is in the  *)
(* agent's hands, and Count what a message taken or put does to the queue. *)
(* PoolInv accounts for the command structures, from which the bounds of   *)
(* the queue and the pool follow; CleanInv describes the time before the   *)
(* first connection.                                                       *)
(***************************************************************************)
EXTENDS MqttAgent, FiniteSetTheorems, TLAPS

Positions(s, c) == {i \in DOMAIN s : s[i] = c}
Count(s, c) == Cardinality(Positions(s, c))
Bit(b) == IF b THEN 1 ELSE 0

Shape ==
  /\ pc \in AgentPoints
  /\ current \in Commands \cup {NoCommand}
  /\ queue \in Seq(Commands)
  /\ awaiting \in [Commands -> Nat]
  /\ mutex \in {"agent", "free"}
  /\ step \in [Tasks -> {"idle", "check", "request", "notify", "wait", "remove"}]
  /\ op \in [Tasks -> {"subscribe", "unsubscribe"}]
  /\ answer \in [Tasks -> {"none", "success", "failure"}]

AgentInv ==
  /\ Shape
  /\ pc = "execute" => current # NoCommand
  /\ current # NoCommand => pc \in {"execute", "halted", "faulted"}

LEMMA Constants ==
  /\ Commands = Tasks \cup {Resubscribe}
  /\ Resubscribe \notin Tasks /\ NoCommand \notin Commands
  /\ NoCommand \notin Tasks /\ NoCommand # Resubscribe
BY MqttAgentAssumption DEF Commands

-----------------------------------------------------------------------------
(* Counting in a sequence.                                                 *)

LEMMA IntervalSize ==
  ASSUME NEW n \in Nat
  PROVE  IsFiniteSet(1 .. n) /\ Cardinality(1 .. n) = n
<1>1. 1 \in Int /\ n \in Int /\ (IF 1 > n THEN 0 ELSE n - 1 + 1) = n
  OBVIOUS
<1>2. /\ IsFiniteSet(1 .. n)
      /\ Cardinality(1 .. n) = IF 1 > n THEN 0 ELSE n - 1 + 1
  BY <1>1, FS_Interval
<1> QED BY <1>1, <1>2

LEMMA CountType ==
  ASSUME NEW S, NEW s \in Seq(S), NEW c
  PROVE  IsFiniteSet(Positions(s, c)) /\ Count(s, c) \in Nat
<1>1. Positions(s, c) \in SUBSET (1 .. Len(s))
  BY DEF Positions
<1>2. IsFiniteSet(1 .. Len(s))
  BY IntervalSize
<1> QED BY <1>1, <1>2, FS_Subset, FS_CardinalityType DEF Count

LEMMA CountEmpty == ASSUME NEW c PROVE Count(<<>>, c) = 0
<1>1. Positions(<<>>, c) = {}
  BY DEF Positions
<1> QED BY <1>1, FS_EmptySet DEF Count

LEMMA CountAppend ==
  ASSUME NEW S, NEW s \in Seq(S), NEW e \in S, NEW c
  PROVE  Count(Append(s, e), c) = Count(s, c) + Bit(e = c)
<1> DEFINE n == Len(s) + 1
<1>1. n \notin Positions(s, c)
  BY DEF Positions
<1>2. IsFiniteSet(Positions(s, c)) /\ Count(s, c) \in Nat
  BY CountType
<1>3. CASE e = c
  <2>1. Positions(Append(s, e), c) = Positions(s, c) \cup {n}
    BY <1>3 DEF Positions
  <2> HIDE DEF n
  <2> QED BY <1>1, <1>2, <1>3, <2>1, FS_AddElement DEF Count, Bit
<1>4. CASE e # c
  <2>1. Positions(Append(s, e), c) = Positions(s, c)
    BY <1>4 DEF Positions
  <2> QED BY <1>2, <1>4, <2>1 DEF Count, Bit
<1> QED BY <1>3, <1>4

LEMMA CountTail ==
  ASSUME NEW S, NEW s \in Seq(S), s # <<>>, NEW c
  PROVE  Count(s, c) = Count(Tail(s), c) + Bit(Head(s) = c)
<1> DEFINE R == Positions(s, c) \ {1}
           P == Positions(Tail(s), c)
           f == [i \in P |-> i + 1]
<1>1. Tail(s) \in Seq(S) /\ Len(s) \in Nat \ {0}
  OBVIOUS
<1>2. IsFiniteSet(P) /\ Cardinality(P) \in Nat
  BY <1>1, CountType DEF Count
<1>3. Cardinality(R) = Cardinality(P) /\ IsFiniteSet(R)
  <2>1. \A i \in P : i + 1 \in R
    BY <1>1 DEF Positions
  <2>2. \A j \in R : j - 1 \in P /\ (j - 1) + 1 = j
    BY <1>1 DEF Positions
  <2>3. P \subseteq Nat
    BY <1>1 DEF Positions
  <2> HIDE DEF P, R
  <2>4. f \in [P -> R]
    BY <2>1
  <2>5. \A a, b \in P : f[a] = f[b] => a = b
    BY <2>3
  <2>6. \A j \in R : \E i \in P : f[i] = j
    BY <2>2
  <2>7. f \in Bijection(P, R)
    BY <2>4, <2>5, <2>6 DEF Bijection, Injection, Surjection, IsInjective
  <2> QED BY <1>2, <2>7, FS_Bijection DEF ExistsBijection
<1>4. CASE Head(s) = c
  <2>1. Positions(s, c) = R \cup {1} /\ 1 \notin R
    BY <1>1, <1>4 DEF Positions
  <2> HIDE DEF R, P
  <2>2. Cardinality(Positions(s, c)) = Cardinality(R) + 1
    BY <1>3, <2>1, FS_AddElement
  <2>3. Cardinality(Positions(s, c)) = Cardinality(Positions(Tail(s), c)) + 1
    BY <1>3, <2>2 DEF P
  <2> QED BY <1>4, <2>3 DEF Count, Bit
<1>5. CASE Head(s) # c
  <2>1. Positions(s, c) = R
    BY <1>1, <1>5 DEF Positions
  <2>2. Cardinality(Positions(s, c)) = Cardinality(Positions(Tail(s), c))
    BY <1>3, <2>1
  <2>3. Bit(Head(s) = c) = 0
    BY <1>5 DEF Bit
  <2>4. Count(Tail(s), c) \in Nat
    BY <1>2 DEF Count
  <2> QED BY <2>2, <2>3, <2>4 DEF Count
<1> QED BY <1>4, <1>5

LEMMA PlacesAre ==
  ASSUME NEW c
  PROVE  /\ Places(c) = Count(queue, c) + awaiting[c] + Bit(current = c)
         /\ Places(c)' = Count(queue', c) + awaiting'[c] + Bit(current' = c)
BY DEF Places, Count, Positions, Bit

LEMMA PlacesType ==
  ASSUME Shape, NEW c \in Commands
  PROVE  Count(queue, c) \in Nat /\ awaiting[c] \in Nat /\ Places(c) \in Nat
<1>1. Count(queue, c) \in Nat
  BY CountType DEF Shape
<1>2. awaiting[c] \in Nat
  BY DEF Shape
<1>3. Bit(current = c) \in Nat
  BY DEF Bit
<1> QED BY <1>1, <1>2, <1>3, PlacesAre

-----------------------------------------------------------------------------
LEMMA AgentInit == Init => AgentInv /\ WaiterHasCommand /\ MutexHandedOver
<1> SUFFICES ASSUME Init PROVE AgentInv /\ WaiterHasCommand /\ MutexHandedOver
  OBVIOUS
<1>1. AgentInv
  <2>1. awaiting \in [Commands -> Nat]
    BY DEF Init
  <2>2. queue \in Seq(Commands)
    BY DEF Init
  <2> QED BY <2>1, <2>2 DEF Init, AgentInv, Shape, AgentPoints
<1>2. ASSUME NEW t \in Tasks PROVE Places(t) = 0
  <2>1. Count(queue, t) = 0 /\ awaiting[t] = 0 /\ Bit(current = t) = 0
    BY CountEmpty, Constants DEF Init, Bit
  <2> QED BY <2>1, PlacesAre
<1>3. WaiterHasCommand
  BY <1>2 DEF Init, WaiterHasCommand
<1>4. MutexHandedOver
  BY DEF Init, MutexHandedOver
<1> QED BY <1>1, <1>3, <1>4

LEMMA AgentStep == AgentInv /\ [Next]_vars => AgentInv'
<1> SUFFICES ASSUME AgentInv, [Next]_vars PROVE AgentInv'
  OBVIOUS
<1> USE Constants DEF AgentInv, Shape, AgentPoints, agent, cmds, table, net, client
<1>1. ASSUME NEW t \in Tasks, Client(t) PROVE AgentInv'
  <2>1. CASE SendRequest(t)
    <3>1. queue' \in Seq(Commands)
      BY <2>1 DEF SendRequest
    <3>2. answer' \in [Tasks -> {"none", "success", "failure"}]
      BY <2>1 DEF SendRequest
    <3> QED BY <2>1, <3>1, <3>2 DEF SendRequest
  <2>2. CASE RequestDone(t)
    BY <2>2 DEF RequestDone
  <2>3. CASE SubscribeSync(t) \/ CheckStatus(t) \/ UnSubscribeSync(t) \/ NotifyAgent(t)
             \/ RemoveEntry(t)
    BY <2>3 DEF SubscribeSync, CheckStatus, UnSubscribeSync, NotifyAgent, RemoveEntry
  <2> QED BY <1>1, <2>1, <2>2, <2>3 DEF Client
<1>2. CASE prvSocketRecvReadyCallback
  BY <1>2 DEF prvSocketRecvReadyCallback
<1>3. ASSUME NEW done, NEW n, NEW r \in {"success", "failure"}, Callbacks(done, n, r)
      PROVE  /\ answer' \in [Tasks -> {"none", "success", "failure"}]
             /\ mutex' \in {"agent", "free"}
  BY <1>3 DEF Callbacks
<1>4. ASSUME NEW c \in Commands \cup {NoCommand}, prvAgentMessageReceive(c)
      PROVE  queue' \in Seq(Commands)
  <2>1. queue # <<>> => Tail(queue) \in Seq(Commands)
    OBVIOUS
  <2> QED BY <1>4, <2>1 DEF prvAgentMessageReceive, MessageTaken
<1>5. ASSUME NEW p \in {"halted", "faulted"}, Stop(p) PROVE AgentInv'
  BY <1>5 DEF Stop
<1>6. ASSUME NEW n, CancelStops(n) PROVE AgentInv'
  BY <1>5, <1>6 DEF CancelStops
<1>7. CASE CancelQueued
  <2>1. CASE CancelStops(Resubs({Head(queue)}))
    BY <1>6, <2>1
  <2>2. CASE /\ prvAgentMessageReceive(Head(queue))
             /\ Callbacks(TasksIn({Head(queue)}), Resubs({Head(queue)}), "failure")
             /\ UNCHANGED <<agent, awaiting, subs, net, step, op, granted>>
    <3>1. Head(queue) \in Commands
      BY <1>7 DEF CancelQueued, MessageTaken
    <3> QED BY <1>3, <1>4, <2>2, <3>1
  <2> QED BY <1>7, <2>1, <2>2 DEF CancelQueued
<1>8. CASE CancelAwaiting
  <2>1. CASE CancelStops(awaiting[Resubscribe])
    BY <1>6, <2>1
  <2>2. CASE /\ prvAgentMessageReceive(NoCommand)
             /\ Callbacks({t \in Tasks : awaiting[t] > 0}, awaiting[Resubscribe], "failure")
             /\ awaiting' = [c \in Commands |-> 0]
             /\ pc' = AfterCancel
             /\ UNCHANGED <<current, subs, cleanSession, connected, net, step, op, granted>>
    <3>1. queue' \in Seq(Commands)
      BY <1>4, <2>2
    <3>2. pc' \in {"mqttConnect", "lock"} /\ pc \in {"cancelStale", "cancelAll"}
      BY <1>8, <2>2 DEF CancelAwaiting, AfterCancel
    <3>3. awaiting' \in [Commands -> Nat]
      BY <2>2
    <3> QED BY <1>3, <2>2, <3>1, <3>2, <3>3
  <2> QED BY <1>8, <2>1, <2>2 DEF CancelAwaiting
<1>9. CASE TransportConnect \/ MqttConnectFails \/ StartCleanSession \/ ResumeSession
           \/ StartSession \/ DisconnectAndLock
  BY <1>9 DEF TransportConnect, MqttConnectFails, StartCleanSession, ResumeSession,
     StartSession, DisconnectAndLock
<1>10. CASE prvHandleResubscribe
  <2>1. CASE EnqueueResubscribe
    <3>1. queue' \in Seq(Commands)
      BY <2>1 DEF EnqueueResubscribe
    <3> QED BY <1>10, <2>1, <3>1 DEF prvHandleResubscribe, EnqueueResubscribe
  <2>2. CASE ResubscribeNothing \/ ResubscribeRefused
    BY <1>10, <2>2 DEF prvHandleResubscribe, ResubscribeNothing, ResubscribeRefused
  <2> QED BY <1>5, <1>10, <2>1, <2>2 DEF prvHandleResubscribe
<1>11. CASE ReceiveCommand
  <2>1. PICK c \in Commands \cup {NoCommand} :
          /\ prvAgentMessageReceive(c)
          /\ current' = c
          /\ pc' = IF c = NoCommand THEN "process" ELSE "execute"
    BY <1>11 DEF ReceiveCommand
  <2> QED BY <1>4, <1>11, <2>1 DEF ReceiveCommand
<1>12. CASE ExecuteCommand
  <2>1. current \in Commands
    BY <1>12 DEF ExecuteCommand
  <2>2. awaiting' \in [Commands -> Nat]
    BY <1>12, <2>1 DEF ExecuteCommand
  <2> QED BY <1>12, <2>2 DEF ExecuteCommand
<1>13. CASE ExecuteFails
  <2>1. CASE CancelStops(Resubs({current}))
    BY <1>6, <2>1
  <2>2. CASE /\ Callbacks(TasksIn({current}), Resubs({current}), "failure")
             /\ current' = NoCommand
             /\ pc' = "cancelAll"
             /\ UNCHANGED <<queue, flags, awaiting, subs, cleanSession, connected, net, step,
                            op, granted>>
    BY <1>3, <2>2
  <2> QED BY <1>13, <2>1, <2>2 DEF ExecuteFails
<1>14. CASE ReceiveAck
  <2>1. PICK c \in Commands :
          /\ awaiting[c] > 0
          /\ \/ /\ Callbacks(TasksIn({c}), Resubs({c}), "success")
                /\ awaiting' = [awaiting EXCEPT ![c] = @ - 1]
                /\ UNCHANGED <<agent, queue, flags, subs, net, step, op, granted>>
             \/ Stop("halted")
    BY <1>14 DEF ReceiveAck
  <2>2. CASE Stop("halted")
    BY <1>5, <2>2
  <2>3. CASE /\ Callbacks(TasksIn({c}), Resubs({c}), "success")
             /\ awaiting' = [awaiting EXCEPT ![c] = @ - 1]
             /\ UNCHANGED <<agent, queue, flags, subs, net, step, op, granted>>
    <3>1. awaiting' \in [Commands -> Nat]
      BY <2>1, <2>3
    <3> QED BY <1>3, <2>3, <3>1
  <2> QED BY <2>1, <2>2, <2>3
<1>15. CASE ReceivePublish \/ ProcessLoopEnds \/ ConnectionLost
  BY <1>15 DEF ReceivePublish, ProcessLoopEnds, ConnectionLost
<1>16. CASE WatchdogReset
  BY <1>16 DEF WatchdogReset
<1>17. CASE UNCHANGED vars
  BY <1>17 DEF vars
<1> QED
  BY <1>1, <1>2, <1>7, <1>8, <1>9, <1>10, <1>11, <1>12, <1>13, <1>14, <1>15, <1>16, <1>17
  DEF Next, Connecting, Serving

LEMMA AgentAlways == Spec => []AgentInv
BY AgentInit, AgentStep, PTL DEF Spec

-----------------------------------------------------------------------------
(* The one place a command leaves when the agent takes it from the queue.  *)
LEMMA TakenFromQueue ==
  ASSUME Shape, NEW c, prvAgentMessageReceive(c), NEW x \in Commands
  PROVE  /\ Count(queue, x) = Count(queue', x) + Bit(c = x)
         /\ Count(queue', x) \in Nat
<1>1. CASE MessageTaken /\ c = Head(queue) /\ queue' = Tail(queue)
  <2>1. queue \in Seq(Commands) /\ queue # <<>> /\ Tail(queue) \in Seq(Commands)
    BY <1>1 DEF MessageTaken, Shape
  <2> QED BY <1>1, <2>1, CountTail, CountType
<1>2. CASE c = NoCommand /\ queue' = queue
  <2>1. Bit(c = x) = 0
    BY <1>2, Constants DEF Bit
  <2>2. Count(queue, x) \in Nat
    BY PlacesType
  <2> QED BY <1>2, <2>1, <2>2
<1> QED BY <1>1, <1>2 DEF prvAgentMessageReceive

Waits(t) == step[t] \in {"notify", "wait"} /\ answer[t] = "none"

(* A step that calls the callbacks of the commands of the tasks in done,   *)
(* and takes these commands from where they were.                          *)
LEMMA CallbackEffect ==
  ASSUME WaiterHasCommand, Shape, step' = step, NEW t \in Tasks,
         NEW done \in SUBSET Tasks, NEW n, NEW r \in {"success", "failure"},
         Callbacks(done, n, r),
         t \in done => Places(t) > 0 /\ (Places(t) = 1 => Places(t)' = 0),
         t \notin done => Places(t)' = Places(t)
  PROVE  Places(t)' = IF Waits(t)' THEN 1 ELSE 0
<1>1. Places(t) = IF Waits(t) THEN 1 ELSE 0
  BY DEF WaiterHasCommand, Waits
<1>2. CASE t \in done
  <2>1. answer'[t] # "none"
    BY <1>2 DEF Callbacks
  <2>2. Places(t)' = 0
    BY <1>1, <1>2
  <2> QED BY <2>1, <2>2 DEF Waits
<1>3. CASE t \notin done
  <2>1. answer'[t] = answer[t]
    BY <1>3 DEF Callbacks
  <2> QED BY <1>1, <1>3, <2>1 DEF Waits
<1> QED BY <1>2, <1>3

LEMMA WaiterStep == AgentInv /\ WaiterHasCommand /\ [Next]_vars => WaiterHasCommand'
<1> SUFFICES ASSUME AgentInv, WaiterHasCommand, [Next]_vars, NEW t \in Tasks
             PROVE  Places(t)' = IF Waits(t)' THEN 1 ELSE 0
  BY DEF WaiterHasCommand, Waits
<1> USE DEF agent, cmds, table, net, client
<1>0. Shape /\ t \in Commands
  BY Constants DEF AgentInv
<1>1. Places(t) = IF Waits(t) THEN 1 ELSE 0
  BY DEF WaiterHasCommand, Waits
<1>2. Count(queue, t) \in Nat /\ awaiting[t] \in Nat
  BY <1>0, PlacesType
<1>3. ASSUME UNCHANGED <<queue, awaiting, current>> PROVE Places(t)' = Places(t)
  BY <1>3, PlacesAre
<1>4. ASSUME UNCHANGED <<queue, awaiting, current, step, answer>>
      PROVE  Places(t)' = IF Waits(t)' THEN 1 ELSE 0
  BY <1>1, <1>3, <1>4 DEF Waits
<1>5. ASSUME NEW u \in Tasks, Client(u)
      PROVE  Places(t)' = IF Waits(t)' THEN 1 ELSE 0
  <2>1. CASE SendRequest(u)
    <3>1. Count(queue', t) = Count(queue, t) + Bit(u = t)
      <4>1. queue \in Seq(Commands) /\ u \in Commands
        BY <1>0, Constants DEF Shape
      <4> QED BY <2>1, <4>1, CountAppend DEF SendRequest
    <3>2. Places(t)' = Places(t) + Bit(u = t)
      <4>1. Bit(u = t) \in Nat /\ Bit(current = t) \in Nat
        BY DEF Bit
      <4> QED BY <1>2, <2>1, <3>1, <4>1, PlacesAre DEF SendRequest
    <3>3. CASE u = t
      <4>1. ~Waits(t) /\ Waits(t)'
        BY <1>0, <2>1, <3>3 DEF SendRequest, Waits, Shape
      <4>2. Bit(u = t) = 1
        BY <3>3 DEF Bit
      <4> QED BY <1>1, <3>2, <4>1, <4>2
    <3>4. CASE u # t
      <4>1. step'[t] = step[t] /\ answer'[t] = answer[t]
        BY <1>0, <2>1, <3>4 DEF SendRequest, Shape
      <4>2. Bit(u = t) = 0
        BY <3>4 DEF Bit
      <4> QED BY <1>1, <3>2, <4>1, <4>2 DEF Waits
    <3> QED BY <3>3, <3>4
  <2>2. CASE NotifyAgent(u)
    <3>1. /\ answer' = answer
          /\ step'[t] \in {"notify", "wait"} <=> step[t] \in {"notify", "wait"}
      BY <1>0, <2>2 DEF NotifyAgent, Shape
    <3> QED BY <1>1, <1>3, <2>2, <3>1 DEF NotifyAgent, Waits
  <2>3. CASE RequestDone(u)
    <3>1. \/ u = t /\ answer[t] # "none" /\ step'[t] \in {"idle", "remove"}
          \/ step'[t] = step[t] /\ answer'[t] = answer[t]
      BY <1>0, <2>3 DEF RequestDone, Shape
    <3> QED BY <1>1, <1>3, <2>3, <3>1 DEF RequestDone, Waits
  <2>4. CASE SubscribeSync(u) \/ CheckStatus(u) \/ UnSubscribeSync(u) \/ RemoveEntry(u)
    <3>1. /\ answer' = answer
          /\ step'[t] \in {"notify", "wait"} <=> step[t] \in {"notify", "wait"}
      BY <1>0, <2>4 DEF SubscribeSync, CheckStatus, UnSubscribeSync, RemoveEntry, Shape
    <3> QED
      BY <1>1, <1>3, <2>4, <3>1
      DEF SubscribeSync, CheckStatus, UnSubscribeSync, RemoveEntry, Waits
  <2> QED BY <1>5, <2>1, <2>2, <2>3, <2>4 DEF Client
<1>6. ASSUME NEW p, Stop(p) PROVE Places(t)' = IF Waits(t)' THEN 1 ELSE 0
  BY <1>4, <1>6 DEF Stop
<1>7. ASSUME NEW n, CancelStops(n) PROVE Places(t)' = IF Waits(t)' THEN 1 ELSE 0
  BY <1>6, <1>7 DEF CancelStops
<1>8. CASE CancelQueued
  <2>1. CASE CancelStops(Resubs({Head(queue)}))
    BY <1>7, <2>1
  <2>2. CASE /\ prvAgentMessageReceive(Head(queue))
             /\ Callbacks(TasksIn({Head(queue)}), Resubs({Head(queue)}), "failure")
             /\ UNCHANGED <<agent, awaiting, subs, net, step, op, granted>>
    <3> DEFINE c == Head(queue)
               done == TasksIn({c})
    <3>1. Count(queue, t) = Count(queue', t) + Bit(c = t) /\ Count(queue', t) \in Nat
      BY <1>0, <2>2, TakenFromQueue
    <3>2. Bit(c = t) \in Nat /\ Bit(current = t) \in Nat
      BY DEF Bit
    <3>3. Places(t) = Places(t)' + Bit(c = t) /\ Places(t)' \in Nat
      BY <1>2, <2>2, <3>1, <3>2, PlacesAre
    <3>4. done \in SUBSET Tasks /\ (t \in done <=> c = t)
      BY DEF TasksIn
    <3>5. (c = t => Bit(c = t) = 1) /\ (c # t => Bit(c = t) = 0)
      BY DEF Bit
    <3>6. /\ t \in done => Places(t) > 0 /\ (Places(t) = 1 => Places(t)' = 0)
          /\ t \notin done => Places(t)' = Places(t)
      BY <3>3, <3>4, <3>5
    <3> HIDE DEF done, c
    <3>7. Callbacks(done, Resubs({c}), "failure") /\ step' = step
      BY <2>2 DEF done, c
    <3> QED BY <1>0, <3>4, <3>6, <3>7, CallbackEffect
  <2> QED BY <1>8, <2>1, <2>2 DEF CancelQueued
<1>9. CASE CancelAwaiting
  <2>1. CASE CancelStops(awaiting[Resubscribe])
    BY <1>7, <2>1
  <2>2. CASE /\ prvAgentMessageReceive(NoCommand)
             /\ Callbacks({u \in Tasks : awaiting[u] > 0}, awaiting[Resubscribe], "failure")
             /\ awaiting' = [c \in Commands |-> 0]
             /\ pc' = AfterCancel
             /\ UNCHANGED <<current, subs, cleanSession, connected, net, step, op, granted>>
    <3> DEFINE done == {u \in Tasks : awaiting[u] > 0}
    <3>1. Count(queue', t) = Count(queue, t)
      <4>1. Bit(NoCommand = t) = 0
        BY <1>0, Constants DEF Bit
      <4> QED BY <1>0, <2>2, <4>1, TakenFromQueue
    <3>2. awaiting'[t] = 0 /\ Bit(current = t) \in Nat
      BY <1>0, <2>2 DEF Bit
    <3>3. Places(t) = Places(t)' + awaiting[t] /\ Places(t)' \in Nat
      BY <1>2, <2>2, <3>1, <3>2, PlacesAre
    <3>4. done \in SUBSET Tasks /\ (t \in done <=> awaiting[t] > 0)
      OBVIOUS
    <3>5. /\ t \in done => Places(t) > 0 /\ (Places(t) = 1 => Places(t)' = 0)
          /\ t \notin done => Places(t)' = Places(t)
      BY <1>2, <3>3, <3>4
    <3> HIDE DEF done
    <3>6. Callbacks(done, awaiting[Resubscribe], "failure") /\ step' = step
      BY <2>2 DEF done
    <3> QED BY <1>0, <3>4, <3>5, <3>6, CallbackEffect
  <2> QED BY <1>9, <2>1, <2>2 DEF CancelAwaiting
<1>10. CASE TransportConnect \/ MqttConnectFails \/ StartCleanSession \/ ResumeSession
            \/ StartSession \/ DisconnectAndLock
  BY <1>4, <1>10 DEF TransportConnect, MqttConnectFails, StartCleanSession, ResumeSession,
     StartSession, DisconnectAndLock
<1>11. CASE prvHandleResubscribe
  <2>1. CASE EnqueueResubscribe
    <3>1. Count(queue', t) = Count(queue, t)
      <4>1. queue \in Seq(Commands) /\ Resubscribe \in Commands /\ Bit(Resubscribe = t) = 0
        BY <1>0, Constants DEF Shape, Bit
      <4>2. Count(queue', t) = Count(queue, t) + Bit(Resubscribe = t)
        BY <2>1, <4>1, CountAppend DEF EnqueueResubscribe
      <4> QED BY <1>2, <4>1, <4>2
    <3>2. Places(t)' = Places(t) /\ step' = step /\ answer' = answer
      BY <1>11, <2>1, <3>1, PlacesAre DEF prvHandleResubscribe, EnqueueResubscribe
    <3> QED BY <1>1, <3>2 DEF Waits
  <2>2. CASE ResubscribeNothing \/ ResubscribeRefused
    BY <1>4, <2>2 DEF ResubscribeNothing, ResubscribeRefused
  <2> QED BY <1>6, <1>11, <2>1, <2>2 DEF prvHandleResubscribe
<1>12. CASE ReceiveCommand
  <2>1. PICK c \in Commands \cup {NoCommand} : prvAgentMessageReceive(c) /\ current' = c
    BY <1>12 DEF ReceiveCommand
  <2>2. current = NoCommand /\ UNCHANGED <<awaiting, step, answer>>
    BY <1>12 DEF ReceiveCommand, AgentInv
  <2>3. Bit(current = t) = 0 /\ Bit(c = t) \in Nat /\ Bit(current' = t) = Bit(c = t)
    BY <1>0, <2>1, <2>2, Constants DEF Bit
  <2>4. Count(queue, t) = Count(queue', t) + Bit(c = t) /\ Count(queue', t) \in Nat
    BY <1>0, <2>1, TakenFromQueue
  <2>5. Places(t)' = Places(t)
    BY <1>2, <2>2, <2>3, <2>4, PlacesAre
  <2> QED BY <1>1, <2>2, <2>5 DEF Waits
<1>13. CASE ExecuteCommand
  <2>1. /\ UNCHANGED <<queue, step, answer>>
        /\ current' = NoCommand
        /\ awaiting' = [awaiting EXCEPT ![current] = @ + 1]
        /\ current \in Commands
    BY <1>13 DEF ExecuteCommand, AgentInv, Shape
  <2>2. Bit(current' = t) = 0
    BY <1>0, <2>1, Constants DEF Bit
  <2>3. awaiting'[t] = awaiting[t] + Bit(current = t)
    BY <1>0, <2>1 DEF Bit, Shape
  <2>4. Bit(current = t) \in Nat
    BY DEF Bit
  <2>5. Places(t)' = Places(t)
    BY <1>2, <2>1, <2>2, <2>3, <2>4, PlacesAre
  <2> QED BY <1>1, <2>1, <2>5 DEF Waits
<1>14. CASE ExecuteFails
  <2>1. CASE CancelStops(Resubs({current}))
    BY <1>7, <2>1
  <2>2. CASE /\ Callbacks(TasksIn({current}), Resubs({current}), "failure")
             /\ current' = NoCommand
             /\ pc' = "cancelAll"
             /\ UNCHANGED <<queue, flags, awaiting, subs, cleanSession, connected, net, step,
                            op, granted>>
    <3> DEFINE done == TasksIn({current})
    <3>1. Bit(current' = t) = 0 /\ Bit(current = t) \in Nat
      BY <1>0, <2>2, Constants DEF Bit
    <3>2. Places(t) = Places(t)' + Bit(current = t) /\ Places(t)' \in Nat
      BY <1>2, <2>2, <3>1, PlacesAre
    <3>3. done \in SUBSET Tasks /\ (t \in done <=> current = t)
      BY DEF TasksIn
    <3>4. (current = t => Bit(current = t) = 1) /\ (current # t => Bit(current = t) = 0)
      BY DEF Bit
    <3>5. /\ t \in done => Places(t) > 0 /\ (Places(t) = 1 => Places(t)' = 0)
          /\ t \notin done => Places(t)' = Places(t)
      BY <3>2, <3>3, <3>4
    <3> HIDE DEF done
    <3>6. Callbacks(done, Resubs({current}), "failure") /\ step' = step
      BY <2>2 DEF done
    <3> QED BY <1>0, <3>3, <3>5, <3>6, CallbackEffect
  <2> QED BY <1>14, <2>1, <2>2 DEF ExecuteFails
<1>15. CASE ReceiveAck
  <2>1. PICK c \in Commands :
          /\ awaiting[c] > 0
          /\ \/ /\ Callbacks(TasksIn({c}), Resubs({c}), "success")
                /\ awaiting' = [awaiting EXCEPT ![c] = @ - 1]
                /\ UNCHANGED <<agent, queue, flags, subs, net, step, op, granted>>
             \/ Stop("halted")
    BY <1>15 DEF ReceiveAck
  <2>2. CASE Stop("halted")
    BY <1>6, <2>2
  <2>3. CASE /\ Callbacks(TasksIn({c}), Resubs({c}), "success")
             /\ awaiting' = [awaiting EXCEPT ![c] = @ - 1]
             /\ UNCHANGED <<agent, queue, flags, subs, net, step, op, granted>>
    <3> DEFINE done == TasksIn({c})
    <3>1. done \in SUBSET Tasks /\ (t \in done <=> c = t)
      BY DEF TasksIn
    <3>2. /\ c = t => awaiting'[t] = awaiting[t] - 1
          /\ c # t => awaiting'[t] = awaiting[t]
      BY <1>0, <2>3 DEF Shape
    <3>3. Bit(current = t) \in Nat
      BY DEF Bit
    <3>4. /\ c = t => Places(t) > 0 /\ Places(t)' = Places(t) - 1
          /\ c # t => Places(t)' = Places(t)
      BY <1>2, <2>1, <2>3, <3>2, <3>3, PlacesAre
    <3>5. /\ t \in done => Places(t) > 0 /\ (Places(t) = 1 => Places(t)' = 0)
          /\ t \notin done => Places(t)' = Places(t)
      BY <3>1, <3>4
    <3> HIDE DEF done
    <3>6. Callbacks(done, Resubs({c}), "success") /\ step' = step
      BY <2>3 DEF done
    <3> QED BY <1>0, <3>1, <3>5, <3>6, CallbackEffect
  <2> QED BY <2>1, <2>2, <2>3
<1>16. CASE ReceivePublish \/ ProcessLoopEnds \/ ConnectionLost \/ prvSocketRecvReadyCallback
            \/ UNCHANGED vars
  BY <1>4, <1>16 DEF ReceivePublish, ProcessLoopEnds, ConnectionLost,
     prvSocketRecvReadyCallback, vars
<1>17. CASE WatchdogReset
  <2>1. Count(queue', t) = 0 /\ awaiting'[t] = 0 /\ Bit(current' = t) = 0
    BY <1>0, <1>17, CountEmpty, Constants DEF WatchdogReset, Bit
  <2>2. Places(t)' = 0
    BY <2>1, PlacesAre
  <2> QED BY <1>17, <2>2 DEF WatchdogReset, Waits
<1> QED
  BY <1>5, <1>8, <1>9, <1>10, <1>11, <1>12, <1>13, <1>14, <1>15, <1>16, <1>17
  DEF Next, Connecting, Serving

-----------------------------------------------------------------------------
Serves == pc \in {"receive", "execute", "process"}

LEMMA MutexStep == AgentInv /\ MutexHandedOver /\ [Next]_vars => MutexHandedOver'
<1> DEFINE r == Resubscribe
<1> SUFFICES ASSUME AgentInv, MutexHandedOver, [Next]_vars, Serves', mutex' = "agent"
             PROVE  Places(r)' > 0
  BY DEF MutexHandedOver, Serves
<1> USE DEF agent, cmds, table, net, client
<1>0. Shape /\ r \in Commands /\ (Serves /\ mutex = "agent" => Places(r) > 0)
  BY Constants DEF AgentInv, MutexHandedOver, Serves
<1>1. Count(queue, r) \in Nat /\ awaiting[r] \in Nat /\ Bit(current = r) \in Nat
  BY <1>0, PlacesType DEF Bit
<1>2. ASSUME UNCHANGED <<queue, awaiting, current, mutex>>, Serves
      PROVE  Places(r)' > 0
  BY <1>0, <1>2, PlacesAre
<1>3. ASSUME NEW t \in Tasks, Client(t) PROVE Places(r)' > 0
  <2>1. pc' = pc /\ mutex' = mutex /\ UNCHANGED <<awaiting, current>>
    BY <1>3 DEF Client, SubscribeSync, CheckStatus, UnSubscribeSync, SendRequest, NotifyAgent,
       RequestDone, RemoveEntry
  <2>2. Serves /\ mutex = "agent"
    BY <2>1 DEF Serves
  <2>3. CASE SendRequest(t)
    <3>1. queue \in Seq(Commands) /\ t \in Commands /\ queue' = Append(queue, t)
      BY <1>0, <2>3, Constants DEF Shape, SendRequest
    <3>2. Count(queue', r) = Count(queue, r) + Bit(t = r)
      BY <3>1, CountAppend
    <3>3. Bit(t = r) \in Nat
      BY DEF Bit
    <3> QED BY <1>0, <1>1, <2>1, <2>2, <3>2, <3>3, PlacesAre
  <2>4. CASE ~SendRequest(t)
    <3>1. queue' = queue
      BY <1>3, <2>4 DEF Client, SubscribeSync, CheckStatus, UnSubscribeSync, NotifyAgent,
         RequestDone, RemoveEntry
    <3> QED BY <1>2, <2>1, <2>2, <3>1
  <2> QED BY <2>3, <2>4
<1>4. CASE Connecting
  <2>1. CASE EnqueueResubscribe
    <3>1. queue \in Seq(Commands) /\ queue' = Append(queue, r) /\ UNCHANGED <<awaiting, current>>
      BY <1>0, <2>1 DEF Shape, EnqueueResubscribe
    <3>2. Count(queue', r) = Count(queue, r) + Bit(r = r)
      BY <1>0, <3>1, CountAppend
    <3>3. Bit(r = r) = 1
      BY DEF Bit
    <3> HIDE DEF r
    <3> QED BY <1>1, <3>1, <3>2, <3>3, PlacesAre
  <2>2. CASE ~EnqueueResubscribe
    <3>1. ~Serves' \/ mutex' = "free"
      BY <1>4, <2>2
      DEF Connecting, TransportConnect, CancelQueued, CancelAwaiting, CancelStops, Stop,
          AfterCancel, MqttConnectFails, StartCleanSession, ResumeSession, StartSession,
          prvHandleResubscribe, ResubscribeNothing, ResubscribeRefused, DisconnectAndLock, Serves
    <3> QED BY <3>1
  <2> QED BY <2>1, <2>2
<1>5. CASE ReceiveCommand
  <2>1. PICK c \in Commands \cup {NoCommand} : prvAgentMessageReceive(c) /\ current' = c
    BY <1>5 DEF ReceiveCommand
  <2>2. current = NoCommand /\ awaiting' = awaiting /\ mutex' = mutex /\ Serves
    BY <1>5 DEF ReceiveCommand, AgentInv, Serves
  <2>3. Bit(current = r) = 0 /\ Bit(c = r) \in Nat /\ Bit(current' = r) = Bit(c = r)
    BY <2>1, <2>2, Constants DEF Bit
  <2>4. Count(queue, r) = Count(queue', r) + Bit(c = r) /\ Count(queue', r) \in Nat
    BY <1>0, <2>1, TakenFromQueue
  <2>5. Places(r)' = Places(r)
    BY <1>1, <2>2, <2>3, <2>4, PlacesAre
  <2> QED BY <1>0, <2>2, <2>5
<1>6. CASE ExecuteCommand
  <2>1. /\ UNCHANGED <<queue, mutex>> /\ Serves
        /\ current' = NoCommand
        /\ awaiting' = [awaiting EXCEPT ![current] = @ + 1]
        /\ current \in Commands
    BY <1>6 DEF ExecuteCommand, AgentInv, Shape, Serves
  <2>2. Bit(current' = r) = 0
    BY <2>1, Constants DEF Bit
  <2>3. awaiting'[r] = awaiting[r] + Bit(current = r)
    BY <1>0, <2>1 DEF Bit, Shape
  <2>4. Places(r)' = Places(r)
    BY <1>1, <2>1, <2>2, <2>3, PlacesAre
  <2> QED BY <1>0, <2>1, <2>4
<1>7. CASE ExecuteFails
  <2>1. ~Serves'
    BY <1>7 DEF ExecuteFails, CancelStops, Stop, Serves
  <2> QED BY <2>1
<1>8. CASE ReceiveAck
  <2>1. PICK c \in Commands :
          /\ awaiting[c] > 0
          /\ \/ /\ Callbacks(TasksIn({c}), Resubs({c}), "success")
                /\ awaiting' = [awaiting EXCEPT ![c] = @ - 1]
                /\ UNCHANGED <<agent, queue, flags, subs, net, step, op, granted>>
             \/ Stop("halted")
    BY <1>8 DEF ReceiveAck
  <2>2. ~Stop("halted")
    BY DEF Stop, Serves
  <2>3. CASE c = r
    <3>1. Resubs({c}) = 1
      BY <2>3 DEF Resubs
    <3>2. mutex' = "free"
      BY <2>1, <2>2, <3>1 DEF Callbacks
    <3> QED BY <3>2
  <2>4. CASE c # r
    <3>1. Resubs({c}) = 0
      BY <2>4 DEF Resubs
    <3>2. mutex' = mutex
      BY <2>1, <2>2, <3>1 DEF Callbacks
    <3>3. awaiting'[r] = awaiting[r] /\ UNCHANGED <<pc, queue, current>>
      BY <1>0, <2>1, <2>2, <2>4 DEF Shape
    <3>4. Places(r)' = Places(r) /\ Serves
      BY <3>3, PlacesAre DEF Serves
    <3> QED BY <1>0, <3>2, <3>4
  <2> QED BY <2>3, <2>4
<1>9. CASE ReceivePublish \/ ProcessLoopEnds \/ ConnectionLost \/ prvSocketRecvReadyCallback
           \/ UNCHANGED vars
  <2>1. UNCHANGED <<queue, awaiting, current, mutex>> /\ Serves
    BY <1>9 DEF ReceivePublish, ProcessLoopEnds, ConnectionLost, prvSocketRecvReadyCallback,
       vars, Serves
  <2> QED BY <1>2, <2>1
<1>10. CASE WatchdogReset
  BY <1>10 DEF WatchdogReset, Serves
<1> QED
  BY <1>3, <1>4, <1>5, <1>6, <1>7, <1>8, <1>9, <1>10 DEF Next, Serving

-----------------------------------------------------------------------------
(* The request of a task that waits for ever is in one place, or answered. *)
THEOREM WaitersAreServed == Spec => []WaiterHasCommand
BY AgentInit, WaiterStep, AgentAlways, PTL DEF Spec

(* While the agent serves, it has the mutex only for a resubscription that *)
(* is on its way.                                                          *)
THEOREM MutexIsHandedOver == Spec => []MutexHandedOver
BY AgentInit, MutexStep, AgentAlways, PTL DEF Spec

-----------------------------------------------------------------------------
(* The pool.  A structure is in the pool, with a task that waits, or with  *)
(* a resubscription.                                                       *)

Waiters == {t \in Tasks : Waits(t)}

PoolInv ==
  /\ IsFiniteSet(Waiters)
  /\ pool \in Nat
  /\ pool + Cardinality(Waiters) + Places(Resubscribe) = PoolSize

LEMMA PoolSame ==
  ASSUME PoolInv, pool' = pool, Places(Resubscribe)' = Places(Resubscribe),
         \A t \in Tasks : Waits(t)' <=> Waits(t)
  PROVE  PoolInv'
<1>1. Waiters' = Waiters
  BY DEF Waiters
<1> QED BY <1>1 DEF PoolInv

(* The callbacks give back the structures of the commands they complete.   *)
LEMMA PoolCallbacks ==
  ASSUME PoolInv, WaiterHasCommand, Shape, step' = step,
         NEW done \in SUBSET Tasks, NEW n \in Nat, NEW r \in {"success", "failure"},
         Callbacks(done, n, r),
         \A t \in done : Places(t) > 0,
         Places(Resubscribe)' \in Nat,
         Places(Resubscribe) = Places(Resubscribe)' + n
  PROVE  PoolInv'
<1>1. done \in SUBSET Waiters
  <2>1. \A t \in Tasks : Places(t) = IF Waits(t) THEN 1 ELSE 0
    BY DEF WaiterHasCommand, Waits
  <2>2. \A t \in done : Waits(t)
    BY <2>1
  <2> QED BY <2>2 DEF Waiters
<1>2. Waiters' = Waiters \ done
  <2>1. \A t \in Tasks : Waits(t)' <=> Waits(t) /\ t \notin done
    BY DEF Callbacks, Waits
  <2> QED BY <2>1 DEF Waiters
<1>3. IsFiniteSet(Waiters) /\ IsFiniteSet(done) /\ Cardinality(Waiters) \in Nat
      /\ Cardinality(done) \in Nat
  BY <1>1, FS_Subset, FS_CardinalityType DEF PoolInv
<1>4. Waiters \cap done = done
  BY <1>1
<1>5. IsFiniteSet(Waiters') /\ Cardinality(Waiters') = Cardinality(Waiters) - Cardinality(done)
  <2>1. /\ IsFiniteSet(Waiters \ done)
        /\ Cardinality(Waiters \ done) = Cardinality(Waiters) - Cardinality(Waiters \cap done)
    BY <1>3, FS_Difference
  <2> QED BY <1>2, <1>4, <2>1
<1>6. Cardinality(Waiters') \in Nat
  BY <1>5, FS_CardinalityType
<1>7. pool' = pool + Cardinality(done) + n
  BY DEF Callbacks
<1>8. /\ pool \in Nat /\ PoolSize \in Nat
      /\ pool + Cardinality(Waiters) + Places(Resubscribe) = PoolSize
  BY MqttAgentAssumption DEF PoolInv
<1>9. pool' \in Nat /\ Places(Resubscribe) \in Nat
  BY <1>3, <1>7, <1>8
<1>10. pool' + Cardinality(Waiters') + Places(Resubscribe)' = PoolSize
  BY <1>3, <1>5, <1>6, <1>7, <1>8, <1>9
<1> QED BY <1>5, <1>9, <1>10 DEF PoolInv

LEMMA PoolInit == Init => PoolInv
<1> SUFFICES ASSUME Init PROVE PoolInv
  OBVIOUS
<1>1. Waiters = {}
  BY DEF Init, Waiters, Waits
<1>2. Places(Resubscribe) = 0
  <2>1. Count(queue, Resubscribe) = 0 /\ awaiting[Resubscribe] = 0 /\ Bit(current = Resubscribe) = 0
    BY CountEmpty, Constants DEF Init, Bit
  <2> QED BY <2>1, PlacesAre
<1> QED BY <1>1, <1>2, FS_EmptySet, MqttAgentAssumption DEF Init, PoolInv

LEMMA PoolStep == AgentInv /\ WaiterHasCommand /\ PoolInv /\ [Next]_vars => PoolInv'
<1> DEFINE R == Resubscribe
<1> SUFFICES ASSUME AgentInv, WaiterHasCommand, PoolInv, [Next]_vars PROVE PoolInv'
  OBVIOUS
<1> USE DEF agent, cmds, table, net, client
<1>0. Shape /\ R \in Commands /\ R \notin Tasks
  BY Constants DEF AgentInv
<1>1. Count(queue, R) \in Nat /\ awaiting[R] \in Nat /\ Bit(current = R) \in Nat /\ Places(R) \in Nat
  BY <1>0, PlacesType DEF Bit
<1>2. ASSUME UNCHANGED <<queue, awaiting, current, pool, step, answer>> PROVE PoolInv'
  BY <1>2, PlacesAre, PoolSame DEF Waits
<1>3. ASSUME NEW u \in Tasks, Client(u) PROVE PoolInv'
  <2>1. CASE SendRequest(u)
    <3>1. Count(queue', R) = Count(queue, R)
      <4>1. queue \in Seq(Commands) /\ u \in Commands /\ Bit(u = R) = 0
        BY <1>0, Constants DEF Shape, Bit
      <4>2. Count(queue', R) = Count(queue, R) + Bit(u = R)
        BY <2>1, <4>1, CountAppend DEF SendRequest
      <4> QED BY <1>1, <4>1, <4>2
    <3>2. Places(R)' = Places(R)
      BY <2>1, <3>1, PlacesAre DEF SendRequest
    <3>3. Waiters' = Waiters \cup {u} /\ u \notin Waiters
      BY <1>0, <2>1 DEF SendRequest, Waiters, Waits, Shape
    <3>4. IsFiniteSet(Waiters') /\ Cardinality(Waiters') = Cardinality(Waiters) + 1
          /\ Cardinality(Waiters) \in Nat
      BY <3>3, FS_AddElement, FS_CardinalityType DEF PoolInv
    <3>5. pool > 0 /\ pool' = pool - 1
      BY <2>1 DEF SendRequest
    <3> QED BY <1>1, <3>2, <3>4, <3>5 DEF PoolInv
  <2>2. CASE ~SendRequest(u)
    <3>1. UNCHANGED <<queue, awaiting, current, pool>>
      BY <1>3, <2>2 DEF Client, SubscribeSync, CheckStatus, UnSubscribeSync, NotifyAgent,
         RequestDone, RemoveEntry
    <3>2. Places(R)' = Places(R)
      BY <3>1, PlacesAre
    <3>3. CASE NotifyAgent(u)
      BY <1>0, <3>1, <3>2, <3>3, PoolSame DEF NotifyAgent, Waits, Shape
    <3>4. CASE RequestDone(u)
      BY <1>0, <3>1, <3>2, <3>4, PoolSame DEF RequestDone, Waits, Shape
    <3>5. CASE SubscribeSync(u) \/ CheckStatus(u) \/ UnSubscribeSync(u) \/ RemoveEntry(u)
      BY <1>0, <3>1, <3>2, <3>5, PoolSame
         DEF SubscribeSync, CheckStatus, UnSubscribeSync, RemoveEntry, Waits, Shape
    <3> QED BY <1>3, <2>2, <3>3, <3>4, <3>5 DEF Client
  <2> QED BY <2>1, <2>2
<1>4. ASSUME NEW n, CancelStops(n) PROVE PoolInv'
  BY <1>2, <1>4 DEF CancelStops, Stop
<1>6. CASE CancelQueued
  <2>1. CASE CancelStops(Resubs({Head(queue)}))
    BY <1>4, <2>1
  <2>2. CASE /\ prvAgentMessageReceive(Head(queue))
             /\ Callbacks(TasksIn({Head(queue)}), Resubs({Head(queue)}), "failure")
             /\ UNCHANGED <<agent, awaiting, subs, net, step, op, granted>>
    <3> DEFINE c == Head(queue)
               done == TasksIn({c})
               n == Resubs({c})
    <3>1. ASSUME NEW x \in Commands
          PROVE  /\ Places(x)' \in Nat
                 /\ Places(x) = Places(x)' + Bit(c = x)
      <4>1. Count(queue, x) = Count(queue', x) + Bit(c = x) /\ Count(queue', x) \in Nat
        BY <1>0, <2>2, TakenFromQueue
      <4>2. Bit(c = x) \in Nat /\ Bit(current = x) \in Nat /\ awaiting[x] \in Nat
        BY <1>0, PlacesType DEF Bit
      <4> QED BY <2>2, <4>1, <4>2, PlacesAre
    <3>2. n = Bit(c = R) /\ n \in Nat
      BY DEF Resubs, Bit
    <3>3. done \in SUBSET Tasks /\ \A t \in done : c = t /\ t \in Commands
      BY Constants DEF TasksIn
    <3>4. \A t \in done : Places(t) > 0
      <4> SUFFICES ASSUME NEW t \in done PROVE Places(t) > 0
        OBVIOUS
      <4>1. Bit(c = t) = 1 /\ t \in Commands
        BY <3>3 DEF Bit
      <4> QED BY <3>1, <4>1
    <3>5. Places(R)' \in Nat /\ Places(R) = Places(R)' + n
      BY <1>0, <3>1, <3>2
    <3>6. Callbacks(done, n, "failure") /\ step' = step
      BY <2>2
    <3> HIDE DEF done, n, c, R
    <3> QED BY <1>0, <3>2, <3>3, <3>4, <3>5, <3>6, PoolCallbacks DEF R
  <2> QED BY <1>6, <2>1, <2>2 DEF CancelQueued
<1>7. CASE CancelAwaiting
  <2>1. CASE CancelStops(awaiting[R])
    BY <1>4, <2>1
  <2>2. CASE /\ prvAgentMessageReceive(NoCommand)
             /\ Callbacks({u \in Tasks : awaiting[u] > 0}, awaiting[R], "failure")
             /\ awaiting' = [c \in Commands |-> 0]
             /\ UNCHANGED <<current, subs, cleanSession, connected, net, step, op, granted>>
    <3> DEFINE done == {u \in Tasks : awaiting[u] > 0}
    <3>1. ASSUME NEW x \in Commands
          PROVE  /\ Places(x)' \in Nat
                 /\ Places(x) = Places(x)' + awaiting[x]
      <4>1. Bit(NoCommand = x) = 0
        BY Constants DEF Bit
      <4>2. Count(queue', x) = Count(queue, x) /\ Count(queue, x) \in Nat
        BY <1>0, <2>2, <4>1, TakenFromQueue, PlacesType
      <4>3. awaiting[x] \in Nat /\ awaiting'[x] = 0 /\ Bit(current = x) \in Nat
        BY <1>0, <2>2, PlacesType DEF Bit
      <4> QED BY <2>2, <4>2, <4>3, PlacesAre
    <3>2. done \in SUBSET Tasks /\ \A t \in done : awaiting[t] > 0 /\ t \in Commands
      BY Constants
    <3>3. \A t \in done : Places(t) > 0
      <4> SUFFICES ASSUME NEW t \in done PROVE Places(t) > 0
        OBVIOUS
      <4>1. awaiting[t] > 0 /\ t \in Commands /\ awaiting[t] \in Nat
        BY <1>0, <3>2, PlacesType
      <4> QED BY <3>1, <4>1
    <3>4. Places(R)' \in Nat /\ Places(R) = Places(R)' + awaiting[R]
      BY <1>0, <3>1
    <3>5. Callbacks(done, awaiting[R], "failure") /\ step' = step
      BY <2>2
    <3> HIDE DEF done, R
    <3> QED BY <1>0, <1>1, <3>2, <3>3, <3>4, <3>5, PoolCallbacks DEF R
  <2> QED BY <1>7, <2>1, <2>2 DEF CancelAwaiting
<1>8. CASE TransportConnect \/ MqttConnectFails \/ StartCleanSession \/ ResumeSession
           \/ StartSession \/ DisconnectAndLock
  BY <1>2, <1>8 DEF TransportConnect, MqttConnectFails, StartCleanSession, ResumeSession,
     StartSession, DisconnectAndLock
<1>9. CASE prvHandleResubscribe
  <2>1. CASE EnqueueResubscribe
    <3>1. Count(queue', R) = Count(queue, R) + 1
      <4>1. queue \in Seq(Commands) /\ Bit(R = R) = 1
        BY <1>0 DEF Shape, Bit
      <4>2. Count(queue', R) = Count(queue, R) + Bit(R = R)
        BY <1>0, <2>1, <4>1, CountAppend DEF EnqueueResubscribe
      <4> QED BY <4>1, <4>2
    <3>2. Places(R)' = Places(R) + 1
      BY <1>1, <2>1, <3>1, PlacesAre DEF EnqueueResubscribe
    <3>3. Waiters' = Waiters
      BY <1>9, <2>1 DEF prvHandleResubscribe, EnqueueResubscribe, Waiters, Waits
    <3>4. pool > 0 /\ pool' = pool - 1
      BY <2>1 DEF EnqueueResubscribe
    <3>5. Cardinality(Waiters) \in Nat
      BY FS_CardinalityType DEF PoolInv
    <3> QED BY <1>1, <3>2, <3>3, <3>4, <3>5 DEF PoolInv
  <2>2. CASE ResubscribeNothing \/ ResubscribeRefused \/ Stop("halted")
    BY <1>2, <1>9, <2>2 DEF prvHandleResubscribe, ResubscribeNothing, ResubscribeRefused, Stop
  <2> QED BY <1>9, <2>1, <2>2 DEF prvHandleResubscribe
<1>10. CASE ReceiveCommand
  <2>1. PICK c \in Commands \cup {NoCommand} : prvAgentMessageReceive(c) /\ current' = c
    BY <1>10 DEF ReceiveCommand
  <2>2. current = NoCommand /\ UNCHANGED <<awaiting, pool, step, answer>>
    BY <1>10 DEF ReceiveCommand, AgentInv
  <2>3. Bit(current = R) = 0 /\ Bit(c = R) \in Nat /\ Bit(current' = R) = Bit(c = R)
    BY <2>1, <2>2, Constants DEF Bit
  <2>4. Count(queue, R) = Count(queue', R) + Bit(c = R) /\ Count(queue', R) \in Nat
    BY <1>0, <2>1, TakenFromQueue
  <2>5. Places(R)' = Places(R)
    BY <1>1, <2>2, <2>3, <2>4, PlacesAre
  <2> QED BY <2>2, <2>5, PoolSame DEF Waits
<1>11. CASE ExecuteCommand
  <2>1. /\ UNCHANGED <<queue, pool, step, answer>>
        /\ current' = NoCommand
        /\ awaiting' = [awaiting EXCEPT ![current] = @ + 1]
        /\ current \in Commands
    BY <1>11 DEF ExecuteCommand, AgentInv, Shape
  <2>2. Bit(current' = R) = 0
    BY <2>1, Constants DEF Bit
  <2>3. awaiting'[R] = awaiting[R] + Bit(current = R)
    BY <1>0, <2>1 DEF Bit, Shape
  <2>4. Places(R)' = Places(R)
    BY <1>1, <2>1, <2>2, <2>3, PlacesAre
  <2> QED BY <2>1, <2>4, PoolSame DEF Waits
<1>12. CASE ExecuteFails
  <2>1. CASE CancelStops(Resubs({current}))
    BY <1>4, <2>1
  <2>2. CASE /\ Callbacks(TasksIn({current}), Resubs({current}), "failure")
             /\ current' = NoCommand
             /\ UNCHANGED <<queue, flags, awaiting, subs, cleanSession, connected, net, step,
                            op, granted>>
    <3> DEFINE done == TasksIn({current})
               n == Resubs({current})
    <3>1. ASSUME NEW x \in Commands
          PROVE  /\ Places(x)' \in Nat
                 /\ Places(x) = Places(x)' + Bit(current = x)
      <4>1. Bit(current' = x) = 0 /\ Bit(current = x) \in Nat
        BY <2>2, Constants DEF Bit
      <4>2. Count(queue, x) \in Nat /\ awaiting[x] \in Nat
        BY <1>0, PlacesType
      <4> QED BY <2>2, <4>1, <4>2, PlacesAre
    <3>2. n = Bit(current = R) /\ n \in Nat
      BY DEF Resubs, Bit
    <3>3. done \in SUBSET Tasks /\ \A t \in done : current = t /\ t \in Commands
      BY Constants DEF TasksIn
    <3>4. \A t \in done : Places(t) > 0
      <4> SUFFICES ASSUME NEW t \in done PROVE Places(t) > 0
        OBVIOUS
      <4>1. Bit(current = t) = 1 /\ t \in Commands
        BY <3>3 DEF Bit
      <4> QED BY <3>1, <4>1
    <3>5. Places(R)' \in Nat /\ Places(R) = Places(R)' + n
      BY <1>0, <3>1, <3>2
    <3>6. Callbacks(done, n, "failure") /\ step' = step
      BY <2>2
    <3> HIDE DEF done, n, R
    <3> QED BY <1>0, <3>2, <3>3, <3>4, <3>5, <3>6, PoolCallbacks DEF R
  <2> QED BY <1>12, <2>1, <2>2 DEF ExecuteFails
<1>13. CASE ReceiveAck
  <2>1. PICK c \in Commands :
          /\ awaiting[c] > 0
          /\ \/ /\ Callbacks(TasksIn({c}), Resubs({c}), "success")
                /\ awaiting' = [awaiting EXCEPT ![c] = @ - 1]
                /\ UNCHANGED <<agent, queue, flags, subs, net, step, op, granted>>
             \/ Stop("halted")
    BY <1>13 DEF ReceiveAck
  <2>2. CASE Stop("halted")
    BY <1>2, <2>2 DEF Stop
  <2>3. CASE /\ Callbacks(TasksIn({c}), Resubs({c}), "success")
             /\ awaiting' = [awaiting EXCEPT ![c] = @ - 1]
             /\ UNCHANGED <<agent, queue, flags, subs, net, step, op, granted>>
    <3> DEFINE done == TasksIn({c})
               n == Resubs({c})
    <3>1. ASSUME NEW x \in Commands
          PROVE  /\ Places(x)' \in Nat
                 /\ Places(x) = Places(x)' + Bit(c = x)
      <4>1. Count(queue, x) \in Nat /\ awaiting[x] \in Nat /\ Bit(current = x) \in Nat
        BY <1>0, PlacesType DEF Bit
      <4>2. awaiting[x] = awaiting'[x] + Bit(c = x) /\ awaiting'[x] \in Nat
        BY <1>0, <2>1, <2>3, <4>1 DEF Bit, Shape
      <4>3. Bit(c = x) \in Nat
        BY DEF Bit
      <4> QED BY <2>3, <4>1, <4>2, <4>3, PlacesAre
    <3>2. n = Bit(c = R) /\ n \in Nat
      BY DEF Resubs, Bit
    <3>3. done \in SUBSET Tasks /\ \A t \in done : c = t /\ t \in Commands
      BY Constants DEF TasksIn
    <3>4. \A t \in done : Places(t) > 0
      <4> SUFFICES ASSUME NEW t \in done PROVE Places(t) > 0
        OBVIOUS
      <4>1. Bit(c = t) = 1 /\ t \in Commands
        BY <3>3 DEF Bit
      <4> QED BY <3>1, <4>1
    <3>5. Places(R)' \in Nat /\ Places(R) = Places(R)' + n
      BY <1>0, <3>1, <3>2
    <3>6. Callbacks(done, n, "success") /\ step' = step
      BY <2>3
    <3> HIDE DEF done, n, R
    <3> QED BY <1>0, <3>2, <3>3, <3>4, <3>5, <3>6, PoolCallbacks DEF R
  <2> QED BY <2>1, <2>2, <2>3
<1>14. CASE ReceivePublish \/ ProcessLoopEnds \/ ConnectionLost \/ prvSocketRecvReadyCallback
            \/ UNCHANGED vars
  BY <1>2, <1>14 DEF ReceivePublish, ProcessLoopEnds, ConnectionLost,
     prvSocketRecvReadyCallback, vars
<1>15. CASE WatchdogReset
  <2>1. Count(queue', R) = 0 /\ awaiting'[R] = 0 /\ Bit(current' = R) = 0
    BY <1>0, <1>15, CountEmpty, Constants DEF WatchdogReset, Bit
  <2>2. Places(R)' = 0
    BY <2>1, PlacesAre
  <2>3. Waiters' = {}
    BY <1>15 DEF WatchdogReset, Waiters, Waits
  <2> QED BY <1>15, <2>2, <2>3, FS_EmptySet, MqttAgentAssumption DEF WatchdogReset, PoolInv
<1> QED
  BY <1>3, <1>6, <1>7, <1>8, <1>9, <1>10, <1>11, <1>12, <1>13, <1>14, <1>15
  DEF Next, Connecting, Serving

(* No command structure is lost or given back twice, by whatever path its  *)
(* command ends (Agent_GetCommand, Agent_ReleaseCommand).                  *)
THEOREM StructuresAccounted == Spec => []PoolInv
BY AgentInit, PoolInit, PoolStep, WaitersAreServed, AgentAlways, PTL DEF Spec

-----------------------------------------------------------------------------
(* The queue has a place for every structure that is out of the pool: the  *)
(* requests of different tasks are in different places of the queue.       *)

TaskPlaces == {i \in DOMAIN queue : queue[i] \in Tasks}

LEMMA QueueFits ==
  ASSUME Shape, WaiterHasCommand, PoolInv
  PROVE  Len(queue) <= PoolSize
<1> DEFINE P == TaskPlaces
           R == Positions(queue, Resubscribe)
           f == [i \in P |-> queue[i]]
<1>1. queue \in Seq(Commands) /\ Len(queue) \in Nat
  BY DEF Shape
<1>2. IsFiniteSet(Waiters) /\ Cardinality(Waiters) \in Nat
  BY FS_CardinalityType DEF PoolInv
<1>3. ASSUME NEW i \in P PROVE queue[i] \in Waiters
  <2>1. queue[i] \in Tasks /\ i \in DOMAIN queue /\ queue[i] \in Commands
    BY Constants DEF TaskPlaces
  <2> DEFINE t == queue[i]
             Q == Positions(queue, t)
  <2>2. i \in Q
    BY <2>1 DEF Positions
  <2>3. IsFiniteSet(Q)
    BY <1>1, CountType
  <2> HIDE DEF Q
  <2>4. Cardinality(Q) \in Nat /\ Cardinality(Q) # 0
    BY <2>2, <2>3, FS_CardinalityType, FS_EmptySet
  <2>5. Count(queue, t) # 0 /\ Count(queue, t) \in Nat
    BY <2>4 DEF Q, Count
  <2>6. awaiting[t] \in Nat /\ Bit(current = t) \in Nat
    BY <2>1, PlacesType DEF Bit
  <2>7. Places(t) # 0
    BY <2>5, <2>6, PlacesAre
  <2>8. Places(t) = IF Waits(t) THEN 1 ELSE 0
    BY <2>1 DEF WaiterHasCommand, Waits
  <2> QED BY <2>1, <2>7, <2>8 DEF Waiters
<1>4. ASSUME NEW i \in P, NEW j \in P, queue[i] = queue[j] PROVE i = j
  <2> DEFINE t == queue[i]
             Q == Positions(queue, t)
  <2>1. t \in Tasks /\ t \in Commands
    BY Constants DEF TaskPlaces
  <2>2. i \in Q /\ j \in Q
    BY <1>4 DEF Positions, TaskPlaces
  <2>3. IsFiniteSet(Q) /\ Count(queue, t) \in Nat
    BY <1>1, CountType
  <2>4. awaiting[t] \in Nat /\ Bit(current = t) \in Nat
    BY <2>1, PlacesType DEF Bit
  <2>5. Places(t) = IF Waits(t) THEN 1 ELSE 0
    BY <2>1 DEF WaiterHasCommand, Waits
  <2>6. Count(queue, t) <= 1
    BY <2>3, <2>4, <2>5, PlacesAre
  <2>7. Cardinality(Q) <= 1
    BY <2>6 DEF Count
  <2>8. ASSUME i # j PROVE FALSE
    <3>1. {i, j} \subseteq Q
      BY <2>2
    <3>2. Cardinality({i, j}) <= Cardinality(Q)
      BY <2>3, <3>1, FS_Subset
    <3>3. Cardinality({i, j}) = 2
      <4>1. IsFiniteSet({i}) /\ Cardinality({i}) = 1
        BY FS_Singleton
      <4>2. {i} \cup {j} = {i, j} /\ j \notin {i}
        BY <2>8
      <4> QED BY <4>1, <4>2, FS_AddElement
    <3>4. Cardinality(Q) \in Nat
      BY <2>3, FS_CardinalityType
    <3> QED BY <2>7, <3>2, <3>3, <3>4
  <2> QED BY <2>8
<1>5. IsFiniteSet(P) /\ Cardinality(P) <= Cardinality(Waiters) /\ Cardinality(P) \in Nat
  <2>1. P \in SUBSET (1 .. Len(queue))
    BY <1>1 DEF TaskPlaces
  <2>2. IsFiniteSet(P)
    <3>1. IsFiniteSet(1 .. Len(queue))
      BY <1>1, IntervalSize
    <3> HIDE DEF P
    <3> QED BY <2>1, <3>1, FS_Subset
  <2>3. f \in Injection(P, Waiters)
    <3> HIDE DEF P
    <3> QED BY <1>3, <1>4 DEF Injection, IsInjective
  <2> HIDE DEF P, f
  <2>4. Cardinality(P) <= Cardinality(Waiters)
    BY <1>2, <2>3, FS_Injection
  <2>5. Cardinality(P) \in Nat
    BY <2>2, FS_CardinalityType
  <2> QED BY <2>2, <2>4, <2>5
<1>6. IsFiniteSet(R) /\ Cardinality(R) \in Nat /\ Cardinality(R) = Count(queue, Resubscribe)
  BY <1>1, CountType DEF Count
<1>7. 1 .. Len(queue) = P \cup R
  BY <1>1, Constants DEF TaskPlaces, Positions
<1>8. P \cap R = {}
  BY Constants DEF TaskPlaces, Positions
<1>9. Len(queue) = Cardinality(P) + Cardinality(R)
  <2>1. Cardinality(1 .. Len(queue)) = Len(queue)
    BY <1>1, IntervalSize
  <2> HIDE DEF P, R
  <2>2. Cardinality(P \cup R) = Cardinality(P) + Cardinality(R)
    <3>1. Cardinality(P \cup R) = Cardinality(P) + Cardinality(R) - Cardinality(P \cap R)
      BY <1>5, <1>6, FS_Union
    <3>2. Cardinality(P \cap R) = 0
      BY <1>8, FS_EmptySet
    <3> QED BY <1>5, <1>6, <3>1, <3>2
  <2> QED BY <1>7, <2>1, <2>2
<1>10. awaiting[Resubscribe] \in Nat /\ Bit(current = Resubscribe) \in Nat
  BY Constants, PlacesType DEF Bit
<1>11. Cardinality(R) <= Places(Resubscribe) /\ Places(Resubscribe) \in Nat
  BY <1>6, <1>10, PlacesAre
<1>12. /\ pool \in Nat /\ PoolSize \in Nat
       /\ pool + Cardinality(Waiters) + Places(Resubscribe) = PoolSize
  BY MqttAgentAssumption DEF PoolInv
<1> HIDE DEF P, R
<1> QED BY <1>2, <1>5, <1>6, <1>9, <1>11, <1>12

(* No command is awaited more often than there are structures.             *)
LEMMA AwaitingFits ==
  ASSUME Shape, WaiterHasCommand, PoolInv, NEW c \in Commands
  PROVE  awaiting[c] \in 0 .. PoolSize
<1>1. Count(queue, c) \in Nat /\ awaiting[c] \in Nat /\ Bit(current = c) \in Nat
  BY PlacesType DEF Bit
<1>2. awaiting[c] <= Places(c) /\ Places(c) \in Nat
  BY <1>1, PlacesAre
<1>3. Cardinality(Waiters) \in Nat /\ PoolSize \in Nat \ {0}
  BY FS_CardinalityType, MqttAgentAssumption DEF PoolInv
<1>4. CASE c \in Tasks
  <2>1. Places(c) <= 1
    BY <1>4, <1>2 DEF WaiterHasCommand
  <2> QED BY <1>1, <1>2, <1>3, <2>1
<1>5. CASE c = Resubscribe
  <2>1. pool \in Nat /\ pool + Cardinality(Waiters) + Places(c) = PoolSize
    BY <1>5 DEF PoolInv
  <2> QED BY <1>1, <1>2, <1>3, <2>1
<1> QED BY <1>4, <1>5, Constants

-----------------------------------------------------------------------------
(* The variables that hold neither commands nor structures.                *)
RestOK ==
  /\ flags \subseteq {"SOCKET_RECV", "M_QUEUE"}
  /\ subs \subseteq Tasks
  /\ acked \subseteq Tasks
  /\ cleanSession \in BOOLEAN /\ connected \in BOOLEAN
  /\ broker \subseteq Tasks
  /\ session \in BOOLEAN
  /\ granted \subseteq Tasks

LEMMA RestStep == AgentInv /\ RestOK /\ [Next]_vars => RestOK'
<1> SUFFICES ASSUME AgentInv, RestOK, [Next]_vars PROVE RestOK'
  OBVIOUS
<1> USE DEF RestOK, agent, cmds, table, net, client
<1>1. ASSUME NEW t \in Tasks, Client(t) PROVE RestOK'
  BY <1>1 DEF Client, SubscribeSync, CheckStatus, UnSubscribeSync, SendRequest, NotifyAgent,
     RequestDone, RemoveEntry
<1>2. ASSUME NEW done, NEW n, NEW r, Callbacks(done, n, r)
      PROVE  acked' \subseteq Tasks
  BY <1>2 DEF Callbacks
<1>3. ASSUME NEW c, prvAgentMessageReceive(c) PROVE flags' = {}
  BY <1>3 DEF prvAgentMessageReceive
<1>4. ASSUME NEW n, CancelStops(n) PROVE RestOK'
  BY <1>4 DEF CancelStops, Stop
<1>5. CASE CancelQueued
  BY <1>2, <1>3, <1>4, <1>5 DEF CancelQueued
<1>6. CASE CancelAwaiting
  BY <1>2, <1>3, <1>4, <1>6 DEF CancelAwaiting
<1>7. CASE ReceiveCommand
  BY <1>3, <1>7 DEF ReceiveCommand
<1>8. CASE ExecuteCommand
  <2>1. current \in Tasks \/ current = Resubscribe
    BY <1>8, Constants DEF ExecuteCommand, AgentInv, Shape
  <2>2. broker' \subseteq Tasks
    BY <1>8, <2>1 DEF ExecuteCommand, BrokerActs
  <2> QED BY <1>8, <2>2 DEF ExecuteCommand
<1>9. CASE ExecuteFails
  BY <1>2, <1>4, <1>9 DEF ExecuteFails
<1>10. CASE ReceiveAck
  BY <1>2, <1>10 DEF ReceiveAck, Stop
<1>11. CASE TransportConnect \/ MqttConnectFails \/ StartCleanSession \/ ResumeSession
            \/ StartSession \/ DisconnectAndLock
  BY <1>11 DEF TransportConnect, MqttConnectFails, StartCleanSession, ResumeSession,
     StartSession, DisconnectAndLock, BrokerStartsSession
<1>12. CASE prvHandleResubscribe
  BY <1>12 DEF prvHandleResubscribe, ResubscribeNothing, EnqueueResubscribe,
     ResubscribeRefused, Stop
<1>13. CASE ReceivePublish \/ ProcessLoopEnds \/ ConnectionLost \/ prvSocketRecvReadyCallback
            \/ UNCHANGED vars
  BY <1>13 DEF ReceivePublish, ProcessLoopEnds, ConnectionLost, prvSocketRecvReadyCallback, vars
<1>14. CASE WatchdogReset
  BY <1>14 DEF WatchdogReset
<1> QED
  BY <1>1, <1>5, <1>6, <1>7, <1>8, <1>9, <1>10, <1>11, <1>12, <1>13, <1>14
  DEF Next, Connecting, Serving

(* Every structure is accounted for: the pool, the queue and the commands  *)
(* awaiting an acknowledgment stay within their bounds, so no command is   *)
(* refused by the queue for want of a place.                               *)
THEOREM TypeCorrect == Spec => []TypeOK
<1>1. Init => RestOK
  BY DEF Init, RestOK
<1>2. Spec => []RestOK
  BY <1>1, RestStep, AgentAlways, PTL DEF Spec
<1>3. AgentInv /\ RestOK /\ WaiterHasCommand /\ PoolInv => TypeOK
  <2> SUFFICES ASSUME AgentInv, RestOK, WaiterHasCommand, PoolInv PROVE TypeOK
    OBVIOUS
  <2>1. Shape
    BY DEF AgentInv
  <2>2. Len(queue) <= PoolSize
    BY <2>1, QueueFits
  <2>3. awaiting \in [Commands -> 0 .. PoolSize]
    BY <2>1, AwaitingFits DEF Shape
  <2>4. pool \in 0 .. PoolSize
    <3>1. Places(Resubscribe) \in Nat /\ Cardinality(Waiters) \in Nat
      BY <2>1, Constants, PlacesType, FS_CardinalityType DEF PoolInv
    <3> QED BY <3>1, MqttAgentAssumption DEF PoolInv
  <2> QED BY <2>1, <2>2, <2>3, <2>4 DEF TypeOK, Shape, RestOK
<1> QED BY <1>2, <1>3, AgentAlways, WaitersAreServed, StructuresAccounted, PTL

-----------------------------------------------------------------------------
(* Until the first connection the list is empty: the agent has had the     *)
(* mutex since the start, and no resubscription can give it back.          *)
NoResubscription ==
  /\ current # Resubscribe
  /\ awaiting[Resubscribe] = 0
  /\ \A i \in DOMAIN queue : queue[i] # Resubscribe

CleanInv ==
  cleanSession => /\ mutex = "agent"
                  /\ subs = {}
                  /\ pc # "resubscribe"
                  /\ NoResubscription

LEMMA CleanInit == Init => CleanInv
BY Constants DEF Init, CleanInv, NoResubscription

LEMMA CleanStep == AgentInv /\ CleanInv /\ [Next]_vars => CleanInv'
<1> SUFFICES ASSUME AgentInv, CleanInv, [Next]_vars, cleanSession'
             PROVE  /\ mutex' = "agent"
                    /\ subs' = {}
                    /\ pc' # "resubscribe"
                    /\ NoResubscription'
  BY DEF CleanInv
<1> DEFINE Goal == mutex' = "agent" /\ subs' = {} /\ pc' # "resubscribe" /\ NoResubscription'
<1> HIDE DEF Goal
<1> SUFFICES Goal
  BY DEF Goal
<1> USE DEF agent, cmds, table, net, client
<1>0. /\ Shape /\ Resubscribe \in Commands /\ Resubscribe \notin Tasks
      /\ NoCommand # Resubscribe
  BY Constants DEF AgentInv
<1>1. CASE WatchdogReset
  BY <1>0, <1>1 DEF WatchdogReset, NoResubscription, Goal
<1>2. CASE cleanSession
  <2>0. mutex = "agent" /\ subs = {} /\ pc # "resubscribe" /\ NoResubscription
    BY <1>2 DEF CleanInv
  <2>1. ASSUME UNCHANGED <<current, awaiting, queue, mutex, subs>>, pc' # "resubscribe"
        PROVE  Goal
    BY <2>0, <2>1 DEF NoResubscription, Goal
  <2>2. ASSUME NEW t \in Tasks, Client(t) PROVE Goal
    <3>1. UNCHANGED <<pc, current, awaiting, mutex, subs>>
      BY <2>0, <2>2 DEF Client, SubscribeSync, CheckStatus, UnSubscribeSync, SendRequest,
         NotifyAgent, RequestDone, RemoveEntry
    <3>2. \A i \in DOMAIN queue' : queue'[i] # Resubscribe
      <4>1. CASE SendRequest(t)
        <5>1. queue \in Seq(Commands) /\ queue' = Append(queue, t)
          BY <1>0, <4>1 DEF Shape, SendRequest
        <5>2. \A i \in DOMAIN queue : queue[i] # Resubscribe
          BY <2>0 DEF NoResubscription
        <5> QED BY <1>0, <5>1, <5>2
      <4>2. CASE queue' = queue
        BY <2>0, <4>2 DEF NoResubscription
      <4> QED
        BY <2>2, <4>1, <4>2 DEF Client, SubscribeSync, CheckStatus, UnSubscribeSync, NotifyAgent,
           RequestDone, RemoveEntry
    <3> QED BY <2>0, <3>1, <3>2 DEF NoResubscription, Goal
  <2>3. ASSUME NEW c, prvAgentMessageReceive(c)
        PROVE  c # Resubscribe /\ \A i \in DOMAIN queue' : queue'[i] # Resubscribe
    <3>1. queue \in Seq(Commands) /\ \A i \in DOMAIN queue : queue[i] # Resubscribe
      BY <1>0, <2>0 DEF Shape, NoResubscription
    <3>2. CASE MessageTaken /\ c = Head(queue) /\ queue' = Tail(queue)
      <4>1. queue # <<>>
        BY <3>2 DEF MessageTaken
      <4> QED BY <3>1, <3>2, <4>1
    <3> QED BY <1>0, <2>3, <3>1, <3>2 DEF prvAgentMessageReceive
  <2>4. ASSUME NEW done, NEW r, Callbacks(done, 0, r) PROVE mutex' = mutex
    BY <2>4 DEF Callbacks
  <2>5. ASSUME NEW n, CancelStops(n) PROVE Goal
    BY <2>1, <2>5 DEF CancelStops, Stop
  <2>6. CASE CancelQueued
    <3> DEFINE c == Head(queue)
    <3>1. CASE CancelStops(Resubs({c}))
      BY <2>5, <3>1
    <3>2. CASE /\ prvAgentMessageReceive(c)
               /\ Callbacks(TasksIn({c}), Resubs({c}), "failure")
               /\ UNCHANGED <<agent, awaiting, subs, net, step, op, granted>>
      <4>1. c # Resubscribe /\ \A i \in DOMAIN queue' : queue'[i] # Resubscribe
        BY <2>3, <3>2
      <4>2. Resubs({c}) = 0
        BY <4>1 DEF Resubs
      <4>3. mutex' = mutex
        BY <2>4, <3>2, <4>2
      <4>4. UNCHANGED <<pc, current, awaiting, subs>>
        BY <3>2
      <4> QED BY <2>0, <4>1, <4>3, <4>4 DEF NoResubscription, Goal
    <3> QED BY <2>6, <3>1, <3>2 DEF CancelQueued
  <2>7. CASE CancelAwaiting
    <3>1. CASE CancelStops(awaiting[Resubscribe])
      BY <2>5, <3>1
    <3>2. CASE /\ prvAgentMessageReceive(NoCommand)
               /\ Callbacks({t \in Tasks : awaiting[t] > 0}, awaiting[Resubscribe], "failure")
               /\ awaiting' = [c \in Commands |-> 0]
               /\ pc' = AfterCancel
               /\ UNCHANGED <<current, subs, cleanSession, connected, net, step, op, granted>>
      <4>1. \A i \in DOMAIN queue' : queue'[i] # Resubscribe
        BY <2>3, <3>2
      <4>2. mutex' = mutex
        BY <2>0, <2>4, <3>2 DEF NoResubscription
      <4>3. awaiting'[Resubscribe] = 0 /\ pc' # "resubscribe" /\ UNCHANGED <<current, subs>>
        BY <1>0, <3>2 DEF AfterCancel
      <4> QED BY <2>0, <4>1, <4>2, <4>3 DEF NoResubscription, Goal
    <3> QED BY <2>7, <3>1, <3>2 DEF CancelAwaiting
  <2>8. CASE TransportConnect \/ MqttConnectFails \/ DisconnectAndLock
    BY <2>0, <2>1, <2>8 DEF TransportConnect, MqttConnectFails, DisconnectAndLock
  <2>9. ~StartCleanSession /\ ~ResumeSession /\ ~StartSession /\ ~prvHandleResubscribe
    BY <1>2, <2>0 DEF StartCleanSession, ResumeSession, StartSession, prvHandleResubscribe
  <2>10. CASE ReceiveCommand
    <3>1. PICK c \in Commands \cup {NoCommand} : prvAgentMessageReceive(c) /\ current' = c
      BY <2>10 DEF ReceiveCommand
    <3>2. current' # Resubscribe /\ \A i \in DOMAIN queue' : queue'[i] # Resubscribe
      BY <2>3, <3>1
    <3>3. UNCHANGED <<awaiting, mutex, subs>> /\ pc' # "resubscribe"
      BY <2>10 DEF ReceiveCommand
    <3> QED BY <2>0, <3>2, <3>3 DEF NoResubscription, Goal
  <2>11. CASE ExecuteCommand
    <3>1. awaiting'[Resubscribe] = 0 /\ current' # Resubscribe
      BY <1>0, <2>0, <2>11 DEF ExecuteCommand, Shape, NoResubscription
    <3> QED BY <2>0, <2>11, <3>1 DEF ExecuteCommand, NoResubscription, Goal
  <2>12. CASE ExecuteFails
    <3>1. CASE CancelStops(Resubs({current}))
      BY <2>5, <3>1
    <3>2. CASE /\ Callbacks(TasksIn({current}), Resubs({current}), "failure")
               /\ current' = NoCommand
               /\ pc' = "cancelAll"
               /\ UNCHANGED <<queue, flags, awaiting, subs, cleanSession, connected, net, step,
                              op, granted>>
      <4>1. Resubs({current}) = 0
        BY <2>0 DEF Resubs, NoResubscription
      <4>2. mutex' = mutex
        BY <2>4, <3>2, <4>1
      <4> QED BY <1>0, <2>0, <3>2, <4>2 DEF NoResubscription, Goal
    <3> QED BY <2>12, <3>1, <3>2 DEF ExecuteFails
  <2>13. CASE ReceiveAck
    <3>1. PICK c \in Commands :
            /\ awaiting[c] > 0
            /\ \/ /\ Callbacks(TasksIn({c}), Resubs({c}), "success")
                  /\ awaiting' = [awaiting EXCEPT ![c] = @ - 1]
                  /\ UNCHANGED <<agent, queue, flags, subs, net, step, op, granted>>
               \/ Stop("halted")
      BY <2>13 DEF ReceiveAck
    <3>2. CASE Stop("halted")
      BY <2>1, <3>2 DEF Stop
    <3>3. CASE /\ Callbacks(TasksIn({c}), Resubs({c}), "success")
               /\ awaiting' = [awaiting EXCEPT ![c] = @ - 1]
               /\ UNCHANGED <<agent, queue, flags, subs, net, step, op, granted>>
      <4>1. c # Resubscribe
        BY <2>0, <3>1 DEF NoResubscription
      <4>2. Resubs({c}) = 0
        BY <4>1 DEF Resubs
      <4>3. mutex' = mutex
        BY <2>4, <3>3, <4>2
      <4>4. awaiting'[Resubscribe] = awaiting[Resubscribe]
        BY <1>0, <3>3, <4>1 DEF Shape
      <4> QED BY <2>0, <3>3, <4>3, <4>4 DEF NoResubscription, Goal
    <3> QED BY <3>1, <3>2, <3>3
  <2>14. CASE ReceivePublish \/ ProcessLoopEnds \/ ConnectionLost \/ prvSocketRecvReadyCallback
              \/ UNCHANGED vars
    BY <2>0, <2>1, <2>14 DEF ReceivePublish, ProcessLoopEnds, ConnectionLost,
       prvSocketRecvReadyCallback, vars
  <2> QED
    BY <1>1, <2>2, <2>6, <2>7, <2>8, <2>9, <2>10, <2>11, <2>12, <2>13, <2>14
    DEF Next, Connecting, Serving
<1>3. CASE ~cleanSession /\ ~WatchdogReset
  <2>1. cleanSession' = cleanSession \/ cleanSession' = FALSE
    BY <1>3
    DEF Next, Connecting, Serving, Client, SubscribeSync, CheckStatus, UnSubscribeSync,
        SendRequest, NotifyAgent, RequestDone, RemoveEntry, TransportConnect, CancelQueued,
        CancelAwaiting, CancelStops, Stop, MqttConnectFails, StartCleanSession, ResumeSession,
        StartSession, DisconnectAndLock, prvHandleResubscribe, ResubscribeNothing,
        EnqueueResubscribe, ResubscribeRefused, ReceiveCommand, ExecuteCommand, ExecuteFails,
        ReceiveAck, ReceivePublish, ProcessLoopEnds, ConnectionLost,
        prvSocketRecvReadyCallback, vars
  <2> QED BY <1>3, <2>1
<1> QED BY <1>1, <1>2, <1>3

(* A filter leaves the list only with the task it belongs to, or with the  *)
(* device: the one reset of the list finds it empty.                       *)
THEOREM FiltersAreKept == Spec => SubscriptionsKept
<1>1. ASSUME CleanInv, [Next]_vars
      PROVE  [\A t \in subs \ subs' : step[t] = "remove" \/ pc \in {"halted", "faulted"}]_vars
  <2> SUFFICES ASSUME Next, NEW t \in subs, t \notin subs'
               PROVE  step[t] = "remove" \/ pc \in {"halted", "faulted"}
    BY <1>1
  <2> USE DEF agent, cmds, table, net, client
  <2>1. CASE WatchdogReset
    BY <2>1 DEF WatchdogReset
  <2>2. ASSUME NEW u \in Tasks, Client(u) PROVE step[t] = "remove"
    <3>1. RemoveEntry(u) /\ u = t
      BY <2>2 DEF Client, SubscribeSync, CheckStatus, UnSubscribeSync, SendRequest, NotifyAgent,
         RequestDone, RemoveEntry
    <3> QED BY <3>1 DEF RemoveEntry
  <2>3. ~StartCleanSession
    BY <1>1 DEF StartCleanSession, CleanInv
  <2>4. ~Connecting
    <3>1. ASSUME Connecting PROVE subs' = subs
      BY <2>3, <3>1 DEF Connecting, TransportConnect, CancelQueued,
         CancelAwaiting, CancelStops, Stop, MqttConnectFails, ResumeSession,
         StartSession, DisconnectAndLock, prvHandleResubscribe, ResubscribeNothing,
         EnqueueResubscribe, ResubscribeRefused
    <3> QED BY <3>1
  <2>5. ~Serving /\ ~prvSocketRecvReadyCallback
    <3>1. ASSUME Serving \/ prvSocketRecvReadyCallback PROVE subs' = subs
      BY <3>1 DEF Serving, ReceiveCommand, ExecuteCommand, ExecuteFails, ReceiveAck,
         ReceivePublish, ProcessLoopEnds, ConnectionLost, prvSocketRecvReadyCallback,
         CancelStops, Stop
    <3> QED BY <3>1
  <2> QED BY <2>1, <2>2, <2>4, <2>5 DEF Next
<1>2. Spec => []CleanInv
  BY CleanInit, CleanStep, AgentAlways, PTL DEF Spec
<1> QED BY <1>1, <1>2, PTL DEF Spec, SubscriptionsKept
=============================================================================
