------------------------------ MODULE MqttAgent ------------------------------
(***************************************************************************)
(* The MQTT agent task and its clients,                                    *)
(* Common/app/mqtt/mqtt_agent_task.c: the command queue, the notification  *)
(* bits that announce its messages, the mutex of the subscription manager  *)
(* and the reconnection with resubscription.                               *)
(*                                                                         *)
(* The coreMQTT agent library and the broker are external: the library     *)
(* takes commands from the queue, keeps those that await an acknowledgment *)
(* and calls a command's completion callback exactly once.                 *)
(*                                                                         *)
(* Each client owns one topic filter.  A critical section of a client does *)
(* not block, so it is one step that needs the mutex to be free.           *)
(***************************************************************************)
EXTENDS Naturals, Sequences, FiniteSets

CONSTANTS
  Tasks,         \* the tasks that subscribe and unsubscribe
  Resubscribe,   \* the command the agent gives itself after a reconnection
  NoCommand,
  PoolSize,      \* command structures, as many as the queue has places
  Events         \* what may go wrong with the network

NetworkEvents == {"connectionLost", "sendFails", "sessionLost"}

Commands == Tasks \cup {Resubscribe}

ASSUME MqttAgentAssumption ==
  /\ Resubscribe \notin Tasks
  /\ NoCommand \notin Commands
  /\ PoolSize \in Nat \ {0}
  /\ Events \subseteq NetworkEvents

VARIABLES
  pc,            \* where the agent task stands
  current,       \* the command the agent has received
  queue,         \* xAgentMessageCtx.xQueue
  flags,         \* notification bits pending for the agent
  awaiting,      \* commands that await an acknowledgment, with multiplicity
  pool,          \* xCommandPoolQueue: how many structures are left
  mutex,         \* xSubMgrCtx.xMutex: "agent" or "free"
  subs,          \* tasks whose filter is in pxSubscriptions
  acked,         \* those whose pxSubAckStatus is not MQTTSubAckFailure
  cleanSession,  \* xConnectInfo.cleanSession
  connected,     \* EVT_MASK_MQTT_CONNECTED
  broker,        \* tasks whose filter the broker holds for this client
  session,       \* the broker keeps that session when the connection ends
  step,          \* where each task stands
  op,            \* the call it makes
  answer,        \* the completion notification pending for each task
  granted        \* history: tasks told that they are subscribed

agent  == <<pc, current, cleanSession, connected>>
cmds   == <<queue, flags, awaiting, pool>>
table  == <<mutex, subs, acked>>
net    == <<broker, session>>
client == <<step, op, answer, granted>>
vars   == <<pc, current, queue, flags, awaiting, pool, mutex, subs,
            acked, cleanSession, connected, broker, session, step, op, answer, granted>>

AgentPoints == {"connect", "cancelStale", "mqttConnect", "resubscribe",
                "receive", "execute", "process", "cancelAll", "lock",
                "halted", "faulted", "selfBlocked"}

TypeOK ==
  /\ pc \in AgentPoints
  /\ current \in Commands \cup {NoCommand}
  /\ queue \in Seq(Commands) /\ Len(queue) <= PoolSize
  /\ flags \subseteq {"SOCKET_RECV", "M_QUEUE"}
  /\ awaiting \in [Commands -> 0 .. PoolSize]
  /\ pool \in 0 .. PoolSize
  /\ mutex \in {"agent", "free"}
  /\ subs \subseteq Tasks
  /\ acked \subseteq Tasks
  /\ cleanSession \in BOOLEAN /\ connected \in BOOLEAN
  /\ broker \subseteq Tasks
  /\ session \in BOOLEAN
  /\ step \in [Tasks -> {"idle", "check", "request", "notify",
                          "wait", "remove"}]
  /\ op \in [Tasks -> {"subscribe", "unsubscribe"}]
  /\ answer \in [Tasks -> {"none", "success", "failure"}]
  /\ granted \subseteq Tasks

(* The task context is configured: the mutex exists and the agent has it.  *)
Init ==
  /\ pc = "connect"
  /\ current = NoCommand
  /\ queue = <<>>
  /\ flags = {}
  /\ awaiting = [c \in Commands |-> 0]
  /\ pool = PoolSize
  /\ mutex = "agent"
  /\ subs = {}
  /\ acked = {}
  /\ cleanSession = TRUE
  /\ connected = FALSE
  /\ broker = {}
  /\ session = FALSE
  /\ step = [t \in Tasks |-> "idle"]
  /\ op = [t \in Tasks |-> "subscribe"]
  /\ answer = [t \in Tasks |-> "none"]
  /\ granted = {}

-----------------------------------------------------------------------------
(* The message interface given to the agent library.                       *)

(* One notification may stand for several messages, or for a message and   *)
(* the socket, which goes first.  At most one message is taken for it.     *)
MessageTaken == flags = {"M_QUEUE"} /\ queue # <<>>

(* Mutant: the message is taken from the queue before the socket is given  *)
(* precedence.                                                             *)
prvAgentMessageReceiveDropping(command) ==
  /\ flags' = {}
  /\ queue' = IF "M_QUEUE" \in flags /\ queue # <<>> THEN Tail(queue) ELSE queue
  /\ command = IF MessageTaken THEN Head(queue) ELSE NoCommand

prvAgentMessageReceive(command) ==
  /\ flags' = {}
  /\ \/ MessageTaken /\ command = Head(queue) /\ queue' = Tail(queue)
     \/ ~MessageTaken /\ command = NoCommand /\ queue' = queue

(* The socket-notify thread has seen the socket become readable.           *)
prvSocketRecvReadyCallback ==
  /\ pc \in {"cancelStale", "mqttConnect", "resubscribe", "receive",
             "execute", "process", "cancelAll"}
  /\ flags' = flags \cup {"SOCKET_RECV"}
  /\ UNCHANGED <<agent, queue, awaiting, pool, table, net, client>>

-----------------------------------------------------------------------------
(* Completion callbacks.                                                   *)

Stop(p) == /\ pc' = p
           /\ UNCHANGED <<current, cmds, table, cleanSession, connected, net,
                          client>>

(* prvResubscribeCommandCallback asserts that the agent owns the mutex,    *)
(* and gives it.                                                           *)
ResubscribeAsserts(n) == n = 0 \/ (n = 1 /\ mutex = "agent")

(* It reads a SUBACK code for each entry.  The library has none to pass    *)
(* for a command it cancels: the read may trap, or return anything.        *)
NoCodes(n) == n > 0 /\ subs # {}

CancelStops(n) == \/ ~ResubscribeAsserts(n) /\ Stop("halted")
                  \/ ResubscribeAsserts(n) /\ NoCodes(n) /\ Stop("faulted")

(* The callbacks of the commands of the tasks in done, and of n            *)
(* resubscriptions, with the result they are given.                        *)
Callbacks(done, n, result) ==
  /\ answer' = [t \in Tasks |-> IF t \in done THEN result ELSE answer[t]]
  /\ mutex' = IF n = 0 THEN mutex ELSE "free"
  /\ IF n = 0 THEN acked' = acked
     ELSE IF result = "success" THEN acked' = subs
     ELSE acked' \in SUBSET subs
  /\ pool' = pool + Cardinality(done) + n

TasksIn(S) == S \cap Tasks
Resubs(S)  == IF Resubscribe \in S THEN 1 ELSE 0

-----------------------------------------------------------------------------
(* The clients.                                                            *)

(* MqttAgent_SubscribeSync: the entry and the callback are added, and once *)
(* the mutex has been given back its status says whether to send a request.*)
SubscribeSync(t) ==
  /\ step[t] = "idle"
  /\ mutex = "free"
  /\ subs' = subs \cup {t}
  /\ acked' = IF t \in subs THEN acked ELSE acked \ {t}
  /\ op' = [op EXCEPT ![t] = "subscribe"]
  /\ step' = [step EXCEPT ![t] = "check"]
  /\ UNCHANGED <<agent, cmds, mutex, net, answer, granted>>

CheckStatus(t) ==
  /\ step[t] = "check"
  /\ \/ /\ t \in acked
        /\ granted' = granted \cup {t}
        /\ step' = [step EXCEPT ![t] = "idle"]
     \/ /\ t \notin acked
        /\ granted' = granted
        /\ step' = [step EXCEPT ![t] = "request"]
  /\ UNCHANGED <<agent, cmds, table, net, op, answer>>

UnSubscribeSync(t) ==
  /\ step[t] = "idle"
  /\ mutex = "free"
  /\ t \in subs
  /\ op' = [op EXCEPT ![t] = "unsubscribe"]
  /\ step' = [step EXCEPT ![t] = "request"]
  /\ granted' = granted \ {t}
  /\ UNCHANGED <<agent, cmds, table, net, answer>>

(* Mutant: a request is queued whether or not there is a structure for it. *)
SendRequestUnpooled(t) ==
  /\ step[t] = "request"
  /\ pool' = pool - 1
  /\ queue' = Append(queue, t)
  /\ answer' = [answer EXCEPT ![t] = "none"]
  /\ step' = [step EXCEPT ![t] = "notify"]
  /\ UNCHANGED <<agent, flags, awaiting, table, net, op, granted>>

(* Agent_GetCommand, then the queue: there is a place for every structure. *)
SendRequest(t) ==
  /\ step[t] = "request"
  /\ pool > 0
  /\ pool' = pool - 1
  /\ queue' = Append(queue, t)
  /\ answer' = [answer EXCEPT ![t] = "none"]
  /\ step' = [step EXCEPT ![t] = "notify"]
  /\ UNCHANGED <<agent, flags, awaiting, table, net, op, granted>>

NotifyAgent(t) ==
  /\ step[t] = "notify"
  /\ flags' = flags \cup {"M_QUEUE"}
  /\ step' = [step EXCEPT ![t] = "wait"]
  /\ UNCHANGED <<agent, queue, awaiting, pool, table, net, op, answer,
                 granted>>

(* Without SUBACK codes the status written is zero, which is not a failure:*)
(* only the return value tells.                                            *)
RequestDone(t) ==
  /\ step[t] = "wait"
  /\ answer[t] # "none"
  /\ answer' = [answer EXCEPT ![t] = "none"]
  /\ granted' = IF op[t] = "subscribe" /\ answer[t] = "success"
                THEN granted \cup {t} ELSE granted
  /\ acked' = IF op[t] = "subscribe" THEN acked \cup {t} ELSE acked
  /\ step' = [step EXCEPT ![t] =
                IF op[t] = "subscribe" THEN "idle" ELSE "remove"]
  /\ UNCHANGED <<agent, cmds, mutex, subs, net, op>>

(* The entry goes whatever the request came to.                            *)
RemoveEntry(t) ==
  /\ step[t] = "remove"
  /\ mutex = "free"
  /\ subs' = subs \ {t}
  /\ acked' = acked \ {t}
  /\ step' = [step EXCEPT ![t] = "idle"]
  /\ UNCHANGED <<agent, cmds, mutex, net, op, answer, granted>>

-----------------------------------------------------------------------------
(* The agent: connection.                                                  *)

(* mbedtls_transport_connect, tried for ever.                              *)
TransportConnect ==
  /\ pc = "connect"
  /\ pc' = "cancelStale"
  /\ UNCHANGED <<current, cmds, table, cleanSession, connected, net, client>>

AfterCancel == IF pc = "cancelStale" THEN "mqttConnect" ELSE "lock"

(* MQTTAgent_CancelAll takes messages until none is received, then the     *)
(* commands that await an acknowledgment.                                  *)
CancelQueued ==
  /\ pc \in {"cancelStale", "cancelAll"}
  /\ MessageTaken
  /\ LET c == Head(queue) IN
       \/ /\ ResubscribeAsserts(Resubs({c}))
          /\ prvAgentMessageReceive(c)
          /\ Callbacks(TasksIn({c}), Resubs({c}), "failure")
          /\ UNCHANGED <<agent, awaiting, subs, net, step, op, granted>>
       \/ CancelStops(Resubs({c}))

CancelAwaiting ==
  /\ pc \in {"cancelStale", "cancelAll"}
  /\ ~MessageTaken
  /\ \/ /\ ResubscribeAsserts(awaiting[Resubscribe])
        /\ prvAgentMessageReceive(NoCommand)
        /\ Callbacks({t \in Tasks : awaiting[t] > 0}, awaiting[Resubscribe],
                     "failure")
        /\ awaiting' = [c \in Commands |-> 0]
        /\ pc' = AfterCancel
        /\ UNCHANGED <<current, subs, cleanSession, connected, net, step, op,
                       granted>>
     \/ CancelStops(awaiting[Resubscribe])

(* MQTT_Connect fails: the broker has not seen the CONNECT, or it has and  *)
(* the CONNACK does not arrive in time.                                    *)
BrokerStartsSession ==
  /\ cleanSession \/ ~session \/ "sessionLost" \in Events
  /\ broker' = {}
  /\ session' = ~cleanSession

MqttConnectFails ==
  /\ pc = "mqttConnect"
  /\ "connectionLost" \in Events
  /\ BrokerStartsSession \/ UNCHANGED net
  /\ pc' = "cancelAll"
  /\ UNCHANGED <<current, cmds, table, cleanSession, connected, client>>

(* Mutant: the next connection asks for a clean session again.             *)
StartCleanSessionAgain ==
  /\ pc = "mqttConnect"
  /\ cleanSession
  /\ subs' = {}
  /\ acked' = {}
  /\ mutex' = "free"
  /\ BrokerStartsSession
  /\ connected' = TRUE
  /\ pc' = "receive"
  /\ UNCHANGED <<current, cmds, cleanSession, client>>

(* The broker does not keep the session of a clean connection.             *)
StartCleanSession ==
  /\ pc = "mqttConnect"
  /\ cleanSession
  /\ subs' = {}
  /\ acked' = {}
  /\ mutex' = "free"
  /\ BrokerStartsSession
  /\ cleanSession' = FALSE
  /\ connected' = TRUE
  /\ pc' = "receive"
  /\ UNCHANGED <<current, cmds, client>>

(* The broker still has the session: no resubscription.                    *)
ResumeSession ==
  /\ pc = "mqttConnect"
  /\ ~cleanSession
  /\ session
  /\ mutex' = "free"
  /\ connected' = TRUE
  /\ pc' = "receive"
  /\ UNCHANGED <<current, cmds, subs, acked, cleanSession, net, client>>

StartSession ==
  /\ pc = "mqttConnect"
  /\ ~cleanSession
  /\ BrokerStartsSession
  /\ pc' = "resubscribe"
  /\ UNCHANGED <<current, cmds, table, cleanSession, connected, client>>

(* Mutant: with nothing to resubscribe the mutex is kept.                  *)
ResubscribeNothingLocked ==
  /\ subs = {}
  /\ connected' = TRUE
  /\ pc' = "receive"
  /\ UNCHANGED <<current, cmds, table, cleanSession, net, client>>

ResubscribeNothing ==
  /\ subs = {}
  /\ mutex' = "free"
  /\ connected' = TRUE
  /\ pc' = "receive"
  /\ UNCHANGED <<current, cmds, subs, acked, cleanSession, net, client>>

(* The mutex stays with the agent until the callback.                      *)
EnqueueResubscribe ==
  /\ subs # {}
  /\ pool > 0
  /\ pool' = pool - 1
  /\ queue' = Append(queue, Resubscribe)
  /\ flags' = flags \cup {"M_QUEUE"}
  /\ connected' = TRUE
  /\ pc' = "receive"
  /\ UNCHANGED <<current, awaiting, table, cleanSession, net, client>>

ResubscribeRefused ==
  /\ subs # {}
  /\ pool = 0
  /\ pc' = "cancelAll"
  /\ UNCHANGED <<current, cmds, table, cleanSession, connected, net, client>>

prvHandleResubscribe ==
  /\ pc = "resubscribe"
  /\ \/ mutex = "free" /\ Stop("halted")
     \/ /\ mutex = "agent"
        /\ ResubscribeNothing \/ EnqueueResubscribe \/ ResubscribeRefused

-----------------------------------------------------------------------------
(* The agent: command loop.                                                *)

(* The wait ends with a notification or after MQTT_AGENT_MAX_EVENT_QUEUE_  *)
(* WAIT_TIME.                                                              *)
ReceiveCommand ==
  /\ pc = "receive"
  /\ \E c \in Commands \cup {NoCommand} :
       /\ prvAgentMessageReceive(c)
       /\ current' = c
       /\ pc' = IF c = NoCommand THEN "process" ELSE "execute"
  /\ UNCHANGED <<awaiting, pool, table, cleanSession, connected, net, client>>

(* The packet is sent; the broker will act on it.                          *)
BrokerActs(c) ==
  broker' = IF c = Resubscribe THEN broker \cup subs
            ELSE IF op[c] = "subscribe" THEN broker \cup {c}
            ELSE broker \ {c}

ExecuteCommand ==
  /\ pc = "execute"
  /\ BrokerActs(current)
  /\ awaiting' = [awaiting EXCEPT ![current] = @ + 1]
  /\ current' = NoCommand
  /\ pc' = "process"
  /\ UNCHANGED <<queue, flags, pool, table, cleanSession, connected, session,
                 client>>

(* A command that cannot be sent is complete, and the loop ends.           *)
ExecuteFails ==
  /\ pc = "execute"
  /\ "sendFails" \in Events
  /\ \/ /\ ResubscribeAsserts(Resubs({current}))
        /\ Callbacks(TasksIn({current}), Resubs({current}), "failure")
        /\ current' = NoCommand
        /\ pc' = "cancelAll"
        /\ UNCHANGED <<queue, flags, awaiting, subs, cleanSession, connected,
                       net, step, op, granted>>
     \/ CancelStops(Resubs({current}))

(* An acknowledgment: the completion callback of its command.              *)
ReceiveAck ==
  /\ pc = "process"
  /\ \E c \in Commands :
       /\ awaiting[c] > 0
       /\ \/ /\ ResubscribeAsserts(Resubs({c}))
             /\ Callbacks(TasksIn({c}), Resubs({c}), "success")
             /\ awaiting' = [awaiting EXCEPT ![c] = @ - 1]
             /\ UNCHANGED <<agent, queue, flags, subs, net, step, op, granted>>
          \/ ~ResubscribeAsserts(Resubs({c})) /\ Stop("halted")

(* prvIncomingPublishCallback takes the mutex: if the agent has it, it     *)
(* waits for itself.  A broker may publish before it acknowledges the      *)
(* subscription.                                                           *)
ReceivePublish ==
  /\ pc = "process"
  /\ broker # {}
  /\ pc' = IF mutex = "agent" THEN "selfBlocked" ELSE pc
  /\ UNCHANGED <<current, cmds, table, cleanSession, connected, net, client>>

ProcessLoopEnds ==
  /\ pc = "process"
  /\ pc' = "receive"
  /\ UNCHANGED <<current, cmds, table, cleanSession, connected, net, client>>

ConnectionLost ==
  /\ pc = "process"
  /\ "connectionLost" \in Events
  /\ pc' = "cancelAll"
  /\ UNCHANGED <<current, cmds, table, cleanSession, connected, net, client>>

(* mbedtls_transport_disconnect; then no client subscribes until the next  *)
(* connection.                                                             *)
DisconnectAndLock ==
  /\ pc = "lock"
  /\ connected' = FALSE
  /\ mutex' = "agent"
  /\ acked' = {}
  /\ pc' = "connect"
  /\ UNCHANGED <<current, cmds, subs, cleanSession, net, client>>

(* A failed assertion spins until the watchdog resets the device.          *)
WatchdogReset ==
  /\ pc \in {"halted", "faulted"}
  /\ pc' = "connect"
  /\ current' = NoCommand
  /\ queue' = <<>>
  /\ flags' = {}
  /\ awaiting' = [c \in Commands |-> 0]
  /\ pool' = PoolSize
  /\ mutex' = "agent"
  /\ subs' = {}
  /\ acked' = {}
  /\ cleanSession' = TRUE
  /\ connected' = FALSE
  /\ step' = [t \in Tasks |-> "idle"]
  /\ op' = [t \in Tasks |-> "subscribe"]
  /\ answer' = [t \in Tasks |-> "none"]
  /\ granted' = {}
  /\ UNCHANGED net

-----------------------------------------------------------------------------
Client(t) == \/ SubscribeSync(t)
             \/ CheckStatus(t)
             \/ UnSubscribeSync(t)
             \/ SendRequest(t)
             \/ NotifyAgent(t)
             \/ RequestDone(t)
             \/ RemoveEntry(t)

Connecting == \/ TransportConnect
              \/ CancelQueued
              \/ CancelAwaiting
              \/ MqttConnectFails
              \/ StartCleanSession
              \/ ResumeSession
              \/ StartSession
              \/ prvHandleResubscribe
              \/ DisconnectAndLock

Serving == \/ ReceiveCommand
           \/ ExecuteCommand
           \/ ExecuteFails
           \/ ReceiveAck
           \/ ReceivePublish
           \/ ProcessLoopEnds
           \/ ConnectionLost

Next == \/ \E t \in Tasks : Client(t)
        \/ prvSocketRecvReadyCallback
        \/ Connecting
        \/ Serving
        \/ WatchdogReset

Spec == Init /\ [][Next]_vars

(* Calls that have begun go on, the agent runs, and the broker answers.    *)
Fairness ==
  /\ \A t \in Tasks : WF_vars(CheckStatus(t) \/ SendRequest(t) \/ NotifyAgent(t)
                              \/ RequestDone(t) \/ RemoveEntry(t))
  /\ WF_vars(Connecting)
  /\ WF_vars(Serving)
  /\ SF_vars(ReceiveAck)

FairSpec == Spec /\ Fairness

-----------------------------------------------------------------------------
(* Properties.                                                             *)

Places(c) == Cardinality({i \in DOMAIN queue : queue[i] = c})
             + awaiting[c] + (IF current = c THEN 1 ELSE 0)

(* A task that waits without a time-out has its request in exactly one     *)
(* place, or its answer: no message is lost between the queue, the         *)
(* notification bits, the cancellation at a reconnection and the           *)
(* acknowledgments (prvAgentMessageReceive, prvSubscribeRqCallback).       *)
WaiterHasCommand ==
  \A t \in Tasks :
    Places(t) = IF step[t] \in {"notify", "wait"} /\ answer[t] = "none"
                THEN 1 ELSE 0

(* While the command loop runs, the agent has the mutex only for a         *)
(* resubscription that is still to be acknowledged: otherwise every        *)
(* subscriber would wait for ever (vMQTTAgentTask, prvHandleResubscribe).  *)
MutexHandedOver ==
  pc \in {"receive", "execute", "process"} /\ mutex = "agent" =>
    Places(Resubscribe) > 0

(* The agent never drops a filter from the list: only the task it belongs  *)
(* to removes it, whatever the connections in between                      *)
(* (prvSubscriptionManagerCtxReset).                                       *)
SubscriptionsKept ==
  [][\A t \in subs \ subs' :
       step[t] = "remove" \/ pc \in {"halted", "faulted"}]_vars

(* A request that a task has given to the agent is answered: the agent is  *)
(* notified "that a message is waiting" (mqtt_agent_task.c:512).           *)
RequestAnswered ==
  \A t \in Tasks : (step[t] = "wait") ~> (step[t] # "wait")

(* When the agent serves with the mutex free, the broker holds every       *)
(* subscription whose task was told MQTTSuccess (subscription_manager.h:89 *)
(* and the comment at mqtt_agent_task.c:1198).                             *)
GrantedIsHeld == pc = "receive" /\ mutex = "free" => granted \subseteq broker

(* The agent never waits for the mutex it has: xLockSubCtx asserts that    *)
(* its caller does not own it (mqtt_agent_task.c:240).                     *)
NeverSelfBlocked == pc # "selfBlocked"
=============================================================================
