---------------------------- MODULE TlsTransport ----------------------------
(***************************************************************************)
(* The TLS transport of the MQTT agent and the thread that tells the agent *)
(* that its socket is readable, Common/net/mbedtls_transport.c.            *)
(*                                                                         *)
(* The thread has idle priority and lives in memory of the network         *)
(* context: its stack and its task control block are used again for the    *)
(* next connection.  It selects on the socket, calls back, and waits for a *)
(* notification: zero asks it to select again, 0xFFFFFFFF to end.  The     *)
(* agent is the only user of the transport, and disconnects before it      *)
(* connects again (mqtt_agent_task.c:1259).                                *)
(*                                                                         *)
(* lwIP and the broker are external.  A select that was woken looks at its *)
(* socket again when it runs, and returns zero when the data is gone.      *)
(***************************************************************************)
EXTENDS Naturals

CONSTANTS
  MaxSockets,     \* bound: sockets opened in a behaviour
  MaxData         \* bound: records that wait in the socket

ASSUME TlsTransportAssumption ==
  /\ MaxSockets \in Nat \ {0}
  /\ MaxData \in Nat \ {0}

NoSocket == 0

VARIABLES
  agent,      \* where the agent stands in the transport
  after,      \* what it does when vStopSocketNotifyTask returns
  connected,  \* xConnectionState is STATE_CONNECTED
  sock,       \* xSockHandle of the TLS context
  opened,     \* sockets opened so far
  thread,     \* where the thread stands
  handle,     \* xTaskHandle is not NULL
  watched,    \* the thread's copy of the socket handle
  exitFlag,   \* xExitFlag
  note,       \* the notification that waits for the thread
  woken,      \* the stack has woken the select
  data,       \* records that wait in the socket
  peer,       \* the other end of the connection
  closing     \* close_notify was sent

client  == <<agent, after, connected, sock, opened>>
watcher == <<thread, handle, watched, exitFlag, note, woken>>
network == <<data, peer, closing>>
vars    == <<agent, after, connected, sock, opened, thread, handle, watched,
             exitFlag, note, woken, data, peer, closing>>

TypeOK ==
  /\ agent \in {"off", "handshake", "stop", "running", "disconnect"}
  /\ after \in {"create", "fail", "close"}
  /\ connected \in BOOLEAN
  /\ opened \in 0 .. MaxSockets
  /\ sock \in 0 .. opened
  /\ thread \in {"none", "start", "select", "wait", "exit", "deleted", "clash"}
  /\ handle \in BOOLEAN
  /\ watched \in 0 .. opened
  /\ exitFlag \in BOOLEAN
  /\ note \in {"none", "again", "stop"}
  /\ woken \in BOOLEAN
  /\ data \in 0 .. MaxData
  /\ peer \in {"up", "silent", "closed", "reset"}
  /\ closing \in BOOLEAN

Init ==
  /\ agent = "off" /\ after = "close"
  /\ connected = FALSE /\ sock = NoSocket /\ opened = 0
  /\ thread = "none" /\ handle = FALSE /\ watched = NoSocket
  /\ exitFlag = FALSE /\ note = "none" /\ woken = FALSE
  /\ data = 0 /\ peer = "up" /\ closing = FALSE

-----------------------------------------------------------------------------
(* The agent.                                                              *)

(* A connection that cannot be made leaves everything as it was.           *)
xConnectSocket ==
  /\ agent = "off" /\ opened < MaxSockets
  /\ agent' = "handshake"
  /\ opened' = opened + 1 /\ sock' = opened + 1
  /\ data' = 0 /\ peer' = "up" /\ closing' = FALSE
  /\ UNCHANGED <<after, connected, watcher>>

(* vCreateSocketNotifyTask stops the thread first.                         *)
HandshakeDone ==
  /\ agent = "handshake" /\ peer = "up"
  /\ agent' = "stop" /\ after' = "create"
  /\ UNCHANGED <<connected, sock, opened, watcher, network>>

HandshakeFails ==
  /\ agent = "handshake"
  /\ agent' = "off" /\ sock' = NoSocket
  /\ UNCHANGED <<after, connected, opened, watcher, network>>

(* vStopSocketNotifyTask, one turn of its loop: the notification overwrites *)
(* the one that waits.                                                     *)
StopThread ==
  /\ agent = "stop" /\ handle
  /\ note' = "stop"
  /\ UNCHANGED <<client, thread, handle, watched, exitFlag, woken, network>>

(* Mutant: the thread is asked to end and not waited for.                  *)
StoppedUnchecked == agent = "stop" /\ (handle => note = "stop")

Stopped == agent = "stop" /\ ~handle

(* The stack and the task control block must not belong to a task.  What   *)
(* two tasks in one stack do is not modelled: neither goes on.             *)
vCreateSocketNotifyTask ==
  /\ Stopped /\ after = "create"
  /\ thread' = IF thread = "none" THEN "start" ELSE "clash"
  /\ handle' = TRUE /\ watched' = sock /\ exitFlag' = FALSE /\ woken' = FALSE
  /\ note' = "none"
  /\ connected' = TRUE /\ agent' = "running"
  /\ UNCHANGED <<after, sock, opened, network>>

(* The end of mbedtls_transport_disconnect, or of a recv or send that has  *)
(* lost the connection: that one returns an error, on which the agent      *)
(* disconnects.                                                            *)
CloseSocket ==
  /\ Stopped /\ after \in {"close", "fail"}
  /\ sock' = NoSocket
  /\ agent' = IF after = "fail" THEN "disconnect" ELSE "off"
  /\ UNCHANGED <<after, connected, opened, watcher, network>>

(* Mutant: a read that timed out counts as a record.                       *)
ReceiveNothing ==
  /\ agent = "running"
  /\ data' = data - 1
  /\ note' = IF handle THEN "again" ELSE note
  /\ UNCHANGED <<client, thread, handle, watched, exitFlag, woken, peer, closing>>

(* mbedtls_transport_recv: a whole record asks the thread to select again, *)
(* part of one (MBEDTLS_ERR_SSL_WANT_READ) does not.                       *)
Receive ==
  /\ agent = "running" /\ data > 0
  /\ data' = data - 1
  /\ note' \in (IF handle THEN {"again", note} ELSE {note})
  /\ UNCHANGED <<client, thread, handle, watched, exitFlag, woken, peer, closing>>

(* The peer has closed or reset the connection: recv and send close the    *)
(* socket themselves, after the thread.                                    *)
ConnectionLost ==
  /\ agent = "running" /\ data = 0 /\ peer \in {"closed", "reset"}
  /\ connected' = FALSE
  /\ agent' = "stop" /\ after' = "fail"
  /\ UNCHANGED <<sock, opened, watcher, network>>

(* The agent gives the connection up: no answer to a ping, or MQTT_Connect *)
(* failed.                                                                 *)
GiveUp ==
  /\ agent = "running"
  /\ agent' = "disconnect"
  /\ UNCHANGED <<after, connected, sock, opened, watcher, network>>

(* Mutant: the broker is not told.                                         *)
DisconnectSilently ==
  /\ agent = "disconnect"
  /\ connected' = FALSE
  /\ agent' = "stop" /\ after' = "close"
  /\ UNCHANGED <<sock, opened, watcher, network>>

mbedtls_transport_disconnect ==
  /\ agent = "disconnect"
  /\ closing' = connected
  /\ connected' = FALSE
  /\ agent' = "stop" /\ after' = "close"
  /\ UNCHANGED <<sock, opened, watcher, data, peer>>

-----------------------------------------------------------------------------
(* vSocketNotifyThread.                                                    *)

ThreadStarts ==
  /\ thread = "start"
  /\ note' = "none"
  /\ thread' = "select"
  /\ UNCHANGED <<client, handle, watched, exitFlag, woken, network>>

Readable == data > 0 \/ peer \in {"closed", "reset"}

(* The select of the thread returns: with an error on a socket that is not *)
(* open or was reset, with zero when the agent was faster, or else with a  *)
(* readable socket, and the agent is called back.                          *)
SelectReturns ==
  /\ thread = "select"
  /\ woken \/ Readable \/ watched # sock
  /\ exitFlag' = (watched # sock \/ peer = "reset" \/ ~Readable)
  /\ thread' = "wait" /\ woken' = FALSE
  /\ UNCHANGED <<client, handle, watched, note, network>>

(* xTaskNotifyWait: even a thread whose select has failed waits here.      *)
ThreadNotified ==
  /\ thread = "wait" /\ note # "none"
  /\ note' = "none"
  /\ IF exitFlag \/ note = "stop"
     THEN thread' = "exit" /\ handle' = FALSE
     ELSE thread' = "select" /\ UNCHANGED handle
  /\ UNCHANGED <<client, watched, exitFlag, woken, network>>

(* vTaskDelete, and the idle task that takes the task off its list.        *)
ThreadDeleted ==
  /\ thread = "exit"
  /\ thread' = "deleted"
  /\ UNCHANGED <<client, handle, watched, exitFlag, note, woken, network>>

IdleReclaims ==
  /\ thread = "deleted"
  /\ thread' = "none"
  /\ UNCHANGED <<client, handle, watched, exitFlag, note, woken, network>>

-----------------------------------------------------------------------------
(* The broker and the stack.                                               *)

Wake == woken' = (woken \/ (thread = "select" /\ watched = sock))

DataArrives ==
  /\ sock # NoSocket /\ peer = "up" /\ data < MaxData
  /\ data' = data + 1
  /\ Wake
  /\ UNCHANGED <<client, thread, handle, watched, exitFlag, note, peer, closing>>

PeerCloses ==
  /\ sock # NoSocket /\ peer = "up"
  /\ peer' = "closed"
  /\ Wake
  /\ UNCHANGED <<client, thread, handle, watched, exitFlag, note, data, closing>>

LinkDies ==
  /\ sock # NoSocket /\ peer = "up"
  /\ peer' = "silent"
  /\ UNCHANGED <<client, watcher, data, closing>>

(* Retransmissions of what the agent sends, be it a ping or the            *)
(* close_notify, run out.                                                  *)
StackGivesUp ==
  /\ sock # NoSocket /\ peer = "silent" /\ (connected \/ closing)
  /\ peer' = "reset"
  /\ Wake
  /\ UNCHANGED <<client, thread, handle, watched, exitFlag, note, data, closing>>

PeerAnswersClose == closing /\ PeerCloses

-----------------------------------------------------------------------------
Agent ==
  \/ xConnectSocket \/ HandshakeDone \/ HandshakeFails
  \/ StopThread \/ vCreateSocketNotifyTask \/ CloseSocket
  \/ Receive \/ ConnectionLost \/ GiveUp \/ mbedtls_transport_disconnect

Thread == ThreadStarts \/ SelectReturns \/ ThreadNotified \/ ThreadDeleted

Environment == DataArrives \/ PeerCloses \/ LinkDies \/ StackGivesUp

Next == Agent \/ Thread \/ IdleReclaims \/ Environment

Spec == Init /\ [][Next]_vars

(* The agent does what it has begun, tasks of idle priority get to run     *)
(* while it waits, a broker that was told of the end closes, and           *)
(* retransmissions end.  Nobody has to send anything else.                 *)
FairSpec ==
  /\ Spec
  /\ WF_vars(StopThread) /\ WF_vars(CloseSocket) /\ WF_vars(vCreateSocketNotifyTask)
  /\ WF_vars(mbedtls_transport_disconnect)
  /\ WF_vars(Thread) /\ WF_vars(IdleReclaims)
  /\ WF_vars(PeerAnswersClose) /\ WF_vars(StackGivesUp)

-----------------------------------------------------------------------------
(* The thread only ever selects on the socket of the connection: a number  *)
(* that is closed may be another socket's by the time it is selected on.   *)
WatchesOwnSocket == thread = "select" => watched = sock /\ sock # NoSocket

(* Whoever comes out of vStopSocketNotifyTask, to close the socket or to   *)
(* create the next thread, finds the old one past its last use of the      *)
(* connection: only vTaskDelete is left (mbedtls_transport.c:190).         *)
ThreadGoneFirst ==
  [][agent = "stop" /\ agent' # "stop" => thread \in {"none", "exit", "deleted"}]_vars

(* No task is created in the stack and the control block of one that still *)
(* runs or that the idle task has still on its list (mbedtls_transport.c:190). *)
StackNotReused == thread # "clash"

(* Whoever asks the thread to end gets to close the socket, although the   *)
(* thread sits in a select without time-out and its first act is to clear  *)
(* its notification (mbedtls_transport.c:1409), unless it is one that was  *)
(* created in the stack of another.                                        *)
StopReturns == agent = "stop" ~> (agent # "stop" \/ thread = "clash")
=============================================================================
