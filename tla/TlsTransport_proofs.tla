-------------------------- MODULE TlsTransport_proofs --------------------------
(***************************************************************************)
(* Proofs about TlsTransport, for any number of connections and records.   *)
(*                                                                         *)
(* The notify thread is safe because of where the agent may be while the   *)
(* thread has its handle: between connections there is no thread but one   *)
(* that is on its way out, and the socket stays the same as long as there  *)
(* is one.                                                                 *)
(***************************************************************************)
EXTENDS TlsTransport, TLAPS

ThreadInv ==
  /\ TypeOK
  /\ handle <=> thread \in {"start", "select", "wait", "clash"}
  /\ handle => agent \in {"running", "stop", "disconnect"}
  /\ agent = "stop" /\ after = "create" => ~handle /\ sock # NoSocket
  /\ agent \in {"handshake", "running"} => sock # NoSocket
  /\ thread \in {"start", "select", "wait"} => watched = sock /\ sock # NoSocket

LEMMA ThreadInit == Init => ThreadInv
<1> SUFFICES ASSUME Init PROVE ThreadInv
  OBVIOUS
<1>1. 0 \in 0 .. MaxSockets /\ 0 \in 0 .. MaxData /\ 0 \in 0 .. 0
  BY TlsTransportAssumption
<1>2. TypeOK
  BY <1>1 DEF Init, TypeOK, NoSocket
<1> QED BY <1>2 DEF Init, ThreadInv, NoSocket

LEMMA ThreadStep == ThreadInv /\ [Next]_vars => ThreadInv'
<1> SUFFICES ASSUME ThreadInv, [Next]_vars PROVE ThreadInv'
  OBVIOUS
<1> USE TlsTransportAssumption
    DEF ThreadInv, TypeOK, NoSocket, client, watcher, network
<1>1. CASE xConnectSocket
  <2>1. opened' \in 0 .. MaxSockets /\ sock' \in 0 .. opened' /\ sock' # 0
    BY <1>1 DEF xConnectSocket
  <2>2. watched' \in 0 .. opened' /\ data' \in 0 .. MaxData
    BY <1>1 DEF xConnectSocket
  <2> QED BY <1>1, <2>1, <2>2 DEF xConnectSocket
<1>2. CASE HandshakeDone
  BY <1>2 DEF HandshakeDone
<1>3. CASE HandshakeFails
  BY <1>3 DEF HandshakeFails
<1>4. CASE StopThread
  BY <1>4 DEF StopThread
<1>5. CASE vCreateSocketNotifyTask
  BY <1>5 DEF vCreateSocketNotifyTask, Stopped
<1>6. CASE CloseSocket
  BY <1>6 DEF CloseSocket, Stopped
<1>7. CASE Receive
  BY <1>7 DEF Receive
<1>8. CASE ConnectionLost
  BY <1>8 DEF ConnectionLost
<1>9. CASE GiveUp
  BY <1>9 DEF GiveUp
<1>10. CASE mbedtls_transport_disconnect
  BY <1>10 DEF mbedtls_transport_disconnect
<1>11. CASE Thread
  <2>1. CASE ThreadStarts
    BY <2>1 DEF ThreadStarts
  <2>2. CASE SelectReturns
    BY <2>2 DEF SelectReturns, Readable
  <2>3. CASE ThreadNotified
    BY <2>3 DEF ThreadNotified
  <2>4. CASE ThreadDeleted
    BY <2>4 DEF ThreadDeleted
  <2> QED BY <1>11, <2>1, <2>2, <2>3, <2>4 DEF Thread
<1>12. CASE IdleReclaims
  BY <1>12 DEF IdleReclaims
<1>13. CASE Environment
  <2>1. CASE DataArrives
    BY <2>1 DEF DataArrives, Wake
  <2>2. CASE PeerCloses
    BY <2>2 DEF PeerCloses, Wake
  <2>3. CASE LinkDies
    BY <2>3 DEF LinkDies
  <2>4. CASE StackGivesUp
    BY <2>4 DEF StackGivesUp, Wake
  <2> QED BY <1>13, <2>1, <2>2, <2>3, <2>4 DEF Environment
<1>14. CASE UNCHANGED vars
  BY <1>14 DEF vars
<1> QED
  BY <1>1, <1>2, <1>3, <1>4, <1>5, <1>6, <1>7, <1>8, <1>9, <1>10, <1>11,
     <1>12, <1>13, <1>14 DEF Next, Agent

LEMMA ThreadAlways == Spec => []ThreadInv
BY ThreadInit, ThreadStep, PTL DEF Spec

(* Every variable keeps its type.                                          *)
THEOREM TypeCorrect == Spec => []TypeOK
<1>1. ThreadInv => TypeOK
  BY DEF ThreadInv
<1> QED BY <1>1, ThreadAlways, PTL

(* However connections end, the notify thread selects on the socket of the *)
(* connection it was created for, and that socket is open.                 *)
THEOREM ThreadOnItsSocket == Spec => []WatchesOwnSocket
<1>1. ThreadInv => WatchesOwnSocket
  BY DEF ThreadInv, WatchesOwnSocket
<1> QED BY <1>1, ThreadAlways, PTL

-----------------------------------------------------------------------------
(* The agent comes out of vStopSocketNotifyTask, to close the socket or to *)
(* create the next thread, only when the old one has nothing left to do    *)
(* but vTaskDelete.                                                        *)
THEOREM ThreadLeavesFirst == Spec => ThreadGoneFirst
<1>1. ThreadInv /\ [Next]_vars =>
        [agent = "stop" /\ agent' # "stop" => thread \in {"none", "exit", "deleted"}]_vars
  <2> SUFFICES ASSUME ThreadInv, Next, agent = "stop", agent' # "stop"
               PROVE  thread \in {"none", "exit", "deleted"}
    BY DEF vars
  <2>1. ~handle => thread \in {"none", "exit", "deleted"}
    BY DEF ThreadInv, TypeOK
  <2>2. CASE vCreateSocketNotifyTask \/ CloseSocket
    BY <2>1, <2>2 DEF vCreateSocketNotifyTask, CloseSocket, Stopped
  <2>3. CASE Agent /\ ~(vCreateSocketNotifyTask \/ CloseSocket)
    BY <2>3 DEF Agent, xConnectSocket, HandshakeDone, HandshakeFails, StopThread,
       Receive, ConnectionLost, GiveUp, mbedtls_transport_disconnect, client
  <2>4. CASE Thread \/ IdleReclaims \/ Environment
    BY <2>4 DEF Thread, ThreadStarts, SelectReturns, ThreadNotified, ThreadDeleted,
       IdleReclaims, Environment, DataArrives, PeerCloses, LinkDies, StackGivesUp, client
  <2> QED BY <2>2, <2>3, <2>4 DEF Next
<1> QED BY <1>1, ThreadAlways, PTL DEF Spec, ThreadGoneFirst
=============================================================================
