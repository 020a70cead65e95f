----------------------------- MODULE MxDataplane -----------------------------
(***************************************************************************)
(* The data plane of the Wi-Fi driver, Common/net/mxchip/mx_dataplane.c:   *)
(* one task that exchanges packets with the module over SPI, and the tasks *)
(* that queue packets for it (xSendIPCRequest, prvxLinkOutput).            *)
(*                                                                         *)
(* The processor has one core.  A producer of lower priority than the data *)
(* plane runs only while that is blocked; one of the same priority (Peers) *)
(* runs between any two of its steps.  The module is external: it raises   *)
(* the flow line when it is ready, and the notify line when it has data.   *)
(***************************************************************************)
EXTENDS Integers, FiniteSets

CONSTANTS
  Control,     \* the task that sends control requests
  Data,        \* the task that sends Ethernet packets
  Peers,       \* those of the two that have the data plane's priority
  QueueLen,    \* CONTROL_PLANE_QUEUE_LEN, DATA_PLANE_QUEUE_LEN
  Modulus,     \* of the counter of waiting packets, 2^32 in the code
  Faults       \* what may go wrong in the exchange

Producers == {Control, Data}

FaultKinds == {"flowTimeout", "lateFlow", "spiError", "badHeader", "queueFull",
               "noMemory"}

ASSUME MxDataplaneAssumption ==
  /\ Control # Data
  /\ "none" \notin Producers
  /\ Peers \subseteq Producers
  /\ QueueLen \in Nat \ {0}
  /\ Modulus \in Nat /\ Modulus > 8 * (QueueLen + 1)
  /\ Faults \subseteq FaultKinds

VARIABLES
  pc,         \* where the data plane stands
  queued,     \* how many packets each of them has in its queue
  step,       \* where each producer stands
  waiting,    \* ulTxPacketsWaiting
  source,     \* the producer whose packet is being sent, or "none"
  txLen,      \* a packet is to be sent
  held,       \* the packet has been taken from its queue
  rx,         \* the packet to receive, by how its length compares to the
              \* other's; "noBuffer" if none could be allocated for it
  flow,       \* SPI_EVT_FLOW_IDX has been notified
  module,     \* where the module stands
  pin,        \* the notify line
  result      \* how the transfer went, and what becomes of the packet received

task  == <<source, txLen, held, rx>>
lines == <<flow, module, pin>>
vars  == <<pc, queued, step, waiting, source, txLen, held, rx, flow, module,
           pin, result>>

Points   == {"check", "wait", "test", "flow", "peek", "reset", "header",
             "flowAgain", "transfer", "finish", "halted"}
Lengths  == {"equal", "unequal"}

TypeOK ==
  /\ pc \in Points
  /\ queued \in [Producers -> 0 .. QueueLen]
  /\ step \in [Producers -> {"idle", "enqueued", "refused"}]
  /\ waiting \in 0 .. Modulus - 1
  /\ source \in Producers \cup {"none"}
  /\ txLen \in BOOLEAN /\ held \in BOOLEAN /\ flow \in BOOLEAN /\ pin \in BOOLEAN
  /\ rx \in Lengths \cup {"none", "noBuffer"}
  /\ module \in {"idle", "selected", "ready", "gotHeader", "readyAgain", "late"}
  /\ result \in [transfer : {"none", "ok", "failed"}, rx : {"none", "passedUp", "freed"}]

NoResult == [transfer |-> "none", rx |-> "none"]

Init ==
  /\ pc = "check"
  /\ queued = [p \in Producers |-> 0]
  /\ step = [p \in Producers |-> "idle"]
  /\ waiting = 0
  /\ source = "none" /\ txLen = FALSE /\ held = FALSE /\ rx = "none"
  /\ flow = FALSE /\ module = "idle" /\ pin = FALSE
  /\ result = NoResult

Plus(n, d) == (n + d) % Modulus

-----------------------------------------------------------------------------
(* The producers.                                                          *)

Blocked == {"wait", "flow", "header", "flowAgain", "transfer"}

MayRun(p) == p \in Peers \/ pc \in Blocked

EnqueueAlways(p) ==
  /\ MayRun(p)
  /\ step[p] = "idle"
  /\ queued' = [queued EXCEPT ![p] = @ + 1]
  /\ step' = [step EXCEPT ![p] = "enqueued"]
  /\ UNCHANGED <<pc, waiting, task, lines, result>>

Enqueue(p) ==
  /\ MayRun(p)
  /\ step[p] = "idle"
  /\ queued[p] < QueueLen
  /\ queued' = [queued EXCEPT ![p] = @ + 1]
  /\ step' = [step EXCEPT ![p] = "enqueued"]
  /\ UNCHANGED <<pc, waiting, task, lines, result>>

(* No place came free in time.  prvxLinkOutput drops its packet;           *)
(* xSendIPCRequest counts its own all the same.  The bound keeps what such *)
(* requests add from reaching the modulus.                                 *)
EnqueueTimesOut(p) ==
  /\ MayRun(p)
  /\ "queueFull" \in Faults
  /\ p = Control
  /\ step[p] = "idle"
  /\ queued[p] = QueueLen
  /\ waiting < Modulus \div 6
  /\ step' = [step EXCEPT ![p] = "refused"]
  /\ UNCHANGED <<pc, queued, waiting, task, lines, result>>

(* Atomic_Increment_u32, and the notification that ends the wait.          *)
CountPacket(p) ==
  /\ MayRun(p)
  /\ step[p] # "idle"
  /\ waiting' = Plus(waiting, 1)
  /\ step' = [step EXCEPT ![p] = "idle"]
  /\ UNCHANGED <<pc, queued, task, lines, result>>

-----------------------------------------------------------------------------
(* The module.                                                             *)

DataArrives ==
  /\ ~pin
  /\ pin' = TRUE
  /\ UNCHANGED <<pc, queued, step, waiting, task, flow, module, result>>

FlowRises ==
  /\ module \in {"selected", "gotHeader", "late"}
  /\ module' = CASE module = "selected"  -> "ready"
                 [] module = "gotHeader" -> "readyAgain"
                 [] module = "late"      -> "idle"
  /\ flow' = TRUE
  /\ UNCHANGED <<pc, queued, step, waiting, task, pin, result>>

(* NSS goes high.  A module that was about to raise the flow line may do   *)
(* so yet.                                                                 *)
Deselected == IF "lateFlow" \in Faults /\ module \in {"selected", "gotHeader"}
              THEN "late" ELSE "idle"

-----------------------------------------------------------------------------
(* vDataplaneThread.                                                       *)

(* The wait for DATA_WAITING ends with a notification or after 500 ms.     *)
CheckWaiting ==
  /\ pc = "check"
  /\ pc' = IF waiting = 0 THEN "wait" ELSE "test"
  /\ UNCHANGED <<queued, step, waiting, task, lines, result>>

WaitEnds ==
  /\ pc = "wait"
  /\ pc' = "test"
  /\ UNCHANGED <<queued, step, waiting, task, lines, result>>

SkipTransactionUnlessPin ==
  /\ pc = "test"
  /\ ~pin
  /\ pc' = "check"
  /\ UNCHANGED <<queued, step, waiting, task, lines, result>>

SkipTransaction ==
  /\ pc = "test"
  /\ ~pin /\ waiting = 0
  /\ pc' = "check"
  /\ UNCHANGED <<queued, step, waiting, task, lines, result>>

(* xTaskNotifyStateClearIndexed leaves the count of flow notifications.    *)
SelectModule ==
  /\ pc = "test"
  /\ pin \/ waiting # 0
  /\ module' = "selected"
  /\ pc' = "flow"
  /\ UNCHANGED <<queued, step, waiting, task, flow, pin, result>>

AbandonCounted ==
  /\ source' = "none" /\ txLen' = FALSE /\ rx' = "none"
  /\ module' = Deselected
  /\ waiting' = IF source # "none" THEN Plus(waiting, -1) ELSE waiting
  /\ pc' = "check"
  /\ UNCHANGED <<queued, step, held, pin, result>>

(* The end of a transaction that failed: the packet to send stays in its   *)
(* queue, a buffer for the packet to receive is freed.                     *)
Abandon ==
  /\ source' = "none" /\ txLen' = FALSE /\ rx' = "none"
  /\ module' = Deselected
  /\ pc' = "check"
  /\ UNCHANGED <<queued, step, waiting, held, pin, result>>

xWaitForFlow(next) ==
  /\ flow
  /\ flow' = FALSE
  /\ pc' = next
  /\ UNCHANGED <<step, waiting, source, txLen, rx, module, pin, result>>

FlowTimesOut ==
  /\ "flowTimeout" \in Faults
  /\ pc \in {"flow", "flowAgain"}
  /\ ~flow
  /\ Abandon
  /\ UNCHANGED flow

WaitForModule ==
  /\ pc = "flow"
  /\ xWaitForFlow("peek")
  /\ UNCHANGED <<queued, held>>

(* A control request goes first.                                           *)
PeekQueues ==
  /\ pc = "peek"
  /\ source' = CASE queued[Control] > 0 -> Control
                 [] queued[Control] = 0 /\ queued[Data] > 0 -> Data
                 [] OTHER -> "none"
  /\ txLen' = (source' # "none")
  /\ pc' = IF source' = "none" /\ waiting # 0 THEN "reset" ELSE "header"
  /\ UNCHANGED <<queued, step, waiting, held, rx, lines, result>>

ResetMismatch ==
  /\ pc = "reset"
  /\ waiting' = 0
  /\ pc' = "header"
  /\ UNCHANGED <<queued, step, task, lines, result>>

(* The headers are exchanged.  One that is not valid makes both lengths    *)
(* zero, and the transaction goes on.                                      *)
HeaderValid ==
  /\ module = "ready"
  /\ module' = "gotHeader"
  /\ rx' \in IF ~pin THEN {"none"}
              ELSE Lengths \cup (IF "noMemory" \in Faults THEN {"noBuffer"} ELSE {})
  /\ pc' = "flowAgain"
  /\ UNCHANGED <<queued, step, waiting, source, txLen, held, flow, pin, result>>

HeaderInvalid ==
  /\ module # "ready" \/ "badHeader" \in Faults
  /\ module' = "gotHeader"
  /\ txLen' = FALSE
  /\ rx' = "none"
  /\ pc' = "flowAgain"
  /\ UNCHANGED <<queued, step, waiting, source, held, flow, pin, result>>

xDoSpiHeaderTransfer ==
  /\ pc = "header"
  /\ \/ HeaderValid
     \/ HeaderInvalid
     \/ "spiError" \in Faults /\ Abandon /\ UNCHANGED flow

(* A packet is taken from its queue only when the module is ready for it.  *)
DequeuePacket ==
  /\ pc = "flowAgain"
  /\ xWaitForFlow("transfer")
  /\ held' = (source # "none")
  /\ queued' = [p \in Producers |-> queued[p] - IF p = source THEN 1 ELSE 0]

Transfers == (IF module = "readyAgain" THEN {"ok"} ELSE {"failed"})
             \cup (IF "spiError" \in Faults THEN {"failed"} ELSE {})

(* xTransmitReceiveMessage sends what is left of the longer packet in a    *)
(* second transfer, and joins the HAL status of the first, 0 when it went  *)
(* well, with the truth value of the second, 0 when it failed.             *)
SplitResult(first, second) == IF first = "ok" /\ second = "failed" THEN "ok" ELSE "failed"

Transfer ==
  /\ pc = "transfer"
  /\ rx # "noBuffer"
  /\ \E first, second \in Transfers :
       LET split == txLen /\ rx = "unequal"
           whole == IF first = "ok" /\ (split => second = "ok") THEN "ok" ELSE "failed"
           said  == IF split THEN SplitResult(first, second) ELSE first
       IN result' = [transfer |-> IF txLen \/ rx # "none" THEN whole ELSE "none",
                     rx |-> IF rx = "none" THEN "none"
                            ELSE IF said = "ok" THEN "passedUp" ELSE "freed"]
  /\ pin' = (pin /\ rx = "none")
  /\ pc' = "finish"
  /\ UNCHANGED <<queued, step, waiting, source, txLen, held, rx, flow, module>>

(* configASSERT( pxRxBuff ): the task spins until the watchdog resets the  *)
(* device.                                                                 *)
TransferWithoutBuffer ==
  /\ pc = "transfer"
  /\ rx = "noBuffer"
  /\ pc' = "halted"
  /\ UNCHANGED <<queued, step, waiting, task, lines, result>>

FinishTransaction ==
  /\ pc = "finish"
  /\ waiting' = IF held THEN Plus(waiting, -1) ELSE waiting
  /\ source' = "none" /\ txLen' = FALSE /\ held' = FALSE /\ rx' = "none"
  /\ module' = Deselected
  /\ result' = NoResult
  /\ pc' = "check"
  /\ UNCHANGED <<queued, step, flow, pin>>

WatchdogReset ==
  /\ pc = "halted"
  /\ pc' = "check"
  /\ queued' = [p \in Producers |-> 0]
  /\ step' = [p \in Producers |-> "idle"]
  /\ waiting' = 0
  /\ source' = "none" /\ txLen' = FALSE /\ held' = FALSE /\ rx' = "none"
  /\ flow' = FALSE /\ module' = "idle" /\ pin' = FALSE
  /\ result' = NoResult

-----------------------------------------------------------------------------
Producer(p) == Enqueue(p) \/ EnqueueTimesOut(p) \/ CountPacket(p)

Dataplane == \/ CheckWaiting
             \/ WaitEnds
             \/ SkipTransaction
             \/ SelectModule
             \/ WaitForModule
             \/ FlowTimesOut
             \/ PeekQueues
             \/ ResetMismatch
             \/ xDoSpiHeaderTransfer
             \/ DequeuePacket
             \/ Transfer
             \/ TransferWithoutBuffer
             \/ FinishTransaction

Next == \/ \E p \in Producers : Producer(p)
        \/ DataArrives
        \/ FlowRises
        \/ Dataplane
        \/ WatchdogReset

Spec == Init /\ [][Next]_vars

(* The data plane runs whenever it is ready, and its waits end; a producer *)
(* that was preempted goes on when it blocks; and a module that is asked   *)
(* again and again does raise the flow line in time, for a header and for  *)
(* the data, and exchanges its header and its data without a failure of    *)
(* the bus; the watchdog resets a halted device.                           *)
Fairness ==
  /\ WF_vars(Dataplane)
  /\ WF_vars(WatchdogReset)
  /\ SF_vars(pc = "header" /\ (HeaderValid \/ HeaderInvalid))
  /\ SF_vars(Transfer)
  /\ \A p \in Producers : SF_vars(CountPacket(p))
  /\ SF_vars(module = "selected" /\ FlowRises)
  /\ SF_vars(module = "gotHeader" /\ FlowRises)

FairSpec == Spec /\ Fairness

-----------------------------------------------------------------------------
(* Properties.                                                             *)

Uncounted == Cardinality({p \in Producers : step[p] = "enqueued"})

InQueues == queued[Control] + queued[Data]

Due == InQueues + (IF held THEN 1 ELSE 0) - Uncounted

(* How far the counter is above what is due, as a number that has wrapped  *)
(* is meant, and how far below.                                            *)
Excess == IF waiting - Due > Modulus \div 2 THEN waiting - Due - Modulus
          ELSE waiting - Due

ShortBy == IF Excess < 0 THEN -Excess ELSE 0

QueuedByPeers == (IF Control \in Peers THEN queued[Control] ELSE 0)
                 + (IF Data \in Peers THEN queued[Data] ELSE 0)

(* With the producers that are about to count, the counter covers the      *)
(* packets in the queues and the one that is being freed, in spite of      *)
(* failed exchanges, requests counted but not queued, and a counter that   *)
(* wraps below zero; only the reset that finds a mismatch can leave it too *)
(* low, and by no more than the producers of the data plane's priority     *)
(* have in their queues by then (vDataplaneThread, xSendIPCRequest,        *)
(* prvxLinkOutput).                                                        *)
OnlyResetsLoseCount ==
  [][ShortBy' > ShortBy => pc = "reset" /\ ShortBy' <= QueuedByPeers]_vars

(* The data plane cannot sleep for good while its queues hold more than    *)
(* the counter has lost: a packet is taken, or a reset loses more          *)
(* (vDataplaneThread).                                                     *)
PacketLeaves == InQueues > ShortBy ~> (held \/ InQueues <= ShortBy)

(* The data plane skips the transaction only if "there are no pending tx   *)
(* packets" (mx_dataplane.c:522), but for one that is yet to be counted.   *)
SkipsOnlyIdle ==
  [][pc = "test" /\ pc' = "check" => InQueues <= Uncounted]_vars

(* A packet received is passed up just when the whole transfer went well,  *)
(* in one part or "split into two dma transactions" (mx_dataplane.c:318).  *)
ReceivedPassedUp ==
  pc = "finish" /\ rx # "none" =>
    (result.rx = "passedUp" <=> result.transfer = "ok")
=============================================================================
