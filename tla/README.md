# A TLA+ model of the IoTConnect FreeRTOS firmware for the STM32U5

This directory holds a formal model of the firmware in this repository: TLA+
modules written from the C sources, TLC configurations that check them on small
instances, and TLAPS proofs of the theorems that must hold for every instance.

## 1. The system

The firmware runs on the B-U585I-IOT02A board under FreeRTOS: one core,
preemptive priorities, no memory protection between tasks. The repository's own
code is in `Common/`, `Projects/*/Src` and `Drivers/CommonIO`; the kernel, lwIP,
mbedTLS, the coreMQTT and OTA agents, littlefs, Unity and tinycbor are
submodules, empty in this tree, and are modelled only as their callers see them.

### 1.1 Components

| Component | State it keeps | Operations | Correct when |
|---|---|---|---|
| **OTA PAL and boot** (`ota_pal_stm32u5_ntz.c`, `app_main.c`) | two flash banks, SWAP_BANK option byte, record in a littlefs file; RAM context `xPalContext` | early init, accept/reject/test/abort, create, write, close, activate, reset | a complete image always boots; the running bank is never erased; a bad image is undone; no assertion fails; every boot ends in the application |
| **TLS transport** (`mbedtls_transport.c`) | connection state, socket, notify-thread context | connect, send, recv, disconnect, set callback, free; the socket-notify thread | the thread never selects on a closed socket; received data reaches the agent; disconnect returns |
| **Wi-Fi driver** (`net/mxchip`) | pending counter, three queues, request contexts, IPC response router, link state | SPI transaction under flow control, request/response with time-out, transmit, link events | every packet is freed once; a response reaches the request it answers; a queued packet is eventually sent |
| **MQTT agent** (`app/mqtt`) | command queue and notification flags, subscription list, callbacks, reference counts, SUBACK cache, mutex | command loop, subscribe/unsubscribe (blocking), reconnect and resubscribe | a queued command is executed; reference counts match callbacks; the mutex is free while connected |
| **Key-value store** (`kvstore`) | cache entry and change flag per key; one file per key | get, set, commit, initialise | a reader sees a value that was set; a commit survives a crash |
| **OTA update task** (`app/ota`) | pool of event buffers, OTA agent state | job, data and control messages to agent events | buffers are neither leaked nor freed twice |
| **Command line and log** (`cli`) | two receive buffers, receive and transmit streams | receive interrupt, read line, log from any task | no received byte is lost in silence; the log never blocks a task for ever |
| **Shadow, Defender** (`app/shadow_device_task.c`, `app/defender`) | request token, task notification | publish, wait for the reply with time-out | a reply is credited to its own request |
| **Sensors, publish/subscribe test** | none shared | periodic publish | - |
| **PKI, PKCS#11, PSA** (`crypto`, `cli_pki.c`) | handles during one call | conversions and signatures | - |
| **File system ports, NOR driver** | flash | block read, program, erase | - |
| **CommonIO drivers** | one descriptor per peripheral | asynchronous transfers | - |

### 1.2 How they interact

* `vInitTask` mounts the file system, calls `otaPal_EarlyInit`, judges the booted
  image (`otaPal_AcceptImage` or `otaPal_RejectImage`), then creates the tasks.
* The OTA client (the OTA agent, through the table of `prvSetOtaInterfaces`, or
  an application task) calls the PAL to receive and activate an image. The PAL
  talks to the flash controller and to littlefs, and resets the device itself.
* Publishers and subscribers send commands to the MQTT agent through a queue and
  a task notification; the socket-notify thread uses another bit of the same
  notification. The agent calls the TLS transport, which calls lwIP, which hands
  packets to the Wi-Fi data plane; control requests go through `mx_ipc.c`.
* Everything reads its configuration from the key-value store.
* Which tasks exist depends on the project. The TF-M variant
  (`b_u585i_iot02a_tfm/Src/app_main.c:144`) creates the MQTT agent, the OTA task and
  those of Shadow and Defender, and the qualification application
  (`qualification_app_main.c:474`) the first two. The non-TrustZone `app_main.c` has all
  four commented out (lines 270-286) and creates the network task, the sensor tasks and
  `iotconnect_app`, which is not in this tree.
* `configASSERT` spins for ever; the watchdog (10 s, refreshed by the idle hook)
  then resets the device: the firmware's only recovery from a hang.

### 1.3 What is hard here

Power can fail between any two writes to flash, and the PAL changes three
stores (bank, record, option byte) that must agree. Driver calls fail. Tasks
share notifications whose bits and values overwrite each other. Waits time out
and their answers come later. Counters are changed by several tasks. The
hazards are listed one by one, each at its line, in `PROJECT.json`.

## 2. Plan

Done, in this order: the state machine that can brick the device (`OtaPal`,
refining `OtaUpdate`); the agent's queue, notification bits, pool and mutex
(`MqttAgent`) and its tables (`SubscriptionManager`); the Wi-Fi driver, with its
transactions (`MxDataplane`), requests (`MxIpc`) and link (`MxNetconn`); the
socket-notify thread (`TlsTransport`); the configuration (`KvStore`, refining
`KvPromise`). Eight of them have their theorems (section 5).

Left, the most useful first:

1. **OtaBuffers**, **UartConsole**: buffer ownership, and the receive interrupt
   against the reader of a line. Then the reply matching of Shadow and Defender,
   and the CommonIO transfers.
2. **SubscriptionManager** after a loss of the connection: which tasks the broker
   still serves once the table was compressed and resubscribed with its counts
   left behind.
3. **OtaPal** with `nvOpen` and `nvWrite` among the faults: which of `ProtocolInv`
   is left when a record cannot be written, beyond `BootInv`.

## 3. What is modelled

| Module | Models |
|---|---|
| `OtaUpdate` | what a dual-bank update promises, in four actions over the two banks |
| `OtaPal` | `ota_pal_stm32u5_ntz.c`, the boot sequence of `app_main.c`, the client's calls, resets, driver faults |
| `MqttAgent` | the agent task of `mqtt_agent_task.c`, its message interface and command pool, and the tasks that subscribe through it |
| `SubscriptionManager` | the tables of the agent: slots, reference counts, SUBACK statuses, callbacks |
| `TlsTransport` | the connections of `mbedtls_transport.c`, the socket-notify thread, the peer |
| `MxDataplane` | the transaction loop of `mx_dataplane.c` and the tasks that queue packets for it (`mx_ipc.c`, `mx_lwip.c`) |
| `MxIpc` | requests and responses of `mx_ipc.c`: contexts, time-outs, the router task |
| `MxNetconn` | the network task of `mx_netconn.c`, the callbacks that notify it, the helpers of `mx_lwip.h` |
| `KvPromise` | what the command line promises of the configuration: staged, stored, saved |
| `KvStore` | `kvstore_cache.c`, `kvstore_nv_littlefs.c` and `kvstore.c` under the command line and its readers |
| `MC_`*M* | the instance of *M* that TLC checks |
| *M*`_proofs` | the theorems about *M* |

Each module stands alone: where two meet, each has the other reduced to what it
shows (`MxIpc` has a data plane that delivers or loses a packet; `MqttAgent` has a
notify thread of one action; `SubscriptionManager` has a connection of four
states). Definitions named as mutants are deliberate bugs that each property is
tried against; no specification uses them.

### 3.1 OtaPal

*State.* `image`, `ob` and `nv` survive a reset: the content of the two banks,
the SWAP_BANK option byte (as the bank it maps at the next reset) and the record
of `OtaPalNvContext_t`. `bankAtBootup`, `xPalState`, `ulTargetBank` and
`ulPendingBank` are the fields of the RAM context, and `pc`, `ret`, `uxStatus`,
`goal` and `blocks` the position and the locals of the call in progress. The
content of a bank also says what became of the image in it (staged, failed,
accepted): no code reads that distinction, the properties do.

*Steps.* An action ends where the code has just changed one of the three stores,
so a reset can strike between any two such changes; RAM assignments belong to
the action of the write they surround. `otaPal_ResetDevice` is three actions
(the record, the option byte, the reset), as it is three writes.
`RejectBooted` enters it as a call from `otaPal_SetPlatformImageState`,
`EarlyInitWatchdog` as one from `otaPal_EarlyInit`. A failed `configASSERT` goes
to `halted`, which only the watchdog leaves.

*Faults.* `Faults` names the driver operations that may fail and does what the
code does with the failure: a failed open of the record is reported as success,
a failed stat is taken for a missing file, a failed read leaves the context of a
device that was never updated, and so on.

*Client.* `Verdicts` is what `vInitTask` decides ("Deferred" leaves it to the
application, as its comment offers); `DesiredStates` is what the client passes to
`otaPal_SetPlatformImageState`. The client writes every block of the file it
created once and closes the file before it activates it; apart from that it may
call anything at any time, `otaPal_ResetDevice` included.

*Bounds.* `NumBlocks` (2 in every run: a first block and a last one). Everything
else is finite by nature. Updates and resets repeat without bound.

### 3.2 OtaUpdate

`OtaUpdate` says what the PAL is for: the bank booted, the banks that hold an
accepted image, whether the booted one is on trial. A download may use only the
bank that is not booted, and only when no image is on trial; a trial ends by
acceptance or by going back. `ImplementsUpdate` maps `booted` to the option byte,
`good` to the accepted banks and `trial` to "the bank selected is not accepted".

### 3.3 MqttAgent

*Parts.* The agent task is the thread `pc`; each member of `Tasks` is a client
with its own `step`; the socket-notify thread is the one action
`prvSocketRecvReadyCallback`; the broker is `broker` (the filters it holds for
this device) and `session` (it keeps them when the connection ends).

*The message interface.* `queue` holds the messages and `flags` the pending
notification bits. A sender's two calls, the queue and then the notification, are
two actions, because the agent may run in between. `prvAgentMessageReceive` clears
all bits and takes at most one message: that is the code at lines 536-551, and it
is what the agent's loop and `MQTTAgent_CancelAll` both build on, so a
cancellation need not empty the queue.

*The mutex.* A client's critical section does not block, so it is one action that
needs the mutex free; only the agent holds it across steps, from
`DisconnectAndLock` to the end of the resubscription. What a client does after it
gave the mutex (reading the cached status, sending the request, waiting, removing
the entry) are steps of their own.

*Callbacks.* `Callbacks` is what completion does: the notification of a waiting
task (`prvSubscribeRqCallback`, `prvAgentRequestCallback`), or, for the
resubscription, the cached statuses and the mutex. A cancelled resubscription
passes no SUBACK codes, which `prvResubscribeCommandCallback` reads: the
read traps or returns anything (`CancelStops`, and the choice of `acked'`).

*The library.* `MQTTAgent_CommandLoop`, `MQTTAgent_CancelAll` and the broker are
external: a command is executed by sending its packet, then awaits its
acknowledgment, and its callback is called once, by the acknowledgment, a failed
send or a cancellation. `Events` names what the network may do: `connectionLost`
(at any point of the loop, and a CONNACK that does not arrive, whether or not the
broker saw the CONNECT), `sendFails`, `sessionLost` (the broker drops its session).

*Bounds.* Two tasks, each with one filter of its own; `PoolSize` command
structures, which is also the length of the queue, as in `core_mqtt_config.h:54`
(both 32 there; 2 lets the pool run dry during a resubscription, 3 does not).
Nothing else is bounded: subscriptions, reconnections and resets repeat for ever.

*Left out.* Filters shared by several callbacks, their counts, the compression of
the tables and a broker that refuses a filter (module `SubscriptionManager`);
publishing clients, which use the same queue; the end of the task when memory is short at its start. The
notification a client waits for carries its result: no other user of that index
notifies these tasks.

### 3.4 MxDataplane

*Parts.* The data plane task is the thread `pc`; each of the two producers has its
own `step`: `Control` sends requests of `xSendIPCRequest`, `Data` the frames of
`prvxLinkOutput`. The module is external: `pin` is its notify line, `module` how
far it has followed the transaction, and `FlowRises` its flow line with the
interrupt that notifies the data plane (`flow`).

*Scheduling.* One core: a task of lower priority runs only while the data plane is
blocked (`Blocked`), one of the same priority (`Peers`) anywhere. The task that
sends requests has priority 23. The lwIP task has 25, as the data plane has
(`lwipopts_freertos.h:41`, `mx_netconn.c:436`), and FreeRTOS slices time between equals
unless it is told not to: in the run `Peers` is lwIP's task.

*Counting.* A producer queues a packet and counts it in two steps; a request that
finds the queue full for its whole time-out is counted as well, as
`mx_ipc.c:213` does. The data plane counts down when it has taken a packet, and
resets the counter when it finds both queues empty, in two steps. `Excess` is how far
the counter is above what is due, `ShortBy` how far below.

*Data.* Packets are counted, not identified. The lengths of the packet to send and the one to receive matter
only as equal or unequal, which decides whether the transfer is split.

*Bounds.* `QueueLen` 2, so that a queue can be full while its head is being sent;
`Modulus` 25 for the 2^32 of the counter, so that a wrap is an ordinary step. A
request that is counted without being queued is only tried below
`Modulus \div 6`: on the device it takes the length of a time-out each, so 2^32 of
them are out of reach.

*Left out.* The hardware reset at the start, reference counts of the buffers, and
what the receiver does with a packet (`vProcessRxPacket`).

### 3.5 SubscriptionManager

*Tables.* `subs`, `count` and `acked` are the three arrays indexed by slot
(filter, `pulSubCbCount`, status of the last SUBACK); `cbs` is the set of callbacks
with the slot each points to. `Hits` is the slot search as the code does it: an
empty slot other than the first one matches any filter, because no characters are
compared. `told` is a history: the tasks told `MQTTSuccess`.

*Steps.* A call is a section with the mutex, the request, and, without the mutex,
the use of its result: `SubscribeReturns` stores the status through the pointer it
kept into the table, `RemoveCallback` decides by the count it read before
(`old`). The agent takes the mutex when the connection ends, compresses the table
(`prvCompressSubscriptionList`: filters and callbacks move, counts do not) and
resubscribes.

*Bounds and assumptions.* Three tasks with a filter each (`Filter <- Private`; the
disagreements of section 4 use `Shared`), one of QoS 0; tables of 4, so that the
table has room and slots are freed and moved; counts to 3, one connection lost.
`refused` lets the broker refuse any filter, in a subscription or a resubscription;
`quietLoss` loses it between the calls; `loss` at any time. Both tables have the
same size, as the compression takes one for the other (`mqtt_agent_task.c:385`).
No filter is a prefix of another; the heap does not run out.

### 3.6 TlsTransport

*Parts.* `agent` is the MQTT agent, the only user of the transport; `thread` the
notify thread, of idle priority, whose stack and control block lie in the network
context and serve the next connection again; `IdleReclaims` the idle task that
takes a deleted task off its list; the rest is the peer and lwIP. A number of a
socket stands for the socket opened under it: `watched` is the copy the thread has.

*Notifications.* `note` is the one value the thread can have pending: zero, or the
request to end. A later one overwrites it, and the thread's first act is to clear
it; what makes the end certain nonetheless is `xExitFlag`.

*Bounds.* Three sockets, so that a stack is used a second and a third time; two
records of data. Nothing makes a connection wait for the idle task: where it comes
first, the thread it makes has the stack of one that the kernel still lists
(`thread = "clash"`), about which the model says nothing more (section 4.3).

### 3.7 MxIpc

*Parts.* One caller (the network task is the only one), one request context,
the token semaphore, the mutex, the send queue, the message buffer of responses
and the router, which has the higher priority and may run between any two steps
of the caller. A request is in `asked` while the Wi-Fi module owes its answer;
the module answers once, at any time, or never, and sends events of its own.

*Buffers.* `live` counts the references held: it goes up where the code allocates
or takes a reference, down where it frees one, and would go below the buffers in
sight at a second release.

*Bounds.* Four requests in a behaviour, as one late answer affects the next
request only and a second one must be possible; queues of two. Identifiers do
not wrap within the bound. The limits of 100 ms and more on the mutex, which is
held for a few instructions, never pass.

### 3.8 MxNetconn

*Parts.* The network task (priority 23), the router task (24), which calls
`vMxStatusNotify` when the module reports a status, and lwIP, whose calls run under
its core lock and are one step, its status callback included. `bits` is the value
of the notification and `pending` whether one waits: the task takes bits in two
places, and what the inner wait does not ask for stays for the outer one.

*Bounds.* Five reports: up, down and up again, with an address each time.
`PatientServer` says that a DHCP server answers later than the network task
handles the bits before; without it `StationUpConnects` fails (section 4).

### 3.9 KvStore and KvPromise

*State.* `data`, `length` and `pending` are a cache entry; `file` is what the file
system holds, the only thing that survives `Reset`, which may strike between any
two steps. The command line is `cli` with the locals of its call: a set marks
the entry and copies the value in two steps, a commit opens, writes and syncs each
changed key and removes the file when a write failed. A reader gets the size
without the mutex and copies with it.

*Files.* littlefs is external: the creation of a file is committed at once, what is
written to it by the sync. `Faults` names what may fail: `openFails`,
`writeFails`, `syncFails`, `removeFails`, `statFails`, `readFails`. The code ignores
the result of `lfs_file_sync` (`kvstore_nv_littlefs.c:250`); `unsynced` remembers, for
the properties, the keys whose last write went well but for its sync.

*The promise.* `KvPromise` has the configuration the device runs with (`staged`),
the one it will start with (`stored`), and whether the operator was told that both
are the same, which holds for the keys not in `unsynced`. `ImplementsPromise` maps them to the cache and the files; an
entry that is being copied counts as staged, one not loaded yet as its file.

*Bounds.* Two keys; three values, two of one length and one longer, so that a
value changes with and without its length; one reader. `EarlyCli` is FALSE where
the operator does not type before the store is loaded; TRUE is what
`app_main.c:211` allows (section 4).

## 4. What the runs show

### 4.1 Runs that hold

| Run | Faults | Bounds | States | Holds |
|---|---|---|---|---|
| `ota_protocol` | resets anywhere but between the write of the record and that of the option byte; removal of the record fails | 2 blocks | 696 | `NoAssertFails`, `RunsTrustedImage`, `ReachesApp`, `ImplementsUpdate` |
| `ota_faults` | resets anywhere; open, write, removal of the record fail | 2 blocks | 2 784 | `TypeOK`, `BootBankComplete`, `RunningBankKept` |
| `agent_session` | connections and sessions lost, sends that fail | 2 tasks, pool 2 | 485 408 | `TypeOK`, `WaiterHasCommand`, `MutexHandedOver`, `SubscriptionsKept` |
| `sub_tables` | a connection lost between calls, filters refused | 3 tasks, tables of 4 | 2 627 103 | `TypeOK`, `TableServes`, `BrokerServes`, `OwnFilterOnly` |
| `tls_notify` | a peer that closes, resets or is silent | 3 sockets, 2 records | 2 854 | `TypeOK`, `WatchesOwnSocket`, `ThreadGoneFirst`, `StopReturns` |
| `mx_transactions` | time-outs, late interrupts, bus errors, bad headers, full queue, no memory | queues of 2, counter modulo 25, lwIP at the priority of the data plane | 66 476 | `TypeOK`, `OnlyResetsLoseCount`, `PacketLeaves` |
| `ipc_requests` | packets lost, answers late or never | 4 requests, queues of 2 | 21 103 | `TypeOK`, `OwnAnswer`, `BuffersAccounted`, `BlindOnlyAfterLate`, `AwaitedAnswerKept`, `RequestReturns` |
| `net_link` | the station goes up and down | 5 reports | 122 645 | `TypeOK`, `NoEventStranded`, `StationUpHasLink`, `StationUpConnects` |
| `kv_store` | resets anywhere; open, write, sync, removal, stat, read fail | 2 keys, 3 values | 842 740 | `TypeOK`, `PendingCovers`, `SavedIsStored`, `ReadsUndisturbed`, `ImplementsPromise` |

What they say, where it is not obvious:

* *Agent.* No request is lost altogether or answered twice, the mutex is never kept
  without a resubscription that will give it, and no filter of a task leaves the
  list except by that task's call, whatever the network does.
* *Tables.* With one callback per filter, every task that was told success keeps its
  callback on a slot with its filter, though slots move under it and pointers are
  kept across the mutex. That the broker has the filter as well is shown until the
  connection is lost for the first time, and not beyond: a resubscription may be refused,
  and counts go wrong (`sub_counts`).
* *Notify thread.* Whoever waits for the thread to end, to close the socket or to make the
  next one, comes back only when it has nothing left to do but delete itself. That is
  not all its successor needs: its memory is free only when the idle task has run
  (`StackNotReused`, section 4.3). But for a thread made in that window, disconnecting
  while the thread sits in a select without time-out always ends: the closing peer, or the end of retransmissions, makes the
  socket readable. The thread never selects on a socket that is not its own.
* *Data plane.* lwIP's task may run between any two of its steps, the network task while it
  is blocked. The one place where the counter loses packets is the reset of a mismatch:
  lwIP may queue and count between the look at the queues and the assignment, and what is
  lost is at most what it has queued by then. The packets above that number do
  leave, in spite of every fault; those below it stay until another is sent, which is what
  `SkipsOnlyIdle` shows (section 4.3). A flow interrupt that comes after its time-out is kept, because
  line 530 clears the state of the notification and not its count (`lateFlow`):
  headers are exchanged with a module that is not ready and a packet can be freed
  unsent, which no property forbids, as the layers above repeat.
* *Requests.* A late answer never passes for the answer to a later request, but one that
  arrives between the end of the wait and the clearing of the handle makes the
  next request return at once with nothing. `BlindOnlyAfterLate` says that this is
  the only way, and that it happens once per late answer.
* *Link.* The router may interrupt the network task between its look at the status and
  the call it makes of it; the later notification repairs what that leaves.
* *Configuration.* Failed writes, removals and reads and resets leave the store able
  to say what it must still write, and "saved" is true when said, but for a key whose
  sync failed unseen: the file may then hold an empty value or the one before, and
  nothing writes it again before it is set again.

### 4.2 Runs that are violated

| Run | Faults | Violated | The code says |
|---|---|---|---|
| `ota_selftest` | resets anywhere | `SelfTestBootsTarget` | assertion, `ota_pal_stm32u5_ntz.c:914` |
| `agent_wakeup` | none | `RequestAnswered` | comment, `mqtt_agent_task.c:512` |
| `sub_counts` | a connection lost between calls | `Unsubscribed` | `subscription_manager.h:98` |

A reset between the record and the option byte leaves a record that makes every
later boot fail an assertion (`ota_selftest`). Messages are announced by a bit, not
by a count, so two requests can share one wake-up and the second task waits for
ever (`agent_wakeup`). The compression moves filters and callbacks and leaves the
reference counts behind, so that a later unsubscription finds a count
of zero, frees nothing and does not tell the broker (`sub_counts`).
`PROJECT.json`, "findings", has the quotations.

### 4.3 Further disagreements

These properties are stated in the modules and not among the runs, because the code
violates them under the constants given (the others as in the run of the
module). Each was checked with TLC: a copy of the module's .cfg with these
constants and the one property shows the behaviour.

| Property | Constants | What happens |
|---|---|---|
| `AcceptedIsPermanent` (`OtaPal`) | `ota_protocol` with `Verdicts = {"Accepted"}`, `Faults = {}` | `otaPal_ResetDevice` has no case for the accepted state: the reset after an acceptance selects the previous image |
| `RunsTrustedImage` (`OtaPal`) | the same with `ResetPoints <- Interruptible` | a second reset while the PAL reverts from a bad image leaves that image running as if accepted, against `app_main.c:233` |
| `GrantedIsHeld` (`MqttAgent`) | `PoolSize = 3`, `Events = {"connectionLost"}` | a session reported as present was just created for a CONNECT whose answer was lost: the agent serves on without a subscription |
| `NeverSelfBlocked` (`MqttAgent`) | the same | the agent waits for its own mutex when a PUBLISH overtakes the SUBACK of a resubscription |
| `BrokerServes` (`SubscriptionManager`) | `Filter <- Shared` | a second task subscribes to a filter while the UNSUBSCRIBE of its last user is on its way |
| `TableServes` (`SubscriptionManager`) | `Filter <- Shared` | unsubscribing one of two callbacks finds no entry of count zero and leaves the callback in the table |
| `TableServes` (`SubscriptionManager`) | `Faults = {"loss"}` | a status is stored through a stale pointer; a cancelled request stores zero, which means success |
| `SkipsOnlyIdle` (`MxDataplane`) | `Faults = {"queueFull"}` | the reset of the counter is not atomic with the look at the queues: a producer of the same priority runs in between and its packet stays behind |
| `ReceivedPassedUp` (`MxDataplane`) | `Faults = {}` | a transfer in two parts reports the opposite of its second part's outcome |
| `StackNotReused` (`TlsTransport`) | those of the run | a connection made before the idle task has run creates a task in memory that is still on its list |
| `ConnectedHasAddress` (`MxNetconn`) | that of the run | clearing the address when the link goes down is itself an address change: the next batch sets the bit that lets the agent go |
| `StationUpConnects` (`MxNetconn`) | `PatientServer = FALSE` | an address that comes while an earlier loss of the link is still being handled is cleared with it |
| `StagedUntilCommit` (`KvStore`) | `EarlyCli = TRUE` | what the operator types before the store is loaded is overwritten by the loading |
| `BootLoads` (`KvStore`) | `Faults = {}` | a reset between the creation of a file and its sync leaves an empty file, whose size wraps: every later boot asserts |

The model of the agent also reaches the failed assertions of `mqtt_agent_task.c:567`
and `610` (`pc = "halted"`): a cancellation that leaves the old resubscription in
the queue makes it complete when the agent no longer has the mutex.

The boundary of the OTA results was found by running every fault alone with every
property:

* resets only: `BootBankComplete`, `RunningBankKept` always hold;
  `NoAssertFails`, `RunsTrustedImage` and `ReachesApp` hold unless a reset strikes
  at `selectBank`, between the record and the option byte;
* `nvDelete` (removal fails) breaks nothing;
* `nvOpen`, `nvWrite`, `obProgram` break `NoAssertFails` and `RunsTrustedImage`,
  not `BootBankComplete`;
* `nvRead`, `nvStat`, `erase` also break `BootBankComplete`, as do `obProgram` and
  `nvDelete` together;
* `RunningBankKept` holds under every fault and every reset.

Seen while reading, and not modelled: `KVStore_getStringHeap` returns no string for
an empty one; a value that shrinks to four bytes or fewer overwrites the pointer
to its heap memory (`kvstore_cache.c:119`); `mbedtls_ssl_send` takes a partial
send for a whole one (`mbedtls_transport.c:345`); `vStopDhcp` starts the
DHCP client (`mx_lwip.h:110`), which the model has; `vSetAdminUp` and
`vSetAdminDown` act only where there is nothing to change; `net_request_reconnect` has
no caller.

### 4.4 Fairness

`FairSpec` of `OtaPal` asks that a boot, and a call that has begun, go on
(the processor executes) and that the watchdog bites a halted device
(`hal_init.c:650`: it is started at boot and only the idle task refreshes it).
Nothing obliges the client to call. `ReachesApp` excuses behaviours in which
external resets strike infinitely often.

`FairSpec` of `MqttAgent` asks that a client's call that has begun
goes on, that the agent task runs (`WF` of `Connecting` and `Serving`: it is ready
whenever it can move), and that the broker answers what it was asked (`SF` of
`ReceiveAck`: the connection is processed again and again, each time with a
chance of the acknowledgment). No client must call, and no event must happen.

`FairSpec` of `MxDataplane` asks that the data plane runs and that its waits end
(each has a time-out), that a producer that has queued a packet gets to count it
(the data plane blocks again and again), that the module raises the flow line in
time, that the headers and the data are exchanged without an error of the bus, each of these if
it is tried again and again, and that the watchdog bites. No producer must send.

`FairSpec` of `TlsTransport` asks that the agent does what it has begun, that tasks
of idle priority run (the agent sleeps while it waits), that a peer told of the end
of the connection closes it, and that the stack gives up its retransmissions to a
peer that is silent. No data must come.

`FairSpec` of `MxIpc` asks that both tasks run; every wait of the caller has a time
limit, so `WF` of `Caller` includes that it passes. Neither the data plane nor
the module must do anything.

`FairSpec` of `MxNetconn` asks that both tasks run, and `SF` of `DhcpBinds`: a server
answers a client that goes on asking. The module must report nothing.

`KvStore` and `SubscriptionManager` state no liveness: nobody has to type, and what must
end in the agent is the subject of `MqttAgent`.

*Deadlock* is checked except in `agent_session` (with `selfBlocked` the system
really stops), and in `tls_notify`, `sub_tables` and `sub_counts`, where the bounds on
sockets, counts and losses stop it.

## 5. What is proved

| Module | Theorem | Statement | Assumes |
|---|---|---|---|
| `OtaPal` | `TypeCorrect` | `Spec => []TypeOK` | |
| | `RunningBankNeverDestroyed` | `Spec => RunningBankKept` | |
| | `NeverBootsPartialImage` | `Spec => []BootBankComplete` | `Faults` within open, write and removal of the record |
| | `AssertionsHold` | `Spec => []NoAssertFails` | protocol |
| | `TrustedImageRuns` | `Spec => []RunsTrustedImage` | protocol |
| | `UpdateImplemented` | `Spec => ImplementsUpdate` | protocol |
| | `AlwaysRecoverable` | `Spec => []Update!Recoverable` | protocol |
| `MqttAgent` | `TypeCorrect` | `Spec => []TypeOK` | |
| | `WaitersAreServed` | `Spec => []WaiterHasCommand` | |
| | `MutexIsHandedOver` | `Spec => []MutexHandedOver` | |
| | `StructuresAccounted` | `Spec => []PoolInv` | |
| | `FiltersAreKept` | `Spec => SubscriptionsKept` | |
| `SubscriptionManager` | `TypeCorrect` | `Spec => []TypeOK` | |
| | `OwnFilters` | `Spec => []OwnFilterOnly` | `PrivateFilters`, no `loss` |
| | `TableServesTold` | `Spec => []TableServes` | `PrivateFilters`, no `loss` |
| | `BrokerServesTold` | `Spec => []BrokerServes` | `PrivateFilters` |
| `TlsTransport` | `TypeCorrect` | `Spec => []TypeOK` | |
| | `ThreadOnItsSocket` | `Spec => []WatchesOwnSocket` | |
| | `ThreadLeavesFirst` | `Spec => ThreadGoneFirst` | |
| `MxDataplane` | `TypeCorrect` | `Spec => []TypeOK` | |
| | `CounterLosesInReset` | `Spec => OnlyResetsLoseCount` | |
| `MxIpc` | `TypeCorrect` | `Spec => []TypeOK` | |
| | `AnswersAreOwn` | `Spec => []OwnAnswer` | |
| | `BuffersFreedOnce` | `Spec => []BuffersAccounted` | |
| | `BlindNeedsLate` | `Spec => []BlindOnlyAfterLate` | |
| | `OneAnswerEach` | `Spec => []OneCopy` | |
| | `AwaitedAnswerDelivered` | `Spec => AwaitedAnswerKept` | |
| `MxNetconn` | `TypeCorrect` | `Spec => []TypeOK` | |
| | `NoEventSleeps` | `Spec => []NoEventStranded` | |
| | `LinkFollowsStation` | `Spec => []StationUpHasLink` | |
| `KvStore` | `TypeCorrect` | `Spec => []TypeOK` | |
| | `ChangesAreMarked` | `Spec => []PendingCovers` | `~EarlyCli` |
| | `SavedIsTrue` | `Spec => []SavedIsStored` | `~EarlyCli` |
| | `UndisturbedReadsAreWhole` | `Spec => ReadsUndisturbed` | |
| | `StoreKeepsItsPromise` | `Spec => ImplementsPromise` | `~EarlyCli` |

Besides, each assumes the `ASSUME` of its module, which gives the constants their
types and their positive lengths. So the theorems hold for every number of tasks,
keys, blocks, sockets and requests, every length of a queue, and every set of faults
where none is named.

*protocol*: `Faults \subseteq {"nvDelete"}` and `"selectBank" \notin ResetPoints`, the
assumptions of the run `ota_protocol`. They cannot be dropped: section 4.3 has the
counterexamples with a second reset, with a record that is not written, and so on.
*`PrivateFilters`*: no two tasks share a filter, as in this repository, where each task
subscribes to topics of its own. *no `loss`*: no connection ends during a call, though it
may end between calls (`quietLoss`). The code does not promise that: without either,
section 4.3 has a counterexample to `TableServes`.

### 5.1 OtaPal

*`RunningBankKept`* needs no invariant beyond the types: each action that changes
`image` does so in a bank that the code's own guard distinguishes from the
running one, or marks a staged image failed or accepted. The work is in showing
it for all calls (`StepBankChange`).

*`BootBankComplete`* is not inductive: that the bank selected is complete depends
on what a later boot will make of the record. The invariant `BootInv` adds:

* between boots the option byte equals the running bank, except after it was
  programmed;
* the record, if it names a bank to go back from, has a complete image in the
  other bank (`FallbackComplete`), and if it names a bank to try, has a complete
  one there;
* in the states from which `otaPal_CreateFileForRx` may erase, the record does not
  name the running bank, so the bank erased is not one the record relies on;
* the pending bank is complete whenever `prvSelectBank` may program it.

There is one lemma per action that disturbs one of these, and `BootInvStep`
puts them together.

*`NoAssertFails`, `RunsTrustedImage`* follow from `ProtocolInv`: record, context, option
byte and banks agree at every control point.

* `Bootable(NextBank)`: the bank the next boot takes has an accepted image and no
  record but that of a trial that ended, or it has an image on trial with its
  record, and the other bank an accepted one;
* `ContextOK`: the context of the PAL is one of the few that fit, by whether the
  running image is accepted (`SettledContext`) or on trial (`TrialContext`);
* `FileOK`: a file the OTA client has open is in the bank that does not run;
* `PointOK`: what each control point may count on.

*`ImplementsUpdate`.* `StepBanks` classifies every step by its effect on the banks: none
that the abstraction sees (`Unseen`), an erasure or a write of the bank that is not
booted while no image is on trial (`Writes`), an acceptance of the booted one
(`Accepts`), or a change of the option byte to the pending bank (`Switches`).
`BankSteps` maps each to an action of `OtaUpdate` or to a stutter. That `Writes` needs an
accepted running image, and `Switches` a bank that is accepted or leaves an accepted one
behind, is where `ProtocolInv` comes in. From the refinement it follows that there is
always an accepted image to go back to (`AlwaysRecoverable`).

### 5.2 The others

*MqttAgent.* A waiting task's request is in exactly one of the queue, the agent's hands
and the commands that await an acknowledgment. "Exactly one" is a count over a
sequence, and the steps append to it and take its head: the first lemmas say what
that does to the count, by a bijection between the positions before and after.
With `AgentInv` (the types, and that the agent has a command in hand just where it
executes one) both properties are inductive. `PoolInv` says that pool, waiting tasks and
places held by resubscriptions add up to `PoolSize`, so no structure of the command pool
leaks and none is given back twice. That the queue, as long as the pool, never
overflows, part of `TypeOK`, follows from it: the tasks' places in the queue inject into
the waiting tasks, because a request has one place. `FiltersAreKept` needs `CleanInv`
besides: until the first connection the agent holds the mutex, so the clean session
finds an empty list.

*SubscriptionManager.* First the operators: the least slot of a set exists, and
`prvCompressSubscriptionList` moves the filters in use to the slots from zero on, no two
to the same (`PlacesDiffer`, `PlacesFill`). `TypeInv` adds to the types that nothing is
left to move while the agent resubscribes. `TableInv`: a callback stands on the filter of
its task, a call in progress has its callback at the slot it remembers, a status is stored
only for a slot in use, and no call is open while the table moves. It holds while
connections end between calls only, or have not ended yet. `SessionInv`, for the first
session, ties the broker, the counts (one for each slot with a callback whose
unsubscription has not lowered it) and the statuses to the tasks; from both,
`BrokerServes`, whatever the request answers.

*TlsTransport.* `ThreadInv` ties the handle, the thread's copy of the socket and the
thread's state to where the agent stands: the agent makes a thread when there is
none, and closes a socket when the handle is empty. `WatchesOwnSocket` follows from it,
and so does `ThreadGoneFirst`: the agent leaves the wait when the handle is empty, and the
thread empties it last.

*MxDataplane.* A counter that wraps turns a large surplus into a deficit and back, so
`OnlyResetsLoseCount` needs bounds on both. `SourceInv` says where the data plane may have
chosen or taken a packet, `ResetInv` that between the look at the queues and the reset
only `Peers` have packets queued, and `CountInv` that `Excess` stays between `-2 * QueueLen`
and `Modulus \div 6 + 3`, within which what the counter shows determines it
(`ExcessIs`). Then each step changes `Excess` by what it adds to or takes from the counter
and the queues, and only the reset can make `ShortBy` grow.

*MxIpc.* `IpcInv` says who holds the token and the mutex, where the context is free,
and that it has no answer but its own. `BuffersAccounted` and `BlindOnlyAfterLate`
are inductive relative to it. `TypeCorrect` needs `LateInv` too: at most one answer
of each request is late. For `AwaitedAnswerKept`, `KeptInv` follows a request from the
queue to the module, the message buffer and the hands of the router: it is in one of
these places at most, and once (`OneCopy`), only after it was sent, and the context
does not yet have its answer; and the handle is set from before the request can be
answered until the wait ends. So an answer the router drops is a late one, never the one
that the caller is waiting for.

*MxNetconn.* `EventInv`: bits that wait for the outer loop have a notification. The
status bit has one always; the others may lose theirs only inside the inner wait, which
renews it. `LinkInv`: a station that is up without a link has a report that the
network task is yet to look at, or the task is on the way to the call that sets it.

*KvStore.* `DataInv` says that a value is torn only while it is being copied and a mark
stands on a value; `LoadInv` that an entry without a mark agrees with its file;
`CommitInv` that the keys a commit has passed do too unless it remembers a failure;
`ReadInv` that an undisturbed reader has a buffer of the entry's size. The
refinement takes one step per action, from the first three.

*Only model-checked*: the five liveness properties of the runs that hold (`ReachesApp`,
`PacketLeaves`, `StopReturns`, `RequestReturns`, `StationUpConnects`), because fairness
and ENABLED are out of the prover's reach, and what the runs of section 4.2 refute. Every
invariant and action property of a run that holds, and both refinements, are theorems.
The induction theorems of the library cannot be used; where a proof is about every
prefix or every slot, it takes the least counterexample instead
(`NatLessThanWellFounded`), or an injection between finite sets.

## 6. What is not modelled

In the OTA PAL: the signature check (`prvValidateSignature`,
`xCalculateImageHash`: never called), the address arithmetic inside a block, wear of the
file system. A block whose programming fails leaves the bank partial and the file
open, which is what the model's state already says: the client writes it again or
discards the file. littlefs is taken at its word: a file's content changes when it is closed,
atomically.

In the TLS transport: certificates, configuration and release of the context, and
the bytes of a record. In the data plane: what the receiver does with a packet
(`vProcessRxPacket`) and its buffers' counts, and the hardware reset. In the
requests: the contents of messages. In the store: the typed setters and getters,
which differ in a conversion, and the back end over PSA storage, where each value is
one call of a service outside the repository.

Not at all: the OTA event buffers and the receive and transmit paths of the console,
and the reply matching of Shadow and Defender, which are planned; sensors, PKI and
PKCS#11, the lwIP port, the NOR driver, CommonIO, start-up code and the qualification
application. Most of these are sequences of calls on one
task without state of their own. The larger part of the repository's lines is of
other kinds: register headers, library configuration, vendored drivers, the mbedTLS
accelerator port. They define no behaviour of the program that a state machine
would say anything about, and the mapped share of the lines is low for that
reason. `PROJECT.json`, "components", gives the reason for each part.
