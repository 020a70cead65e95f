-------------------------------- MODULE MxIpc --------------------------------
(***************************************************************************)
(* Requests to the Wi-Fi module, Common/net/mxchip/mx_ipc.c.               *)
(*                                                                         *)
(* The network task is the only caller; there is one request context       *)
(* (NUM_IPC_REQUEST_CTX).  A request takes the token of the context, gets  *)
(* an identifier and a packet buffer, hands the buffer to the data plane,  *)
(* and waits, with a time limit, for a notification that does not say what *)
(* it is for.  The router task has the higher priority: it may run between *)
(* any two steps of the caller.                                            *)
(*                                                                         *)
(* The data plane (module MxDataplane) is reduced to what it does with a   *)
(* packet: it delivers it or loses it, and frees it.  The Wi-Fi module     *)
(* answers a request once, at any time, or never.  The router holds the    *)
(* mutex for a few instructions, so that the limits of 100 ms and more on  *)
(* taking it never pass.                                                   *)
(***************************************************************************)
EXTENDS Naturals, Sequences, FiniteSets

CONSTANTS
  MaxRequests,             \* bound: requests made in a behaviour
  CONTROL_PLANE_QUEUE_LEN, \* packets the send queue holds
  ResponseBuffLen          \* responses the message buffer holds

ASSUME MxIpcAssumption ==
  /\ MaxRequests \in Nat \ {0}
  /\ CONTROL_PLANE_QUEUE_LEN \in Nat \ {0}
  /\ ResponseBuffLen \in Nat \ {0}

Ids  == 1 .. MaxRequests
None == 0      \* no identifier, no buffer: the context is free
Event == 0     \* the identifier of a message nobody asked for

VARIABLES
  caller,    \* where xSendIPCRequest stands
  ctx,       \* the request context
  last,      \* the last identifier given out
  token,     \* xContextCountSemaphore
  mutex,     \* who holds xContextArrayMutex
  note,      \* a notification waits for the caller
  queue,     \* xControlPlaneSendQueue
  asked,     \* requests the Wi-Fi module has not answered
  buff,      \* xControlPlaneResponseBuff
  router,    \* where prvControlPlaneRouter stands
  msg,       \* the message it has in hand
  live,      \* references to packet buffers that are held
  late,      \* responses delivered to a caller that no longer waits
  blind      \* waits that ended with a notification and no response

client  == <<caller, ctx, last, token>>
buffers == <<queue, asked, buff>>
route   == <<router, msg>>
counts  == <<late, blind>>
vars    == <<caller, ctx, last, token, mutex, note, queue, asked, buff, router,
             msg, live, late, blind>>

TypeOK ==
  /\ caller \in {"idle", "find", "found", "send", "queue", "wait", "done",
                 "clear", "cleared"}
  /\ ctx \in [id : Ids \cup {None}, tx : BOOLEAN, rx : Ids \cup {None},
              waiting : BOOLEAN]
  /\ last \in 0 .. MaxRequests
  /\ token \in 0 .. 1
  /\ mutex \in {"free", "caller", "router"}
  /\ note \in BOOLEAN
  /\ queue \in Seq(Ids) /\ Len(queue) <= CONTROL_PLANE_QUEUE_LEN
  /\ asked \subseteq Ids
  /\ buff \in Seq(Ids \cup {Event}) /\ Len(buff) <= ResponseBuffLen
  /\ router \in {"receive", "lock", "give"}
  /\ msg \in Ids \cup {None}
  /\ live \in Nat
  /\ late \in 0 .. MaxRequests /\ blind \in 0 .. MaxRequests

NoCtx == [id |-> None, tx |-> FALSE, rx |-> None, waiting |-> FALSE]

Init ==
  /\ caller = "idle" /\ ctx = NoCtx /\ last = 0
  /\ token = 1 /\ mutex = "free" /\ note = FALSE
  /\ queue = <<>> /\ asked = {} /\ buff = <<>>
  /\ router = "receive" /\ msg = None
  /\ live = 0 /\ late = 0 /\ blind = 0

-----------------------------------------------------------------------------
(* The caller: pxFindAvailableCtx.                                         *)

TakeToken ==
  /\ caller = "idle" /\ token > 0 /\ last < MaxRequests
  /\ token' = token - 1
  /\ caller' = "find"
  /\ UNCHANGED <<ctx, last, mutex, note, buffers, route, live, counts>>

FindCtx ==
  /\ caller = "find" /\ mutex = "free" /\ ctx.id = None
  /\ mutex' = "caller"
  /\ last' = last + 1
  /\ ctx' = [NoCtx EXCEPT !.id = last', !.tx = TRUE]
  /\ live' = live + 1
  /\ caller' = "found"
  /\ UNCHANGED <<token, note, buffers, route, counts>>

(* Mutant: the token is given back with the mutex.                         *)
CtxFoundTokenGiven ==
  /\ caller = "found"
  /\ mutex' = "free" /\ token' = token + 1
  /\ caller' = "send"
  /\ UNCHANGED <<ctx, last, note, buffers, route, live, counts>>

CtxFound ==
  /\ caller = "found"
  /\ mutex' = "free"
  /\ caller' = "send"
  /\ UNCHANGED <<ctx, last, token, note, buffers, route, live, counts>>

(* The rest of xSendIPCRequest.  The handle of the waiting task is set and *)
(* cleared without the mutex.                                              *)

(* Mutant: the router is not told whom to wake.                            *)
ForgetWaiting ==
  /\ caller = "send"
  /\ caller' = "queue"
  /\ UNCHANGED <<ctx, last, token, mutex, note, buffers, route, live, counts>>

SetWaiting ==
  /\ caller = "send"
  /\ ctx' = [ctx EXCEPT !.waiting = TRUE]
  /\ caller' = "queue"
  /\ UNCHANGED <<last, token, mutex, note, buffers, route, live, counts>>

(* Mutant: the context keeps the buffer it has given away.                 *)
EnqueueAndKeep ==
  /\ caller = "queue" /\ Len(queue) < CONTROL_PLANE_QUEUE_LEN
  /\ queue' = Append(queue, ctx.id)
  /\ caller' = "wait"
  /\ UNCHANGED <<ctx, last, token, mutex, note, asked, buff, route, live, counts>>

Enqueue ==
  /\ caller = "queue" /\ Len(queue) < CONTROL_PLANE_QUEUE_LEN
  /\ queue' = Append(queue, ctx.id)
  /\ ctx' = [ctx EXCEPT !.tx = FALSE]
  /\ caller' = "wait"
  /\ UNCHANGED <<last, token, mutex, note, asked, buff, route, live, counts>>

EnqueueTimesOut ==
  /\ caller = "queue" /\ Len(queue) = CONTROL_PLANE_QUEUE_LEN
  /\ caller' = "clear"
  /\ UNCHANGED <<ctx, last, token, mutex, note, buffers, route, live, counts>>

(* Mutant: the notification is looked at and not taken.                    *)
NotifiedAgain ==
  /\ caller = "wait" /\ note
  /\ blind' = IF ctx.rx = None THEN blind + 1 ELSE blind
  /\ caller' = "done"
  /\ UNCHANGED <<ctx, last, token, mutex, note, buffers, route, live, late>>

(* The response is read through the context; if there is none the read is  *)
(* through a null pointer, and the request is then taken for answered.     *)
Notified ==
  /\ caller = "wait" /\ note
  /\ note' = FALSE
  /\ blind' = IF ctx.rx = None THEN blind + 1 ELSE blind
  /\ caller' = "done"
  /\ UNCHANGED <<ctx, last, token, mutex, buffers, route, live, late>>

WaitTimesOut ==
  /\ caller = "wait" /\ ~note
  /\ caller' = "done"
  /\ UNCHANGED <<ctx, last, token, mutex, note, buffers, route, live, counts>>

ClearWaiting ==
  /\ caller = "done"
  /\ ctx' = [ctx EXCEPT !.waiting = FALSE]
  /\ caller' = "clear"
  /\ UNCHANGED <<last, token, mutex, note, buffers, route, live, counts>>

HeldByCtx == (IF ctx.tx THEN 1 ELSE 0) + (IF ctx.rx = None THEN 0 ELSE 1)

vClearCtx ==
  /\ caller = "clear" /\ mutex = "free"
  /\ mutex' = "caller"
  /\ ctx' = NoCtx
  /\ live' = live - HeldByCtx
  /\ caller' = "cleared"
  /\ UNCHANGED <<last, token, note, buffers, route, counts>>

CtxCleared ==
  /\ caller = "cleared"
  /\ mutex' = "free" /\ token' = token + 1
  /\ caller' = "idle"
  /\ UNCHANGED <<ctx, last, note, buffers, route, live, counts>>

-----------------------------------------------------------------------------
(* The router.  Events go to the callback (module MxNetconn).              *)

RouterEvent ==
  /\ router = "receive" /\ buff # <<>> /\ Head(buff) = Event
  /\ buff' = Tail(buff)
  /\ live' = live - 1
  /\ UNCHANGED <<client, mutex, note, queue, asked, route, counts>>

RouterReceive ==
  /\ router = "receive" /\ buff # <<>> /\ Head(buff) # Event
  /\ msg' = Head(buff) /\ buff' = Tail(buff)
  /\ router' = "lock"
  /\ UNCHANGED <<client, mutex, note, queue, asked, live, counts>>

(* Mutant: with one context, the identifiers are not compared.             *)
WantedByAny == ctx.rx = None /\ ctx.waiting

Wanted == ctx.id = msg /\ ctx.rx = None /\ ctx.waiting

RouterDeliver ==
  /\ router = "lock" /\ mutex = "free" /\ Wanted
  /\ mutex' = "router"
  /\ ctx' = [ctx EXCEPT !.rx = msg]
  /\ note' = TRUE
  /\ live' = live + 1
  /\ late' = IF caller = "wait" THEN late ELSE late + 1
  /\ router' = "give"
  /\ UNCHANGED <<caller, last, token, buffers, msg, blind>>

(* Mutant: a dropped response returns to the top of the loop at once.      *)
RouterDropAndContinue ==
  /\ router = "lock" /\ mutex = "free" /\ ~Wanted
  /\ mutex' = "router"
  /\ live' = live - 1 /\ msg' = None
  /\ router' = "receive"
  /\ UNCHANGED <<client, note, buffers, counts>>

RouterDrop ==
  /\ router = "lock" /\ mutex = "free" /\ ~Wanted
  /\ mutex' = "router"
  /\ router' = "give"
  /\ UNCHANGED <<client, note, buffers, msg, live, counts>>

RouterGive ==
  /\ router = "give"
  /\ mutex' = "free"
  /\ live' = live - 1 /\ msg' = None
  /\ router' = "receive"
  /\ UNCHANGED <<client, note, buffers, counts>>

-----------------------------------------------------------------------------
(* The data plane and the Wi-Fi module.                                    *)

Transmit ==
  /\ queue # <<>>
  /\ queue' = Tail(queue)
  /\ asked' \in {asked, asked \cup {Head(queue)}}
  /\ live' = live - 1
  /\ UNCHANGED <<client, mutex, note, buff, route, counts>>

(* vProcessRxPacket frees a packet the message buffer has no room for.     *)
Respond(id) ==
  IF Len(buff) < ResponseBuffLen
  THEN buff' = Append(buff, id) /\ live' = live + 1
  ELSE UNCHANGED <<buff, live>>

ModuleAnswers ==
  \E id \in asked :
    /\ asked' = asked \ {id}
    /\ Respond(id)
    /\ UNCHANGED <<client, mutex, note, queue, route, counts>>

ModuleEvent ==
  /\ Respond(Event)
  /\ UNCHANGED <<client, mutex, note, queue, asked, route, counts>>

-----------------------------------------------------------------------------
Caller ==
  \/ TakeToken \/ FindCtx \/ CtxFound \/ SetWaiting
  \/ Enqueue \/ EnqueueTimesOut \/ Notified \/ WaitTimesOut
  \/ ClearWaiting \/ vClearCtx \/ CtxCleared

Router ==
  RouterEvent \/ RouterReceive \/ RouterDeliver \/ RouterDrop \/ RouterGive

Module == Transmit \/ ModuleAnswers \/ ModuleEvent

Next == Caller \/ Router \/ Module

Spec == Init /\ [][Next]_vars

(* The scheduler runs both tasks and every time limit passes; neither the  *)
(* data plane nor the Wi-Fi module has to do anything.                     *)
FairSpec == Spec /\ WF_vars(Caller) /\ WF_vars(Router)

-----------------------------------------------------------------------------
(* The response a caller copies from is the answer to its own request,     *)
(* also after requests that timed out and whose answers came later         *)
(* (mx_ipc.c:53).                                                          *)
OwnAnswer == ctx.rx # None => ctx.rx = ctx.id

(* Every packet buffer is in one place and is freed once: by the data      *)
(* plane, by the router, or by vClearCtx, whichever way a request ends     *)
(* (mx_ipc.c:66).                                                          *)
BuffersAccounted ==
  live = HeldByCtx + Len(queue) + Len(buff) + (IF router = "receive" THEN 0 ELSE 1)

(* An answer that arrives after the wait has ended and before the handle   *)
(* is cleared leaves a notification behind, and the next request returns   *)
(* at once without a response (mx_ipc.c:249).  Nothing else does that, and *)
(* one late answer does it to one request.                                 *)
BlindOnlyAfterLate ==
  blind + (IF note /\ ~(caller = "wait" /\ ctx.rx # None) THEN 1 ELSE 0) <= late

(* The router drops no answer that the caller is waiting for: the handle   *)
(* is there before the packet leaves (mx_ipc.c:205).                       *)
AwaitedAnswerKept ==
  [][mutex = "free" /\ router = "lock" /\ mutex' = "router" /\ msg = ctx.id
       /\ caller = "wait" => ctx'.rx = msg]_vars

(* A request comes to its end: the two tasks that share the mutex do not   *)
(* block one another, and the token comes back (mx_ipc.c:101).             *)
RequestReturns == caller # "idle" ~> caller = "idle"
=============================================================================
