---------------------------- MODULE MxIpc_proofs ----------------------------
(***************************************************************************)
(* Proofs about MxIpc, for any number of requests and any length of the    *)
(* queue and of the message buffer.                                        *)
(*                                                                         *)
(* IpcInv ties what the two tasks hold to where they stand: the token, the *)
(* mutex, the context and its buffers.  Counting the buffers and the       *)
(* notifications that nobody waits for needs no more than that.  KeptInv   *)
(* follows one identifier from the request to the answer.                  *)
(***************************************************************************)
EXTENDS MxIpc, TLAPS

Shape ==
  /\ caller \in {"idle", "find", "found", "send", "queue", "wait", "done",
                 "clear", "cleared"}
  /\ ctx \in [id : Ids \cup {None}, tx : BOOLEAN, rx : Ids \cup {None},
              waiting : BOOLEAN]
  /\ last \in 0 .. MaxRequests
  /\ note \in BOOLEAN
  /\ queue \in Seq(Ids) /\ Len(queue) <= CONTROL_PLANE_QUEUE_LEN
  /\ asked \subseteq Ids
  /\ buff \in Seq(Ids \cup {Event}) /\ Len(buff) <= ResponseBuffLen
  /\ router \in {"receive", "lock", "give"}
  /\ msg \in Ids \cup {None}
  /\ late \in Nat /\ blind \in Nat

IpcInv ==
  /\ Shape
  /\ token = IF caller = "idle" THEN 1 ELSE 0
  /\ caller = "find" => last < MaxRequests
  /\ mutex \in {"free", "caller", "router"}
  /\ mutex = "caller" <=> caller \in {"found", "cleared"}
  /\ mutex = "router" <=> router = "give"
  /\ caller \in {"idle", "find", "cleared"} => ctx = NoCtx
  /\ caller \notin {"idle", "find", "cleared"} => ctx.id # None
  /\ caller \in {"found", "send", "queue"} => ctx.tx
  /\ router # "receive" => msg # None
  /\ OwnAnswer

(* At most one answer of each request is late.                             *)
LateInv ==
  late + (IF ctx.id # None /\ ctx.rx = None THEN 1 ELSE 0) <= last

LEMMA IdsAre == Ids \subseteq Nat \ {0} /\ None \notin Ids /\ None = 0 /\ Event = 0 /\ MaxRequests \in Nat
BY MxIpcAssumption DEF Ids, None, Event

LEMMA SeqFacts ==
  ASSUME NEW S, NEW s \in Seq(S)
  PROVE  /\ Len(s) \in Nat
         /\ s # <<>> => /\ Head(s) \in S /\ Tail(s) \in Seq(S)
                        /\ Len(Tail(s)) = Len(s) - 1 /\ Len(s) > 0
         /\ \A e \in S : Append(s, e) \in Seq(S) /\ Len(Append(s, e)) = Len(s) + 1
OBVIOUS

LEMMA IpcInit == Init => IpcInv /\ BuffersAccounted /\ LateInv /\ BlindOnlyAfterLate
<1> SUFFICES ASSUME Init
             PROVE  IpcInv /\ BuffersAccounted /\ LateInv /\ BlindOnlyAfterLate
  OBVIOUS
<1>1. /\ queue \in Seq(Ids) /\ Len(queue) = 0
      /\ buff \in Seq(Ids \cup {Event}) /\ Len(buff) = 0
  BY DEF Init
<1>2. Shape
  <2>1. ctx \in [id : Ids \cup {None}, tx : BOOLEAN, rx : Ids \cup {None}, waiting : BOOLEAN]
    BY IdsAre DEF Init, NoCtx
  <2>2. last \in 0 .. MaxRequests /\ late \in Nat /\ blind \in Nat
    BY IdsAre DEF Init
  <2>3. Len(queue) <= CONTROL_PLANE_QUEUE_LEN /\ Len(buff) <= ResponseBuffLen
    BY <1>1, MxIpcAssumption
  <2>4. asked \subseteq Ids /\ msg \in Ids \cup {None}
    BY DEF Init
  <2> QED BY <1>1, <2>1, <2>2, <2>3, <2>4 DEF Init, Shape
<1>3. IpcInv
  BY <1>2, IdsAre DEF Init, IpcInv, OwnAnswer, NoCtx
<1>4. BuffersAccounted /\ LateInv /\ BlindOnlyAfterLate
  BY <1>1, IdsAre DEF Init, BuffersAccounted, LateInv, BlindOnlyAfterLate, HeldByCtx, NoCtx
<1> QED BY <1>3, <1>4

LEMMA IpcStep == IpcInv /\ [Next]_vars => IpcInv'
<1> SUFFICES ASSUME IpcInv, [Next]_vars PROVE IpcInv'
  OBVIOUS
<1> USE MxIpcAssumption, IdsAre
    DEF IpcInv, Shape, OwnAnswer, client, buffers, route, counts
<1>1. CASE TakeToken
  BY <1>1 DEF TakeToken
<1>2. CASE FindCtx
  <2>1. last' \in Ids /\ last' \in 0 .. MaxRequests
    BY <1>2 DEF FindCtx, Ids
  <2> QED BY <1>2, <2>1 DEF FindCtx, NoCtx
<1>3. CASE CtxFound
  BY <1>3 DEF CtxFound
<1>4. CASE SetWaiting
  BY <1>4 DEF SetWaiting
<1>5. CASE Enqueue
  <2>1. ctx.id \in Ids
    BY <1>5 DEF Enqueue
  <2>2. queue' \in Seq(Ids) /\ Len(queue') <= CONTROL_PLANE_QUEUE_LEN
    BY <1>5, <2>1, SeqFacts DEF Enqueue
  <2> QED BY <1>5, <2>2 DEF Enqueue
<1>6. CASE EnqueueTimesOut
  BY <1>6 DEF EnqueueTimesOut
<1>7. CASE Notified
  <2>1. blind' \in Nat
    BY <1>7 DEF Notified
  <2>2. Shape'
    BY <1>7, <2>1 DEF Notified
  <2> QED BY <1>7, <2>2 DEF Notified
<1>8. CASE WaitTimesOut
  BY <1>8 DEF WaitTimesOut
<1>9. CASE ClearWaiting
  <2>1. Shape'
    BY <1>9 DEF ClearWaiting
  <2> QED BY <1>9, <2>1 DEF ClearWaiting
<1>10. CASE vClearCtx
  BY <1>10 DEF vClearCtx, NoCtx
<1>11. CASE CtxCleared
  BY <1>11 DEF CtxCleared
<1>12. CASE RouterEvent
  <2>1. buff' \in Seq(Ids \cup {Event}) /\ Len(buff') <= ResponseBuffLen
    BY <1>12, SeqFacts DEF RouterEvent
  <2> QED BY <1>12, <2>1 DEF RouterEvent
<1>13. CASE RouterReceive
  <2>1. /\ buff' \in Seq(Ids \cup {Event}) /\ Len(buff') <= ResponseBuffLen
        /\ msg' \in Ids
    BY <1>13, SeqFacts DEF RouterReceive
  <2> QED BY <1>13, <2>1 DEF RouterReceive
<1>14. CASE RouterDeliver
  <2>1. ctx' \in [id : Ids \cup {None}, tx : BOOLEAN, rx : Ids \cup {None}, waiting : BOOLEAN]
    BY <1>14 DEF RouterDeliver
  <2>2. late' \in Nat
    BY <1>14 DEF RouterDeliver
  <2>3. Shape'
    BY <1>14, <2>1, <2>2 DEF RouterDeliver
  <2>4. ctx.id = msg /\ msg # None /\ ctx'.id = msg /\ ctx'.rx = msg /\ ctx'.tx = ctx.tx
    BY <1>14 DEF RouterDeliver, Wanted
  <2>5. ctx # NoCtx
    BY <2>4 DEF NoCtx
  <2>6. caller' \notin {"idle", "find", "cleared"}
    BY <1>14, <2>5 DEF RouterDeliver
  <2> QED BY <1>14, <2>3, <2>4, <2>6 DEF RouterDeliver
<1>15. CASE RouterDrop
  BY <1>15 DEF RouterDrop
<1>16. CASE RouterGive
  BY <1>16 DEF RouterGive
<1>17. CASE Transmit
  <2>1. queue' \in Seq(Ids) /\ Len(queue') <= CONTROL_PLANE_QUEUE_LEN /\ asked' \subseteq Ids
    BY <1>17, SeqFacts DEF Transmit
  <2> QED BY <1>17, <2>1 DEF Transmit
<1>18. ASSUME NEW id \in Ids \cup {Event}, Respond(id)
       PROVE  buff' \in Seq(Ids \cup {Event}) /\ Len(buff') <= ResponseBuffLen
  BY <1>18, SeqFacts DEF Respond
<1>19. CASE ModuleAnswers
  BY <1>18, <1>19 DEF ModuleAnswers
<1>20. CASE ModuleEvent
  BY <1>18, <1>20 DEF ModuleEvent
<1>21. CASE UNCHANGED vars
  BY <1>21 DEF vars
<1> QED
  BY <1>1, <1>2, <1>3, <1>4, <1>5, <1>6, <1>7, <1>8, <1>9, <1>10, <1>11,
     <1>12, <1>13, <1>14, <1>15, <1>16, <1>17, <1>19, <1>20, <1>21
  DEF Next, Caller, Router, Module

(* A buffer changes hands, or its place and the count of buffers change    *)
(* together.                                                               *)
LEMMA BuffersStep == IpcInv /\ BuffersAccounted /\ [Next]_vars => BuffersAccounted'
<1> SUFFICES ASSUME IpcInv, BuffersAccounted, [Next]_vars PROVE BuffersAccounted'
  OBVIOUS
<1>0. /\ Len(queue) \in Nat /\ Len(buff) \in Nat
      /\ HeldByCtx \in Nat
  BY SeqFacts DEF IpcInv, Shape, HeldByCtx
<1> USE DEF client, buffers, route, counts
<1>1. CASE TakeToken \/ CtxFound \/ EnqueueTimesOut \/ Notified \/ WaitTimesOut \/ CtxCleared
           \/ RouterDrop \/ UNCHANGED vars
  BY <1>1 DEF TakeToken, CtxFound, EnqueueTimesOut, Notified, WaitTimesOut, CtxCleared,
     RouterDrop, vars, BuffersAccounted, HeldByCtx
<1>2. CASE FindCtx
  <2>1. HeldByCtx = 0 /\ HeldByCtx' = 1
    BY <1>2 DEF FindCtx, IpcInv, HeldByCtx, NoCtx
  <2> QED BY <1>0, <1>2, <2>1 DEF FindCtx, BuffersAccounted
<1>3. CASE SetWaiting \/ ClearWaiting
  <2>1. HeldByCtx' = HeldByCtx
    BY <1>3 DEF SetWaiting, ClearWaiting, IpcInv, Shape, HeldByCtx
  <2> QED BY <1>0, <1>3, <2>1 DEF SetWaiting, ClearWaiting, BuffersAccounted
<1>4. CASE Enqueue
  <2>1. HeldByCtx = HeldByCtx' + 1 /\ HeldByCtx' \in Nat
    BY <1>4 DEF Enqueue, IpcInv, Shape, HeldByCtx
  <2>2. Len(queue') = Len(queue) + 1
    BY <1>4, SeqFacts DEF Enqueue, IpcInv, Shape
  <2> QED BY <1>0, <1>4, <2>1, <2>2 DEF Enqueue, BuffersAccounted
<1>5. CASE vClearCtx
  <2>1. HeldByCtx' = 0
    BY <1>5 DEF vClearCtx, HeldByCtx, NoCtx
  <2> QED BY <1>0, <1>5, <2>1 DEF vClearCtx, BuffersAccounted
<1>6. CASE RouterEvent \/ RouterReceive
  <2>1. Len(buff') = Len(buff) - 1 /\ Len(buff) > 0
    BY <1>6, SeqFacts DEF RouterEvent, RouterReceive, IpcInv, Shape
  <2>2. HeldByCtx' = HeldByCtx
    BY <1>6 DEF RouterEvent, RouterReceive, HeldByCtx
  <2> QED BY <1>0, <1>6, <2>1, <2>2 DEF RouterEvent, RouterReceive, BuffersAccounted
<1>7. CASE RouterDeliver
  <2>1. HeldByCtx' = HeldByCtx + 1
    BY <1>7 DEF RouterDeliver, Wanted, IpcInv, Shape, HeldByCtx
  <2> QED BY <1>0, <1>7, <2>1 DEF RouterDeliver, BuffersAccounted
<1>8. CASE RouterGive
  BY <1>0, <1>8 DEF RouterGive, BuffersAccounted, HeldByCtx
<1>9. CASE Transmit
  <2>1. Len(queue') = Len(queue) - 1 /\ Len(queue) > 0
    BY <1>9, SeqFacts DEF Transmit, IpcInv, Shape
  <2>2. HeldByCtx' = HeldByCtx
    BY <1>9 DEF Transmit, HeldByCtx
  <2> QED BY <1>0, <1>9, <2>1, <2>2 DEF Transmit, BuffersAccounted
<1>10. ASSUME NEW id \in Ids \cup {Event}, Respond(id)
       PROVE  live' - Len(buff') = live - Len(buff)
  <2>1. live \in Nat
    BY <1>0 DEF BuffersAccounted
  <2> QED BY <1>0, <1>10, <2>1, SeqFacts DEF Respond, IpcInv, Shape
<1>11. CASE ModuleAnswers \/ ModuleEvent
  <2>1. live' - Len(buff') = live - Len(buff) /\ Len(buff') \in Nat /\ live' \in Nat
    <3>1. PICK id \in Ids \cup {Event} : Respond(id)
      BY <1>11 DEF ModuleAnswers, ModuleEvent, IpcInv, Shape
    <3>2. live \in Nat
      BY <1>0 DEF BuffersAccounted
    <3>3. Len(buff') \in Nat /\ live' \in Nat
      BY <1>0, <3>1, <3>2, SeqFacts DEF Respond, IpcInv, Shape
    <3> QED BY <1>10, <3>1, <3>3
  <2>2. HeldByCtx' = HeldByCtx /\ queue' = queue /\ router' = router
    BY <1>11 DEF ModuleAnswers, ModuleEvent, HeldByCtx
  <2> QED BY <1>0, <2>1, <2>2 DEF BuffersAccounted
<1> QED
  BY <1>1, <1>2, <1>3, <1>4, <1>5, <1>6, <1>7, <1>8, <1>9, <1>11
  DEF Next, Caller, Router, Module

LEMMA LateStep == IpcInv /\ LateInv /\ [Next]_vars => LateInv'
<1> SUFFICES ASSUME IpcInv, LateInv, [Next]_vars PROVE LateInv'
  OBVIOUS
<1>0. last \in Nat /\ late \in Nat
  BY IdsAre DEF IpcInv, Shape
<1> USE DEF client, buffers, route, counts
<1>1. CASE FindCtx
  <2>1. ctx.id = None
    BY <1>1 DEF FindCtx
  <2> QED BY <1>0, <1>1, <2>1 DEF FindCtx, LateInv
<1>2. CASE RouterDeliver
  <2>1. ctx.id # None /\ ctx.rx = None /\ ctx'.rx # None
    BY <1>2 DEF RouterDeliver, Wanted, IpcInv, Shape
  <2> QED BY <1>0, <1>2, <2>1 DEF RouterDeliver, LateInv
<1>3. CASE vClearCtx
  BY <1>0, <1>3 DEF vClearCtx, NoCtx, LateInv
<1>4. CASE SetWaiting \/ Enqueue \/ ClearWaiting
  <2>1. ctx'.id = ctx.id /\ ctx'.rx = ctx.rx
    BY <1>4 DEF SetWaiting, Enqueue, ClearWaiting, IpcInv, Shape
  <2> QED BY <1>0, <1>4, <2>1 DEF SetWaiting, Enqueue, ClearWaiting, LateInv
<1>5. CASE TakeToken \/ CtxFound \/ EnqueueTimesOut \/ Notified \/ WaitTimesOut \/ CtxCleared
           \/ UNCHANGED vars
  BY <1>5 DEF TakeToken, CtxFound, EnqueueTimesOut, Notified, WaitTimesOut, CtxCleared, vars,
     LateInv
<1>6. CASE RouterEvent \/ RouterReceive \/ RouterDrop \/ RouterGive \/ Module
  BY <1>6 DEF RouterEvent, RouterReceive, RouterDrop, RouterGive, Module, Transmit,
     ModuleAnswers, ModuleEvent, LateInv
<1> QED
  BY <1>1, <1>2, <1>3, <1>4, <1>5, <1>6 DEF Next, Caller, Router

LEMMA BlindStep == IpcInv /\ BlindOnlyAfterLate /\ [Next]_vars => BlindOnlyAfterLate'
<1> SUFFICES ASSUME IpcInv, BlindOnlyAfterLate, [Next]_vars PROVE BlindOnlyAfterLate'
  OBVIOUS
<1>0. blind \in Nat /\ late \in Nat
  BY DEF IpcInv, Shape
<1> USE DEF client, buffers, route, counts
<1>1. CASE FindCtx \/ vClearCtx
  BY <1>0, <1>1 DEF FindCtx, vClearCtx, BlindOnlyAfterLate
<1>2. CASE RouterDeliver
  <2>1. ctx'.rx # None
    BY <1>2 DEF RouterDeliver, Wanted, IpcInv, Shape
  <2> QED BY <1>0, <1>2, <2>1 DEF RouterDeliver, BlindOnlyAfterLate
<1>3. CASE Notified
  BY <1>0, <1>3 DEF Notified, BlindOnlyAfterLate
<1>4. CASE SetWaiting \/ ClearWaiting
  BY <1>0, <1>4 DEF SetWaiting, ClearWaiting, BlindOnlyAfterLate
<1>5. CASE Enqueue
  BY <1>0, <1>5 DEF Enqueue, BlindOnlyAfterLate
<1>6. CASE TakeToken \/ CtxFound \/ EnqueueTimesOut \/ WaitTimesOut \/ CtxCleared
           \/ UNCHANGED vars
  BY <1>0, <1>6 DEF TakeToken, CtxFound, EnqueueTimesOut, WaitTimesOut, CtxCleared, vars,
     BlindOnlyAfterLate
<1>7. CASE RouterEvent \/ RouterReceive \/ RouterDrop \/ RouterGive \/ Module
  BY <1>7 DEF RouterEvent, RouterReceive, RouterDrop, RouterGive, Module, Transmit,
     ModuleAnswers, ModuleEvent, BlindOnlyAfterLate
<1> QED
  BY <1>1, <1>2, <1>3, <1>4, <1>5, <1>6, <1>7 DEF Next, Caller, Router

LEMMA IpcAlways == Spec => []IpcInv
BY IpcInit, IpcStep, PTL DEF Spec

(* Whatever times out and however late an answer is, a caller copies from  *)
(* the answer to its own request.                                          *)
THEOREM AnswersAreOwn == Spec => []OwnAnswer
<1>1. IpcInv => OwnAnswer
  BY DEF IpcInv
<1> QED BY <1>1, IpcAlways, PTL

(* Every packet buffer of a request, an answer or an event is in one place *)
(* and is freed once.                                                      *)
THEOREM BuffersFreedOnce == Spec => []BuffersAccounted
BY IpcInit, BuffersStep, IpcAlways, PTL DEF Spec

(* A request ends with a notification and no answer only after an answer   *)
(* that came too late, and each late answer does it to one request.        *)
THEOREM BlindNeedsLate == Spec => []BlindOnlyAfterLate
BY IpcInit, BlindStep, IpcAlways, PTL DEF Spec

LEMMA LateAlways == Spec => []LateInv
BY IpcInit, LateStep, IpcAlways, PTL DEF Spec

(* The variables keep their types; at most one answer of each request is   *)
(* late, so that the two counters stay within the number of requests.      *)
THEOREM TypeCorrect == Spec => []TypeOK
<1>1. IpcInv /\ BuffersAccounted /\ BlindOnlyAfterLate /\ LateInv => TypeOK
  <2> SUFFICES ASSUME IpcInv, BuffersAccounted, BlindOnlyAfterLate, LateInv PROVE TypeOK
    OBVIOUS
  <2>1. live \in Nat
    BY SeqFacts DEF IpcInv, Shape, BuffersAccounted, HeldByCtx
  <2>2. token \in 0 .. 1
    BY DEF IpcInv
  <2>3. late <= last /\ blind <= late
    BY IdsAre DEF IpcInv, Shape, LateInv, BlindOnlyAfterLate
  <2>4. late \in 0 .. MaxRequests /\ blind \in 0 .. MaxRequests
    BY <2>3, IdsAre DEF IpcInv, Shape
  <2> QED BY <2>1, <2>2, <2>4 DEF IpcInv, Shape, TypeOK
<1> QED
  BY <1>1, IpcAlways, BuffersFreedOnce, BlindNeedsLate, LateAlways, PTL

-----------------------------------------------------------------------------
(* A request and its answer are one thing that moves from the queue to the *)
(* Wi-Fi module, the message buffer, the hands of the router and the       *)
(* context: no identifier is in two of these places, or twice in one.      *)

In(s, e) == \E i \in DOMAIN s : s[i] = e

Distinct(s) == \A i, j \in DOMAIN s : s[i] = s[j] /\ s[i] # Event => i = j

InHand(id) == router = "lock" /\ msg = id

InTransit(id) == In(queue, id) \/ id \in asked \/ In(buff, id) \/ InHand(id)

OneCopy ==
  /\ Distinct(queue) /\ Distinct(buff)
  /\ \A id \in Ids :
       /\ In(queue, id) => id \notin asked /\ ~In(buff, id) /\ ~InHand(id)
       /\ id \in asked => ~In(buff, id) /\ ~InHand(id)
       /\ In(buff, id) => ~InHand(id)

(* What is on its way belongs to a request that has been sent, and is not  *)
(* what the context has received.                                          *)
Unsent == caller \in {"found", "send", "queue"}

Sent ==
  /\ ctx.id <= last
  /\ Unsent => ctx.rx = None
  /\ \A id \in Ids : InTransit(id) =>
       /\ id <= last
       /\ ctx.rx # id
       /\ Unsent => ctx.id # id

HandleSet == caller \in {"queue", "wait", "done"} => ctx.waiting

KeptInv == OneCopy /\ Sent /\ HandleSet

LEMMA InAppend ==
  ASSUME NEW S, NEW s \in Seq(S), NEW e \in S
  PROVE  /\ \A x : In(Append(s, e), x) <=> In(s, x) \/ x = e
         /\ Distinct(s) /\ (e = Event \/ ~In(s, e)) => Distinct(Append(s, e))
<1>1. /\ Len(s) \in Nat
      /\ DOMAIN Append(s, e) = DOMAIN s \cup {Len(s) + 1}
      /\ \A i \in DOMAIN s : Append(s, e)[i] = s[i]
      /\ Append(s, e)[Len(s) + 1] = e
  OBVIOUS
<1> QED BY <1>1 DEF In, Distinct

LEMMA InTail ==
  ASSUME NEW S, NEW s \in Seq(S), s # <<>>
  PROVE  /\ \A x : In(s, x) <=> In(Tail(s), x) \/ x = Head(s)
         /\ Distinct(s) => /\ Distinct(Tail(s))
                           /\ Head(s) # Event => ~In(Tail(s), Head(s))
<1>1. /\ Len(s) \in Nat \ {0} /\ DOMAIN s = 1 .. Len(s)
      /\ DOMAIN Tail(s) = 1 .. Len(s) - 1
      /\ \A i \in DOMAIN Tail(s) : Tail(s)[i] = s[i + 1]
      /\ s[1] = Head(s)
  OBVIOUS
<1>2. ASSUME NEW x PROVE In(s, x) <=> In(Tail(s), x) \/ x = Head(s)
  <2>1. ASSUME NEW i \in DOMAIN s, s[i] = x PROVE In(Tail(s), x) \/ x = Head(s)
    <3>1. CASE i = 1
      BY <1>1, <2>1, <3>1
    <3>2. CASE i # 1
      <4>1. i - 1 \in DOMAIN Tail(s) /\ (i - 1) + 1 = i
        BY <1>1, <3>2
      <4>2. Tail(s)[i - 1] = x
        BY <1>1, <2>1, <4>1
      <4> QED BY <4>1, <4>2 DEF In
    <3> QED BY <3>1, <3>2
  <2>2. ASSUME NEW i \in DOMAIN Tail(s), Tail(s)[i] = x PROVE In(s, x)
    <3>1. i + 1 \in DOMAIN s /\ s[i + 1] = x
      BY <1>1, <2>2
    <3> QED BY <3>1 DEF In
  <2>3. x = Head(s) => In(s, x)
    BY <1>1 DEF In
  <2> QED BY <2>1, <2>2, <2>3 DEF In
<1>3. ASSUME Distinct(s) PROVE Distinct(Tail(s))
  <2> SUFFICES ASSUME NEW i \in DOMAIN Tail(s), NEW j \in DOMAIN Tail(s),
                      Tail(s)[i] = Tail(s)[j], Tail(s)[i] # Event
               PROVE  i = j
    BY DEF Distinct
  <2>1. i + 1 \in DOMAIN s /\ j + 1 \in DOMAIN s /\ s[i + 1] = s[j + 1] /\ s[i + 1] # Event
    BY <1>1
  <2>2. i + 1 = j + 1
    BY <1>3, <2>1 DEF Distinct
  <2> QED BY <1>1, <2>2
<1>4. ASSUME Distinct(s), Head(s) # Event, In(Tail(s), Head(s)) PROVE FALSE
  <2>1. PICK i \in DOMAIN Tail(s) : Tail(s)[i] = Head(s)
    BY <1>4 DEF In
  <2>2. i + 1 \in DOMAIN s /\ 1 \in DOMAIN s /\ s[i + 1] = s[1] /\ s[1] # Event
    BY <1>1, <1>4, <2>1
  <2>3. i + 1 = 1
    BY <1>4, <2>2 DEF Distinct
  <2> QED BY <1>1, <2>3
<1> QED BY <1>2, <1>3, <1>4

LEMMA KeptInit == Init => KeptInv
<1> SUFFICES ASSUME Init PROVE KeptInv
  OBVIOUS
<1>1. \A id : ~In(<<>>, id)
  BY DEF In
<1>2. Distinct(<<>>)
  BY DEF Distinct
<1>3. \A id \in Ids : ~InTransit(id)
  BY <1>1, IdsAre DEF Init, InTransit, InHand
<1> QED
  BY <1>1, <1>2, <1>3, IdsAre
  DEF Init, KeptInv, OneCopy, Sent, HandleSet, Unsent, InHand, NoCtx

LEMMA KeptStep == IpcInv /\ KeptInv /\ [Next]_vars => KeptInv'
<1> SUFFICES ASSUME IpcInv, KeptInv, [Next]_vars PROVE KeptInv'
  OBVIOUS
<1> USE DEF client, buffers, route, counts
<1>0. /\ Shape /\ last \in Nat /\ ctx.id \in Nat
      /\ queue \in Seq(Ids) /\ buff \in Seq(Ids \cup {Event})
      /\ OneCopy /\ Sent /\ HandleSet
  <2>1. Shape /\ OneCopy /\ Sent /\ HandleSet
    BY DEF IpcInv, KeptInv
  <2>2. last \in Nat /\ queue \in Seq(Ids) /\ buff \in Seq(Ids \cup {Event})
    BY <2>1, IdsAre DEF Shape
  <2>3. ctx.id \in Ids \cup {None}
    BY <2>1 DEF Shape
  <2>4. ctx.id \in Nat
    BY <2>3, MxIpcAssumption DEF Ids, None
  <2> QED BY <2>1, <2>2, <2>4
<1>a. ASSUME UNCHANGED <<queue, asked, buff, route>>
      PROVE  OneCopy' /\ \A id \in Ids : InTransit(id)' <=> InTransit(id)
  BY <1>0, <1>a DEF OneCopy, InTransit, InHand, Distinct, In
<1>b. ASSUME UNCHANGED client, \A id \in Ids : InTransit(id)' => InTransit(id)
      PROVE  Sent' /\ HandleSet'
  BY <1>0, <1>b DEF Sent, HandleSet, Unsent
<1>1. CASE TakeToken \/ CtxFound \/ EnqueueTimesOut \/ Notified \/ WaitTimesOut \/ CtxCleared
           \/ UNCHANGED vars
  <2>1. UNCHANGED <<queue, asked, buff, route, ctx, last>>
    BY <1>1 DEF TakeToken, CtxFound, EnqueueTimesOut, Notified, WaitTimesOut, CtxCleared, vars
  <2>2. (Unsent' => Unsent) /\ (caller' \in {"queue", "wait", "done"}
                               => caller \in {"queue", "wait", "done"})
    BY <1>1 DEF TakeToken, CtxFound, EnqueueTimesOut, Notified, WaitTimesOut, CtxCleared, vars,
       Unsent
  <2>3. Sent' /\ HandleSet'
    BY <1>0, <1>a, <2>1, <2>2 DEF Sent, HandleSet
  <2> QED BY <1>a, <2>1, <2>3 DEF KeptInv
<1>2. CASE FindCtx
  <2>1. /\ UNCHANGED <<queue, asked, buff, route>>
        /\ last' = last + 1 /\ ctx'.id = last + 1 /\ ctx'.rx = None /\ caller' = "found"
    BY <1>2 DEF FindCtx, NoCtx
  <2>2. \A id \in Ids : InTransit(id)' => id <= last /\ id # None
    BY <1>0, <1>a, <2>1, IdsAre DEF Sent
  <2>3. Sent' /\ HandleSet'
    BY <1>0, <2>1, <2>2, IdsAre DEF Sent, HandleSet
  <2> QED BY <1>a, <2>1, <2>3 DEF KeptInv
<1>3. CASE SetWaiting \/ ClearWaiting
  <2>1. /\ UNCHANGED <<queue, asked, buff, route, last>>
        /\ ctx'.id = ctx.id /\ ctx'.rx = ctx.rx
        /\ Unsent' => Unsent
        /\ caller' = "queue" => ctx'.waiting
        /\ caller' \in {"queue", "clear"}
    BY <1>0, <1>3 DEF SetWaiting, ClearWaiting, Unsent, Shape
  <2>2. Sent' /\ HandleSet'
    BY <1>0, <1>a, <2>1 DEF Sent, HandleSet
  <2> QED BY <1>a, <2>1, <2>2 DEF KeptInv
<1>4. CASE Enqueue
  <2> DEFINE r == ctx.id
  <2>1. /\ queue' = Append(queue, r) /\ UNCHANGED <<asked, buff, route, last>>
        /\ caller = "queue" /\ caller' = "wait"
        /\ r \in Ids
        /\ ctx'.id = r /\ ctx'.rx = ctx.rx /\ ctx'.waiting = ctx.waiting
    BY <1>0, <1>4, IdsAre DEF Enqueue, IpcInv, Shape
  <2>2. ~InTransit(r) /\ ctx.rx = None /\ ctx.waiting
    BY <1>0, <2>1 DEF Sent, Unsent, HandleSet
  <2>3. ~In(queue, r) /\ r \notin asked /\ ~In(buff, r) /\ ~InHand(r)
    BY <2>2 DEF InTransit
  <2> HIDE DEF r
  <2>4. Distinct(queue') /\ \A x : In(queue', x) <=> In(queue, x) \/ x = r
    BY <1>0, <2>1, <2>3, InAppend DEF OneCopy
  <2>5. OneCopy'
    BY <1>0, <2>1, <2>3, <2>4 DEF OneCopy, InHand
  <2>6. \A id \in Ids : InTransit(id)' => InTransit(id) \/ id = r
    BY <2>1, <2>4 DEF InTransit, InHand
  <2>7. r <= last /\ r # None
    BY <1>0, <2>1, IdsAre DEF Sent, r
  <2>8. Sent' /\ HandleSet'
    BY <1>0, <2>1, <2>2, <2>6, <2>7, IdsAre DEF Sent, HandleSet, Unsent, r
  <2> QED BY <2>5, <2>8 DEF KeptInv
<1>5. CASE vClearCtx
  <2>1. /\ UNCHANGED <<queue, asked, buff, route, last>>
        /\ ctx'.id = None /\ ctx'.rx = None /\ caller' = "cleared"
    BY <1>5 DEF vClearCtx, NoCtx
  <2>2. Sent' /\ HandleSet'
    BY <1>0, <1>a, <2>1, IdsAre DEF Sent, HandleSet, Unsent
  <2> QED BY <1>a, <2>1, <2>2 DEF KeptInv
<1>6. CASE RouterEvent
  <2>1. /\ buff # <<>> /\ buff' = Tail(buff) /\ Head(buff) = Event
        /\ UNCHANGED <<queue, asked, route>> /\ UNCHANGED client
    BY <1>6 DEF RouterEvent
  <2>2. /\ \A x : In(buff, x) <=> In(buff', x) \/ x = Head(buff)
        /\ Distinct(buff')
    BY <1>0, <2>1, InTail DEF OneCopy
  <2>3. OneCopy'
    BY <1>0, <2>1, <2>2 DEF OneCopy, InHand
  <2>4. \A id \in Ids : InTransit(id)' => InTransit(id)
    BY <2>1, <2>2 DEF InTransit, InHand
  <2> QED BY <1>b, <2>1, <2>3, <2>4 DEF KeptInv
<1>7. CASE RouterReceive
  <2>1. /\ buff # <<>> /\ buff' = Tail(buff) /\ Head(buff) # Event
        /\ msg' = Head(buff) /\ router = "receive" /\ router' = "lock"
        /\ UNCHANGED <<queue, asked>> /\ UNCHANGED client
    BY <1>7 DEF RouterReceive
  <2>2. /\ \A x : In(buff, x) <=> In(buff', x) \/ x = Head(buff)
        /\ Distinct(buff') /\ ~In(buff', Head(buff))
    BY <1>0, <2>1, InTail DEF OneCopy
  <2>3. OneCopy'
    BY <1>0, <2>1, <2>2 DEF OneCopy, InHand
  <2>4. \A id \in Ids : InTransit(id)' => InTransit(id)
    BY <2>1, <2>2 DEF InTransit, InHand
  <2> QED BY <1>b, <2>1, <2>3, <2>4 DEF KeptInv
<1>8. CASE RouterDeliver
  <2>1. /\ UNCHANGED <<queue, asked, buff, msg, caller, last>>
        /\ router = "lock" /\ router' = "give"
        /\ ctx'.id = ctx.id /\ ctx'.rx = msg /\ ctx'.waiting = ctx.waiting /\ msg = ctx.id
        /\ msg \in Ids
    BY <1>0, <1>8, IdsAre DEF RouterDeliver, Wanted, IpcInv, Shape
  <2>2. OneCopy'
    BY <1>0, <2>1 DEF OneCopy, InHand
  <2>3. \A id \in Ids : InTransit(id)' => InTransit(id) /\ id # msg
    BY <1>0, <2>1 DEF InTransit, InHand, OneCopy
  <2>4. ~Unsent
    BY <1>0, <2>1 DEF Sent, InTransit, InHand
  <2>5. Sent' /\ HandleSet'
    BY <1>0, <2>1, <2>3, <2>4 DEF Sent, HandleSet, Unsent
  <2> QED BY <2>2, <2>5 DEF KeptInv
<1>9. CASE RouterDrop \/ RouterGive
  <2>1. UNCHANGED <<queue, asked, buff>> /\ UNCHANGED client /\ router' # "lock"
    BY <1>9 DEF RouterDrop, RouterGive
  <2>2. OneCopy'
    BY <1>0, <2>1 DEF OneCopy, InHand
  <2>3. \A id \in Ids : InTransit(id)' => InTransit(id)
    BY <2>1 DEF InTransit, InHand
  <2> QED BY <1>b, <2>1, <2>2, <2>3 DEF KeptInv
<1>10. CASE Transmit
  <2>1. /\ queue # <<>> /\ queue' = Tail(queue)
        /\ asked' = asked \/ asked' = asked \cup {Head(queue)}
        /\ UNCHANGED <<buff, route>> /\ UNCHANGED client
        /\ Head(queue) \in Ids /\ Head(queue) # Event
    BY <1>0, <1>10, IdsAre DEF Transmit
  <2>2. /\ \A x : In(queue, x) <=> In(queue', x) \/ x = Head(queue)
        /\ Distinct(queue') /\ ~In(queue', Head(queue))
    BY <1>0, <2>1, InTail DEF OneCopy
  <2>3. OneCopy'
    BY <1>0, <2>1, <2>2 DEF OneCopy, InHand
  <2>4. \A id \in Ids : InTransit(id)' => InTransit(id)
    BY <2>1, <2>2 DEF InTransit, InHand
  <2> QED BY <1>b, <2>1, <2>3, <2>4 DEF KeptInv
<1>11. ASSUME NEW id \in Ids \cup {Event}, Respond(id), id = Event \/ ~In(buff, id)
       PROVE  Distinct(buff') /\ \A x \in Ids : In(buff', x) => In(buff, x) \/ x = id
  <2>1. Distinct(buff)
    BY <1>0 DEF OneCopy
  <2>2. /\ \A x : In(Append(buff, id), x) <=> In(buff, x) \/ x = id
        /\ Distinct(Append(buff, id))
    BY <1>0, <1>11, <2>1, InAppend
  <2>3. buff' = Append(buff, id) \/ buff' = buff
    BY <1>11 DEF Respond
  <2> QED BY <2>1, <2>2, <2>3
<1>12. CASE ModuleAnswers
  <2>1. PICK id \in asked : /\ asked' = asked \ {id} /\ Respond(id)
                            /\ UNCHANGED <<queue, route>> /\ UNCHANGED client
    BY <1>12 DEF ModuleAnswers
  <2>2. id \in Ids /\ ~In(buff, id)
    BY <1>0, <2>1 DEF Shape, OneCopy
  <2>3. Distinct(buff') /\ \A x \in Ids : In(buff', x) => In(buff, x) \/ x = id
    BY <1>11, <2>1, <2>2
  <2>4. OneCopy'
    BY <1>0, <2>1, <2>2, <2>3 DEF OneCopy, InHand
  <2>5. \A x \in Ids : InTransit(x)' => InTransit(x)
    BY <2>1, <2>3 DEF InTransit, InHand
  <2> QED BY <1>b, <2>1, <2>4, <2>5 DEF KeptInv
<1>13. CASE ModuleEvent
  <2>1. Respond(Event) /\ UNCHANGED <<queue, asked, route>> /\ UNCHANGED client
    BY <1>13 DEF ModuleEvent
  <2>2. Distinct(buff') /\ \A x \in Ids : In(buff', x) => In(buff, x)
    BY <1>11, <2>1, IdsAre
  <2>3. OneCopy'
    BY <1>0, <2>1, <2>2 DEF OneCopy, InHand
  <2>4. \A x \in Ids : InTransit(x)' => InTransit(x)
    BY <2>1, <2>2 DEF InTransit, InHand
  <2> QED BY <1>b, <2>1, <2>3, <2>4 DEF KeptInv
<1> QED
  BY <1>1, <1>2, <1>3, <1>4, <1>5, <1>6, <1>7, <1>8, <1>9, <1>10, <1>12, <1>13
  DEF Next, Caller, Router, Module

LEMMA KeptAlways == Spec => []KeptInv
BY KeptInit, KeptStep, IpcAlways, PTL DEF Spec

(* A request and its answer are in one place at a time, so that no request *)
(* is answered twice.                                                      *)
THEOREM OneAnswerEach == Spec => []OneCopy
<1>1. KeptInv => OneCopy
  BY DEF KeptInv
<1> QED BY <1>1, KeptAlways, PTL

(* The router never drops the answer its caller is waiting for: there is   *)
(* one answer, it finds the context empty, and the handle is set.          *)
THEOREM AwaitedAnswerDelivered == Spec => AwaitedAnswerKept
<1>1. ASSUME IpcInv, KeptInv, [Next]_vars
      PROVE  [mutex = "free" /\ router = "lock" /\ mutex' = "router" /\ msg = ctx.id
                /\ caller = "wait" => ctx'.rx = msg]_vars
  <2> SUFFICES ASSUME Next, mutex = "free", router = "lock", mutex' = "router",
                      msg = ctx.id, caller = "wait"
               PROVE  ctx'.rx = msg
    BY <1>1
  <2>1. CASE RouterDeliver
    BY <1>1, <2>1 DEF RouterDeliver, IpcInv, Shape
  <2>2. Wanted
    <3>1. msg \in Ids /\ InTransit(msg)
      BY <1>1 DEF IpcInv, Shape, InTransit, InHand
    <3>2. ctx.rx # msg
      BY <1>1, <3>1 DEF KeptInv, Sent
    <3>3. ctx.rx = None
      BY <1>1, <3>2 DEF IpcInv, OwnAnswer
    <3> QED BY <1>1, <3>3 DEF KeptInv, HandleSet, Wanted
  <2>3. ~RouterDrop
    BY <2>2 DEF RouterDrop
  <2>4. CASE ~RouterDeliver
    BY <2>3, <2>4
    DEF Next, Caller, Router, Module, TakeToken, FindCtx, CtxFound, SetWaiting, Enqueue,
        EnqueueTimesOut, Notified, WaitTimesOut, ClearWaiting, vClearCtx, CtxCleared,
        RouterEvent, RouterReceive, RouterGive, Transmit, ModuleAnswers, ModuleEvent
  <2> QED BY <2>1, <2>4
<1> QED BY <1>1, KeptAlways, IpcAlways, PTL DEF Spec, AwaitedAnswerKept
=============================================================================
