--------------------------- MODULE MxDataplane_proofs ---------------------------
(***************************************************************************)
(* Proofs about MxDataplane, for any length of the queues, any modulus of  *)
(* the counter that the assumption of the module allows, and whichever     *)
(* producers share the priority of the data plane.                         *)
(*                                                                         *)
(* The counter wraps, so a surplus that grew would in the end be taken for *)
(* a deficit, and a deficit for a surplus.  CountInv says where the surplus *)
(* comes from, requests that were counted and not queued and resets of the *)
(* counter, how far it goes, and that no deficit is larger than the queues. *)
(***************************************************************************)
EXTENDS MxDataplane, FiniteSetTheorems, TLAPS

Bit(b) == IF b THEN 1 ELSE 0

(* Where a packet to send, and a packet taken from its queue, can be.      *)
SourceInv ==
  /\ held => pc \in {"transfer", "finish", "halted"}
  /\ pc \in {"check", "wait", "test", "flow", "peek", "reset"} => source = "none"
  /\ pc \in {"header", "flowAgain"} /\ source # "none" => queued[source] > 0

Surplus == Modulus \div 6 + 3

(* What the counter shows when n is meant.                                 *)
Shown(n) == IF n < 0 THEN n + Modulus ELSE n

CountInv ==
  /\ -(2 * QueueLen) <= Excess
  /\ Excess + Bit(step[Control] = "refused") <= Surplus

(* Between the look at the queues and the reset only peers queue packets.  *)
ResetInv == pc = "reset" => \A p \in Producers \ Peers : queued[p] = 0

DataInv == TypeOK /\ SourceInv /\ step[Data] # "refused"

-----------------------------------------------------------------------------
LEMMA Constants ==
  /\ Modulus \in Nat /\ QueueLen \in Nat /\ Modulus > 8 * QueueLen + 8
  /\ Modulus > 16 /\ QueueLen > 0 /\ Control # Data /\ Producers = {Control, Data}
  /\ Control # "none" /\ Data # "none"
BY MxDataplaneAssumption DEF Producers

LEMMA PlusIs ==
  ASSUME NEW n \in 0 .. Modulus - 1, NEW d \in {-1, 1}
  PROVE  /\ Plus(n, d) \in 0 .. Modulus - 1
         /\ Plus(n, d) = IF n + d < 0 THEN n + d + Modulus
                         ELSE IF n + d = Modulus THEN 0 ELSE n + d
BY Constants DEF Plus

LEMMA UncountedIs ==
  Uncounted = Bit(step[Control] = "enqueued") + Bit(step[Data] = "enqueued")
<1>1. Cardinality({}) = 0 /\ Cardinality({Control}) = 1 /\ Cardinality({Data}) = 1
  BY FS_EmptySet, FS_Singleton
<1>2. Cardinality({Control, Data}) = 2
  <2>1. {Control, Data} = {Control} \cup {Data} /\ Data \notin {Control}
    BY Constants
  <2>2. IsFiniteSet({Control})
    BY FS_Singleton
  <2>3. Cardinality({Control} \cup {Data}) = Cardinality({Control}) + 1
    BY ONLY <2>1, <2>2, FS_AddElement
  <2> QED BY ONLY <1>1, <2>1, <2>3
<1> DEFINE U == {p \in Producers : step[p] = "enqueued"}
<1>3. CASE step[Control] = "enqueued" /\ step[Data] = "enqueued"
  <2>1. U = {Control, Data}
    BY <1>3, Constants
  <2> QED BY <1>2, <1>3, <2>1 DEF Uncounted, Bit
<1>4. CASE step[Control] = "enqueued" /\ step[Data] # "enqueued"
  <2>1. U = {Control}
    BY <1>4, Constants
  <2> QED BY <1>1, <1>4, <2>1 DEF Uncounted, Bit
<1>5. CASE step[Control] # "enqueued" /\ step[Data] = "enqueued"
  <2>1. U = {Data}
    BY <1>5, Constants
  <2> QED BY <1>1, <1>5, <2>1 DEF Uncounted, Bit
<1>6. CASE step[Control] # "enqueued" /\ step[Data] # "enqueued"
  <2>1. U = {}
    BY <1>6, Constants
  <2> QED BY <1>1, <1>6, <2>1 DEF Uncounted, Bit
<1> QED BY <1>3, <1>4, <1>5, <1>6

DueParts == (queued[Control] + queued[Data] + Bit(held))
            - (Bit(step[Control] = "enqueued") + Bit(step[Data] = "enqueued"))

LEMMA DueIs == DataInv => Due = DueParts /\ Due \in -2 .. 2 * QueueLen + 1
<1> SUFFICES ASSUME DataInv PROVE Due = DueParts /\ Due \in -2 .. 2 * QueueLen + 1
  OBVIOUS
<1>1. queued[Control] \in 0 .. QueueLen /\ queued[Data] \in 0 .. QueueLen
  BY Constants DEF DataInv, TypeOK
<1>2. Uncounted \in 0 .. 2
  BY UncountedIs DEF Bit
<1> QED BY <1>1, <1>2, UncountedIs, Constants DEF Due, DueParts, InQueues, Bit

(* The counter shows what is due and an excess within the bounds of        *)
(* CountInv just when that is its excess.                                  *)
ExcessOnly == \A s \in Int : /\ -(2 * QueueLen) <= s /\ s <= Surplus
                              /\ waiting = Shown(Due + s)
                              => Excess = s

LEMMA ExcessIs == DataInv => ExcessOnly
<1> SUFFICES ASSUME DataInv, NEW s \in Int, -(2 * QueueLen) <= s, s <= Surplus,
                    waiting = Shown(Due + s)
             PROVE  Excess = s
  BY DEF ExcessOnly
<1> DEFINE h == Modulus \div 2
<1>1. Due \in -2 .. 2 * QueueLen + 1 /\ waiting \in 0 .. Modulus - 1
  BY DueIs DEF DataInv, TypeOK
<1>2. /\ h \in Nat /\ 2 * h <= Modulus /\ Modulus <= 2 * h + 1
      /\ Surplus \in Nat /\ Surplus <= h
  BY Constants DEF Surplus
<1>3. 4 * QueueLen + 4 <= h
  BY <1>2, Constants
<1>4. Excess = IF waiting - Due > h THEN waiting - Due - Modulus ELSE waiting - Due
  BY DEF Excess
<1> HIDE DEF h
<1> QED BY <1>1, <1>2, <1>3, <1>4, Constants DEF Shown

LEMMA ShownIs == DataInv => Excess \in Int /\ waiting = Shown(Due + Excess)
<1> SUFFICES ASSUME DataInv PROVE Excess \in Int /\ waiting = Shown(Due + Excess)
  OBVIOUS
<1> DEFINE h == Modulus \div 2
<1>1. Due \in -2 .. 2 * QueueLen + 1 /\ waiting \in 0 .. Modulus - 1
  BY DueIs DEF DataInv, TypeOK
<1>2. h \in Nat /\ 2 * h <= Modulus /\ Modulus <= 2 * h + 1
  BY Constants
<1>3. 4 * QueueLen + 4 <= h
  BY <1>2, Constants
<1>4. Excess = IF waiting - Due > h THEN waiting - Due - Modulus ELSE waiting - Due
  BY DEF Excess
<1> HIDE DEF h
<1> QED BY <1>1, <1>2, <1>3, <1>4, Constants DEF Shown

-----------------------------------------------------------------------------
LEMMA DataInit == Init => DataInv /\ ResetInv /\ CountInv
<1> SUFFICES ASSUME Init PROVE DataInv /\ ResetInv /\ CountInv
  OBVIOUS
<1> USE Constants
<1>1. TypeOK
  <2>1. 0 \in 0 .. QueueLen /\ 0 \in 0 .. Modulus - 1
    OBVIOUS
  <2>2. queued \in [Producers -> 0 .. QueueLen]
    BY <2>1 DEF Init
  <2>3. waiting \in 0 .. Modulus - 1
    BY <2>1 DEF Init
  <2> QED BY <2>2, <2>3 DEF Init, TypeOK, NoResult, Points
<1>2. SourceInv /\ step[Data] # "refused"
  BY DEF Init, SourceInv
<1>3. DataInv
  BY <1>1, <1>2 DEF DataInv
<1>4. Bit(held) = 0 /\ \A p \in Producers : queued[p] = 0 /\ step[p] = "idle"
  BY DEF Init, Bit
<1>5. Due = 0
  BY <1>3, <1>4, DueIs, Constants DEF DueParts, Bit
<1>6. Surplus \in Nat
  BY DEF Surplus
<1>7. Excess = 0
  BY <1>3, <1>5, <1>6, ExcessIs, Constants DEF ExcessOnly, Shown, Init
<1>8. CountInv
  BY <1>4, <1>6, <1>7 DEF CountInv, Bit
<1> QED BY <1>3, <1>8 DEF ResetInv, Init

LEMMA DataStep == DataInv /\ [Next]_vars => DataInv'
<1> SUFFICES ASSUME DataInv, [Next]_vars PROVE DataInv'
  OBVIOUS
<1> USE Constants DEF DataInv, TypeOK, SourceInv, task, lines, Points
<1>1. ASSUME NEW p \in Producers, Enqueue(p) PROVE DataInv'
  <2>1. queued[p] + 1 \in 0 .. QueueLen
    BY <1>1 DEF Enqueue
  <2>2. queued' \in [Producers -> 0 .. QueueLen]
    BY <1>1, <2>1 DEF Enqueue
  <2>3. \A q \in Producers : queued[q] > 0 => queued'[q] > 0
    BY <1>1 DEF Enqueue
  <2>4. /\ step' \in [Producers -> {"idle", "enqueued", "refused"}]
        /\ step'[Data] # "refused"
    BY <1>1 DEF Enqueue
  <2> QED BY <1>1, <2>2, <2>3, <2>4 DEF Enqueue
<1>2. ASSUME NEW p \in Producers, EnqueueTimesOut(p) PROVE DataInv'
  BY <1>2 DEF EnqueueTimesOut
<1>3. ASSUME NEW p \in Producers, CountPacket(p) PROVE DataInv'
  <2>1. waiting' \in 0 .. Modulus - 1
    BY <1>3, PlusIs DEF CountPacket
  <2> QED BY <1>3, <2>1 DEF CountPacket
<1>4. CASE DataArrives
  BY <1>4 DEF DataArrives
<1>5. CASE FlowRises
  BY <1>5 DEF FlowRises
<1>6. CASE CheckWaiting \/ WaitEnds \/ SkipTransaction \/ SelectModule
  BY <1>6 DEF CheckWaiting, WaitEnds, SkipTransaction, SelectModule
<1>7. CASE WaitForModule
  BY <1>7 DEF WaitForModule, xWaitForFlow
<1>8. CASE FlowTimesOut
  BY <1>8 DEF FlowTimesOut, Abandon, Deselected
<1>9. CASE PeekQueues
  <2>1. source' \in Producers \cup {"none"} /\ (source' # "none" => queued[source'] > 0)
    BY <1>9 DEF PeekQueues
  <2>2. txLen' \in BOOLEAN
    BY <1>9 DEF PeekQueues
  <2>3. pc' \in {"reset", "header"} /\ (pc' = "reset" => source' = "none")
    BY <1>9 DEF PeekQueues
  <2> QED BY <1>9, <2>1, <2>2, <2>3 DEF PeekQueues
<1>10. CASE ResetMismatch
  BY <1>10 DEF ResetMismatch
<1>11. CASE xDoSpiHeaderTransfer
  <2>1. CASE HeaderValid
    BY <1>11, <2>1 DEF xDoSpiHeaderTransfer, HeaderValid, Lengths
  <2>2. CASE HeaderInvalid
    BY <1>11, <2>2 DEF xDoSpiHeaderTransfer, HeaderInvalid
  <2>3. CASE Abandon /\ UNCHANGED flow
    BY <1>11, <2>3 DEF xDoSpiHeaderTransfer, Abandon, Deselected
  <2> QED BY <1>11, <2>1, <2>2, <2>3 DEF xDoSpiHeaderTransfer
<1>12. CASE DequeuePacket
  <2>1. queued' \in [Producers -> 0 .. QueueLen]
    BY <1>12 DEF DequeuePacket, xWaitForFlow
  <2>2. held' \in BOOLEAN
    BY <1>12 DEF DequeuePacket
  <2> QED BY <1>12, <2>1, <2>2 DEF DequeuePacket, xWaitForFlow
<1>13. CASE Transfer
  <2>1. result' \in [transfer : {"none", "ok", "failed"}, rx : {"none", "passedUp", "freed"}]
    BY <1>13 DEF Transfer
  <2>2. pin' \in BOOLEAN
    BY <1>13 DEF Transfer
  <2> QED BY <1>13, <2>1, <2>2 DEF Transfer
<1>14. CASE TransferWithoutBuffer
  BY <1>14 DEF TransferWithoutBuffer
<1>15. CASE FinishTransaction
  <2>1. waiting' \in 0 .. Modulus - 1
    BY <1>15, PlusIs DEF FinishTransaction
  <2> QED BY <1>15, <2>1 DEF FinishTransaction, Deselected, NoResult
<1>16. CASE WatchdogReset
  <2>1. 0 \in 0 .. QueueLen /\ 0 \in 0 .. Modulus - 1
    OBVIOUS
  <2>2. queued' \in [Producers -> 0 .. QueueLen] /\ waiting' \in 0 .. Modulus - 1
    BY <1>16, <2>1 DEF WatchdogReset
  <2> QED BY <1>16, <2>2 DEF WatchdogReset, NoResult
<1>17. CASE UNCHANGED vars
  BY <1>17 DEF vars
<1> QED
  BY <1>1, <1>2, <1>3, <1>4, <1>5, <1>6, <1>7, <1>8, <1>9, <1>10, <1>11, <1>12,
     <1>13, <1>14, <1>15, <1>16, <1>17
  DEF Next, Producer, Dataplane

LEMMA ResetStep == DataInv /\ ResetInv /\ [Next]_vars => ResetInv'
<1> SUFFICES ASSUME DataInv, ResetInv, [Next]_vars PROVE ResetInv'
  OBVIOUS
<1> USE Constants DEF ResetInv, task, lines
<1>1. CASE PeekQueues
  BY <1>1 DEF PeekQueues, DataInv, TypeOK
<1>2. ASSUME NEW p \in Producers, Producer(p) PROVE ResetInv'
  <2>1. pc' = pc /\ (pc = "reset" => p \in Peers)
    BY <1>2 DEF Producer, Enqueue, EnqueueTimesOut, CountPacket, MayRun, Blocked
  <2>2. \A q \in Producers \ {p} : queued'[q] = queued[q]
    BY <1>2 DEF Producer, Enqueue, EnqueueTimesOut, CountPacket, DataInv, TypeOK
  <2> QED BY <2>1, <2>2
<1>3. CASE DataArrives \/ FlowRises \/ WatchdogReset \/ UNCHANGED vars
  BY <1>3 DEF DataArrives, FlowRises, WatchdogReset, vars
<1>4. CASE Dataplane /\ ~PeekQueues
  BY <1>4 DEF Dataplane, CheckWaiting, WaitEnds, SkipTransaction, SelectModule, WaitForModule,
     xWaitForFlow, FlowTimesOut, Abandon, ResetMismatch, xDoSpiHeaderTransfer, HeaderValid,
     HeaderInvalid, DequeuePacket, Transfer, TransferWithoutBuffer, FinishTransaction
<1> QED BY <1>1, <1>2, <1>3, <1>4 DEF Next

(* The excess stays within its bounds, and only a reset makes it smaller   *)
(* than nothing, or than it was.                                           *)
LossAt(e) == e < 0 /\ e < Excess => pc = "reset" /\ -e <= QueuedByPeers

LEMMA CountStep ==
  DataInv /\ ResetInv /\ CountInv /\ [Next]_vars => CountInv' /\ LossAt(Excess')
<1> SUFFICES ASSUME DataInv, ResetInv, CountInv, [Next]_vars
             PROVE  CountInv' /\ LossAt(Excess')
  OBVIOUS
<1> DEFINE R == Bit(step[Control] = "refused")
           E == Bit(step[Control] = "enqueued") + Bit(step[Data] = "enqueued")
           Q == queued[Control] + queued[Data] + Bit(held)
           s == Excess
<1>1. s \in Int /\ -(2 * QueueLen) <= s /\ s + R <= Surplus
  BY ShownIs DEF CountInv
<1>2. /\ R \in 0 .. 1 /\ E \in 0 .. 2 /\ Q \in 0 .. 2 * QueueLen + 1
      /\ R + E <= 2
  BY Constants DEF Bit, DataInv, TypeOK
<1>3. /\ Surplus \in Nat /\ Surplus = Modulus \div 6 + 3
      /\ Surplus <= Modulus \div 4 + 3
      /\ 2 * QueueLen + 1 + Surplus < Modulus
      /\ 4 * QueueLen + 2 < Modulus
  BY Constants DEF Surplus
<1>5. waiting = Shown(Q + s - E) /\ waiting \in 0 .. Modulus - 1
  <2>1. Due = Q - E /\ waiting = Shown(Due + s)
    BY DueIs, ShownIs DEF DueParts
  <2>2. Due + s = Q + s - E
    BY <1>1, <1>2, <2>1
  <2> QED BY <2>1, <2>2 DEF DataInv, TypeOK
<1>6. ASSUME NEW r \in Int, -(2 * QueueLen) <= r, r + R' <= Surplus,
             waiting' = Shown(Q' + r - E'),
             r < 0 /\ r < s => pc = "reset" /\ -r <= QueuedByPeers
      PROVE  CountInv' /\ LossAt(Excess')
  <2>1. DataInv'
    BY DataStep
  <2>2. Due' = Q' - E' /\ Q' \in Int /\ E' \in Int /\ R' \in 0 .. 1
    <3>1. (DataInv => Due = DueParts)'
      BY DueIs, PTL
    <3>2. Q' \in Int /\ E' \in Int /\ R' \in 0 .. 1
      BY <2>1, Constants DEF Bit, DataInv, TypeOK
    <3> QED BY <2>1, <3>1, <3>2 DEF DueParts
  <2>3. waiting' = Shown(Due' + r)
    <3>1. Due' + r = Q' + r - E'
      BY <2>2
    <3> QED BY <1>6, <3>1
  <2>4. r <= Surplus
    BY <1>3, <1>6, <2>2
  <2>5. (DataInv => ExcessOnly)'
    BY ExcessIs, PTL
  <2>6. Excess' = r
    BY <1>6, <2>1, <2>3, <2>4, <2>5 DEF ExcessOnly, Shown
  <2> QED BY <1>6, <2>6 DEF CountInv, LossAt
<1>7. ASSUME waiting' = waiting, Q' - E' = Q - E, R' = R, Q' \in Nat, E' \in Nat
      PROVE  CountInv' /\ LossAt(Excess')
  <2>1. Q' + s - E' = Q + s - E
    BY <1>1, <1>2, <1>7
  <2> HIDE DEF Q, E, R, s
  <2> QED BY <1>1, <1>5, <1>6, <1>7, <2>1
<1> USE Constants DEF task, lines
<1>8. ASSUME NEW p \in Producers, Enqueue(p) PROVE CountInv' /\ LossAt(Excess')
  <2>1. Q' = Q + 1 /\ E' = E + 1 /\ R' = R /\ waiting' = waiting
    BY <1>8 DEF Enqueue, Bit, DataInv, TypeOK
  <2> HIDE DEF Q, E, R, s
  <2> QED BY <1>2, <1>7, <2>1
<1>9. ASSUME NEW p \in Producers, EnqueueTimesOut(p) PROVE CountInv' /\ LossAt(Excess')
  <2>1. Q' = Q /\ E' = E /\ R = 0 /\ R' = 1 /\ waiting' = waiting /\ waiting < Modulus \div 6
    BY <1>9 DEF EnqueueTimesOut, Bit, DataInv, TypeOK
  <2> HIDE DEF Q, E, R, s
  <2>2. s + 1 <= Surplus
    BY <1>1, <1>2, <1>3, <1>5, <2>1 DEF Shown
  <2> QED BY <1>1, <1>5, <1>6, <2>1, <2>2
<1>10. ASSUME NEW p \in Producers, CountPacket(p) PROVE CountInv' /\ LossAt(Excess')
  <2>1. waiting' = IF waiting + 1 = Modulus THEN 0 ELSE waiting + 1
    BY <1>5, <1>10, PlusIs DEF CountPacket
  <2>2. /\ Q' = Q
        /\ \/ E' = E - 1 /\ R' = R
           \/ E' = E /\ R = 1 /\ R' = 0
    BY <1>10 DEF CountPacket, Bit, DataInv, TypeOK
  <2> HIDE DEF Q, E, R, s
  <2>3. CASE E' = E - 1 /\ R' = R
    <3>1. waiting' = Shown(Q' + s - E')
      BY <1>1, <1>2, <1>3, <1>5, <2>1, <2>2, <2>3 DEF Shown
    <3> QED BY <1>1, <1>6, <2>3, <3>1
  <2>4. CASE E' = E /\ R = 1 /\ R' = 0
    <3>1. waiting' = Shown(Q' + (s + 1) - E')
      BY <1>1, <1>2, <1>3, <1>5, <2>1, <2>2, <2>4 DEF Shown
    <3> QED BY <1>1, <1>6, <2>4, <3>1
  <2> QED BY <2>2, <2>3, <2>4
<1>11. ASSUME UNCHANGED <<queued, step, waiting, held>> PROVE CountInv' /\ LossAt(Excess')
  <2>1. Q' = Q /\ E' = E /\ R' = R
    BY <1>11
  <2> HIDE DEF Q, E, R, s
  <2> QED BY <1>2, <1>7, <1>11, <2>1
<1>12. CASE DataArrives \/ FlowRises \/ UNCHANGED vars
  BY <1>11, <1>12 DEF DataArrives, FlowRises, vars
<1>13. CASE CheckWaiting \/ WaitEnds \/ SkipTransaction \/ SelectModule \/ WaitForModule
            \/ PeekQueues \/ Transfer \/ TransferWithoutBuffer
  BY <1>11, <1>13 DEF CheckWaiting, WaitEnds, SkipTransaction, SelectModule, WaitForModule,
     xWaitForFlow, PeekQueues, Transfer, TransferWithoutBuffer
<1>14. CASE FlowTimesOut \/ xDoSpiHeaderTransfer
  BY <1>11, <1>14 DEF FlowTimesOut, xDoSpiHeaderTransfer, HeaderValid, HeaderInvalid, Abandon
<1>15. CASE ResetMismatch
  <2>1. Q' = Q /\ E' = E /\ R' = R /\ waiting' = 0 /\ pc = "reset"
    BY <1>15 DEF ResetMismatch
  <2>2. Q = QueuedByPeers /\ Q <= 2 * QueueLen
    <3>1. held = FALSE /\ \A p \in Producers \ Peers : queued[p] = 0
      BY <1>15 DEF ResetMismatch, ResetInv, DataInv, SourceInv, TypeOK
    <3>2. queued[Control] \in 0 .. QueueLen /\ queued[Data] \in 0 .. QueueLen
      BY DEF DataInv, TypeOK
    <3>3. /\ Control \notin Peers => queued[Control] = 0
          /\ Data \notin Peers => queued[Data] = 0
      BY <3>1
    <3> QED BY <3>1, <3>2, <3>3 DEF QueuedByPeers, Bit
  <2> HIDE DEF Q, E, R, s
  <2>3. /\ waiting' = Shown(Q' + (E - Q) - E') /\ E - Q \in Int
        /\ -(2 * QueueLen) <= E - Q /\ (E - Q) + R' <= Surplus
        /\ -(E - Q) <= QueuedByPeers
    BY <1>2, <1>3, <2>1, <2>2 DEF Shown
  <2> QED BY <1>6, <2>1, <2>3
<1>16. CASE DequeuePacket
  <2>1. CASE source = "none"
    <3>1. held' = FALSE /\ held = FALSE /\ \A p \in Producers : queued'[p] = queued[p]
      BY <1>16, <2>1 DEF DequeuePacket, DataInv, SourceInv, TypeOK
    <3>2. Q' = Q /\ E' = E /\ R' = R /\ waiting' = waiting
      BY <1>16, <3>1 DEF DequeuePacket, xWaitForFlow
    <3> HIDE DEF Q, E, R, s
    <3> QED BY <1>2, <1>7, <3>2
  <2>2. CASE source # "none"
    <3>1. /\ held' = TRUE /\ held = FALSE
          /\ \/ queued'[Control] = queued[Control] - 1 /\ queued'[Data] = queued[Data]
             \/ queued'[Control] = queued[Control] /\ queued'[Data] = queued[Data] - 1
      <4>1. held' = TRUE /\ held = FALSE /\ source \in {Control, Data}
        BY <1>16, <2>2 DEF DequeuePacket, DataInv, SourceInv, TypeOK
      <4>2. queued' = [q \in Producers |-> queued[q] - IF q = source THEN 1 ELSE 0]
        BY <1>16 DEF DequeuePacket
      <4>3. /\ queued'[Control] = queued[Control] - IF Control = source THEN 1 ELSE 0
            /\ queued'[Data] = queued[Data] - IF Data = source THEN 1 ELSE 0
        BY <4>2
      <4>4. queued[Control] \in Int /\ queued[Data] \in Int
        BY DEF DataInv, TypeOK
      <4> HIDE DEF Q, E, R, s
      <4> QED BY <4>1, <4>3, <4>4
    <3>2. Q' = Q
      BY <3>1 DEF DataInv, TypeOK, Bit
    <3>3. E' = E /\ R' = R /\ waiting' = waiting
      BY <1>16 DEF DequeuePacket, xWaitForFlow
    <3> HIDE DEF Q, E, R, s
    <3> QED BY <1>2, <1>7, <3>2, <3>3
  <2> QED BY <2>1, <2>2
<1>17. CASE FinishTransaction
  <2>1. E' = E /\ R' = R
    BY <1>17 DEF FinishTransaction
  <2>2. CASE held
    <3>1. Q' = Q - 1 /\ Q' \in Nat
      BY <1>17, <2>2 DEF FinishTransaction, Bit, DataInv, TypeOK
    <3>2. waiting' = IF waiting = 0 THEN Modulus - 1 ELSE waiting - 1
      <4>1. waiting' = Plus(waiting, -1)
        BY <1>17, <2>2 DEF FinishTransaction
      <4>2. Plus(waiting, -1) = IF waiting + (-1) < 0 THEN waiting + (-1) + Modulus
                                ELSE IF waiting + (-1) = Modulus THEN 0 ELSE waiting + (-1)
        BY <1>5, PlusIs
      <4> HIDE DEF Q, E, R, s
      <4> QED BY <1>5, <4>1, <4>2
    <3> HIDE DEF Q, E, R, s
    <3>3. waiting' = Shown(Q' + s - E')
      BY <1>1, <1>2, <1>3, <1>5, <2>1, <3>1, <3>2 DEF Shown
    <3> QED BY <1>1, <1>6, <2>1, <3>3
  <2>3. CASE ~held
    <3>1. Q' = Q /\ waiting' = waiting
      BY <1>17, <2>3 DEF FinishTransaction, Bit, DataInv, TypeOK
    <3> HIDE DEF Q, E, R, s
    <3> QED BY <1>2, <1>7, <2>1, <3>1
  <2> QED BY <2>2, <2>3
<1>18. CASE WatchdogReset
  <2>1. Q' = 0 /\ E' = 0 /\ R' = 0 /\ waiting' = 0
    BY <1>18 DEF WatchdogReset, Bit
  <2> HIDE DEF Q, E, R, s
  <2>2. waiting' = Shown(Q' + 0 - E') /\ 0 + R' <= Surplus
    BY <1>3, <2>1 DEF Shown
  <2> QED BY <1>6, <2>2
<1> QED
  BY <1>8, <1>9, <1>10, <1>12, <1>13, <1>14, <1>15, <1>16, <1>17, <1>18
  DEF Next, Producer, Dataplane

LEMMA DataAlways == Spec => []DataInv
BY DataInit, DataStep, PTL DEF Spec

(* The variables keep their types: no queue holds more than its length, or *)
(* less than nothing, and the counter stays within its width.              *)
THEOREM TypeCorrect == Spec => []TypeOK
<1>1. DataInv => TypeOK
  BY DEF DataInv
<1> QED BY <1>1, DataAlways, PTL

(* Whatever goes wrong in the exchange, and whoever shares the data        *)
(* plane's priority, only the reset that finds a mismatch can leave the    *)
(* counter too low, and by no more than what those producers have queued:  *)
(* never, if there are none.                                               *)
THEOREM CounterLosesInReset == Spec => OnlyResetsLoseCount
<1> DEFINE Loss == ShortBy' > ShortBy => pc = "reset" /\ ShortBy' <= QueuedByPeers
           Inv == DataInv /\ ResetInv /\ CountInv
<1>1. Inv /\ [Next]_vars => Inv' /\ [Loss]_vars
  <2> SUFFICES ASSUME Inv, [Next]_vars PROVE Inv' /\ Loss
    OBVIOUS
  <2>1. Inv' /\ LossAt(Excess')
    BY DataStep, ResetStep, CountStep
  <2>2. (DataInv => Excess \in Int)'
    BY ShownIs, PTL
  <2>3. Loss
    BY <2>1, <2>2, ShownIs DEF LossAt, ShortBy
  <2> QED BY <2>1, <2>3
<1>2. Init => Inv
  BY DataInit
<1> QED BY <1>1, <1>2, PTL DEF Spec, OnlyResetsLoseCount
=============================================================================
