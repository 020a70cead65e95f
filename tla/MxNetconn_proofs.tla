---------------------------- MODULE MxNetconn_proofs ----------------------------
(***************************************************************************)
(* Proofs about MxNetconn, for any number of status reports and any DHCP   *)
(* server.                                                                 *)
(*                                                                         *)
(* EventInv: bits that wait are announced, but for those of lwIP that the  *)
(* wait for the station has put aside.  LinkInv: while a station that is   *)
(* up has no link, a step that gives it one is due, wherever the two tasks *)
(* that set the link stand.                                                *)
(***************************************************************************)
EXTENDS MxNetconn, TLAPS

EventInv ==
  /\ "STATUS_UPDATE" \in bits => pending
  /\ net # "await" /\ bits # {} => pending

(* A report that the network task has not yet looked at.                   *)
ReportDue == router \in {"link", "notify"} \/ "STATUS_UPDATE" \in bits

LinkDue ==
  \/ ReportDue
  \/ net = "status" /\ "STATUS_UPDATE" \in seen
  \/ net = "link" /\ target

LinkInv ==
  /\ status = prev => status = "NONE"
  /\ net = "link" /\ target # (status \in Up) => ReportDue
  /\ status \in Up /\ ~link => LinkDue
  /\ net \in {"connect", "await"} /\ status \in Up /\ ~link => router = "link"

LEMMA TypeInit == Init => TypeOK
<1> SUFFICES ASSUME Init PROVE TypeOK
  OBVIOUS
<1>1. reports \in 0 .. MaxReports
  BY MxNetconnAssumption DEF Init
<1> QED BY <1>1 DEF Init, TypeOK, Statuses, Bits, LwipBits

LEMMA TypeStep == TypeOK /\ [Next]_vars => TypeOK'
<1> SUFFICES ASSUME TypeOK, [Next]_vars PROVE TypeOK'
  OBVIOUS
<1> USE MxNetconnAssumption
    DEF TypeOK, station, interface, inbox, hand, Notify, SetLink, SetAddress,
        vStartDhcp, vStopDhcp, DhcpStart, LeaveAwait, Bits, LwipBits
<1>1. CASE ModuleReports
  <2>1. reports' \in 0 .. MaxReports
    BY <1>1 DEF ModuleReports
  <2>2. status' \in Statuses /\ prev' \in Statuses
    BY <1>1 DEF ModuleReports
  <2> QED BY <1>1, <2>1, <2>2 DEF ModuleReports
<1>2. CASE RouterSetsLink
  <2> DEFINE stationUp == status \in Up
  <2>1. PICK up \in BOOLEAN : up = stationUp
    <3>1. stationUp \in BOOLEAN
      OBVIOUS
    <3> HIDE DEF stationUp
    <3> QED BY <3>1
  <2>2. SetLink(up)
    BY <1>2, <2>1 DEF RouterSetsLink
  <2>3. link' \in BOOLEAN /\ addr' = addr /\ bits' \subseteq Bits
        /\ dhcp' \in {"off", "init", "search", "bound"} /\ pending' \in BOOLEAN
    BY <2>2
  <2> QED BY <1>2, <2>3 DEF RouterSetsLink
<1>3. CASE RouterNotifies
  BY <1>3 DEF RouterNotifies
<1>4. CASE Start
  BY <1>4 DEF Start
<1>5. CASE Top \/ ConnectFails \/ ConnectAccepted
  <2>1. CASE Top
    BY <2>1 DEF Top
  <2>2. CASE ConnectFails
    BY <2>2 DEF ConnectFails
  <2>3. CASE ConnectAccepted
    BY <2>3 DEF ConnectAccepted
  <2> QED BY <1>5, <2>1, <2>2, <2>3
<1>6. CASE AwaitReturns
  <2>1. seen' \subseteq Bits /\ bits' \subseteq Bits
    BY <1>6 DEF AwaitReturns
  <2>2. net' \in {"await", "wait"} /\ pending' \in BOOLEAN
    BY <1>6 DEF AwaitReturns
  <2>3. UNCHANGED <<station, interface, connected, flag, target>>
    BY <1>6 DEF AwaitReturns
  <2> QED BY <2>1, <2>2, <2>3
<1>7. CASE AwaitTimesOut
  <2>1. net' \in {"await", "wait"} /\ pending' \in BOOLEAN
    BY <1>7 DEF AwaitTimesOut
  <2> QED BY <1>7, <2>1 DEF AwaitTimesOut
<1>8. CASE WaitReturns \/ WaitTimesOut
  BY <1>8 DEF WaitReturns, WaitTimesOut
<1>9. CASE ReadStatus
  BY <1>9 DEF ReadStatus
<1>10. CASE HandleStatus
  BY <1>10 DEF HandleStatus
<1>11. CASE HandleAddress
  BY <1>11 DEF HandleAddress
<1>12. CASE HandleUp
  BY <1>12 DEF HandleUp
<1>13. CASE HandleLinkDown
  BY <1>13 DEF HandleLinkDown
<1>14. CASE vClearAddress \/ ClearConnected
  BY <1>14 DEF vClearAddress, ClearConnected
<1>15. CASE DhcpBinds
  BY <1>15 DEF DhcpBinds
<1>16. CASE UNCHANGED vars
  BY <1>16 DEF vars
<1> QED
  BY <1>1, <1>2, <1>3, <1>4, <1>5, <1>6, <1>7, <1>8, <1>9, <1>10, <1>11,
     <1>12, <1>13, <1>14, <1>15, <1>16 DEF Next, Router, NetTask

(* Every variable keeps its type.                                          *)
THEOREM TypeCorrect == Spec => []TypeOK
BY TypeInit, TypeStep, PTL DEF Spec

-----------------------------------------------------------------------------
LEMMA EventStep ==
  ASSUME TypeOK, EventInv, [Next]_vars
  PROVE  EventInv'
<1> USE DEF TypeOK, EventInv, station, interface, inbox, hand, Notify, SetLink,
            SetAddress, LeaveAwait, Bits, LwipBits
<1>1. CASE ModuleReports \/ Start \/ Top \/ ConnectFails \/ ConnectAccepted
  BY <1>1 DEF ModuleReports, Start, Top, ConnectFails, ConnectAccepted
<1>2. CASE RouterSetsLink \/ HandleStatus
  BY <1>2 DEF RouterSetsLink, HandleStatus
<1>3. CASE RouterNotifies
  BY <1>3 DEF RouterNotifies
<1>4. CASE AwaitReturns
  BY <1>4 DEF AwaitReturns
<1>5. CASE AwaitTimesOut
  BY <1>5 DEF AwaitTimesOut
<1>6. CASE WaitReturns \/ WaitTimesOut
  BY <1>6 DEF WaitReturns, WaitTimesOut
<1>7. CASE ReadStatus \/ HandleAddress \/ HandleUp \/ HandleLinkDown \/ ClearConnected
  BY <1>7 DEF ReadStatus, HandleAddress, HandleUp, HandleLinkDown, ClearConnected
<1>8. CASE vClearAddress \/ DhcpBinds
  BY <1>8 DEF vClearAddress, DhcpBinds
<1>9. CASE UNCHANGED vars
  BY <1>9 DEF vars
<1> QED
  BY <1>1, <1>2, <1>3, <1>4, <1>5, <1>6, <1>7, <1>8, <1>9
  DEF Next, Router, NetTask

LEMMA EventAlways == Spec => []EventInv
<1>1. Init => EventInv
  BY DEF Init, EventInv
<1> QED BY <1>1, EventStep, TypeCorrect, PTL DEF Spec

(* However lwIP and the reports of the module fall into the waits of the   *)
(* network task, it never goes to sleep over an event it has not handled.  *)
THEOREM NoEventSleeps == Spec => []NoEventStranded
<1>1. EventInv => NoEventStranded
  BY DEF EventInv, NoEventStranded
<1> QED BY <1>1, EventAlways, PTL

-----------------------------------------------------------------------------
LEMMA LinkStep ==
  ASSUME TypeOK, EventInv, LinkInv, [Next]_vars
  PROVE  LinkInv'
<1> USE DEF TypeOK, LinkInv, LinkDue, ReportDue, station, interface, inbox, hand,
            Notify, Statuses, Up
<1>1. CASE ModuleReports
  BY <1>1 DEF ModuleReports
<1>2. CASE RouterSetsLink
  BY <1>2 DEF RouterSetsLink, SetLink
<1>3. CASE RouterNotifies
  BY <1>3 DEF RouterNotifies
<1>4. CASE Start \/ Top \/ ConnectFails \/ ConnectAccepted
  BY <1>4 DEF Start, Top, ConnectFails, ConnectAccepted
<1>5. CASE AwaitReturns \/ AwaitTimesOut
  BY <1>5 DEF AwaitReturns, AwaitTimesOut, LeaveAwait
<1>6. CASE WaitReturns \/ WaitTimesOut
  BY <1>6 DEF WaitReturns, WaitTimesOut, EventInv
<1>7. CASE ReadStatus
  BY <1>7 DEF ReadStatus
<1>8. CASE HandleStatus
  BY <1>8 DEF HandleStatus, SetLink
<1>9. CASE HandleAddress \/ HandleUp \/ HandleLinkDown \/ ClearConnected
  BY <1>9 DEF HandleAddress, HandleUp, HandleLinkDown, ClearConnected
<1>10. CASE vClearAddress \/ DhcpBinds
  BY <1>10 DEF vClearAddress, DhcpBinds, SetAddress
<1>11. CASE UNCHANGED vars
  BY <1>11 DEF vars
<1> QED
  BY <1>1, <1>2, <1>3, <1>4, <1>5, <1>6, <1>7, <1>8, <1>9, <1>10, <1>11
  DEF Next, Router, NetTask

(* Once the reports are handled, a station that is up has its link, however *)
(* often and whenever the status changed before.                           *)
THEOREM LinkFollowsStation == Spec => []StationUpHasLink
<1>1. Init => LinkInv
  BY DEF Init, LinkInv, Up
<1>2. TypeOK /\ EventInv /\ LinkInv /\ [Next]_vars => LinkInv'
  BY LinkStep
<1>3. EventInv /\ LinkInv => StationUpHasLink
  BY DEF EventInv, LinkInv, LinkDue, ReportDue, StationUpHasLink
<1> QED BY <1>1, <1>2, <1>3, EventAlways, TypeCorrect, PTL DEF Spec
=============================================================================
