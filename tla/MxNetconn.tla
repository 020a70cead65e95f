------------------------------ MODULE MxNetconn ------------------------------
(***************************************************************************)
(* The network task, Common/net/mxchip/mx_netconn.c, with the callbacks    *)
(* that notify it and the helpers of mx_lwip.h.                            *)
(*                                                                         *)
(* Three parties share the state of the interface: the network task        *)
(* (priority 23); the router task (24), which calls vMxStatusNotify when   *)
(* the Wi-Fi module reports a status; and lwIP, whose calls run under its  *)
(* core lock and are one step each, the status callback included.  What    *)
(* happens is left for the network task as bits of a notification value.   *)
(*                                                                         *)
(* lwIP with its DHCP client and the Wi-Fi module are external.  The       *)
(* module reports a status when it changes, and none before the interface  *)
(* has been added.  The interface is administratively up from then on: the *)
(* two helpers that change this do so only where there is nothing to       *)
(* change (mx_lwip.h:121, 136).  Nothing calls net_request_reconnect.      *)
(***************************************************************************)
EXTENDS Naturals, FiniteSets

CONSTANTS
  MaxReports,     \* bound: status reports of the Wi-Fi module
  PatientServer   \* DHCP takes longer than the network task to handle a batch

ASSUME MxNetconnAssumption ==
  /\ MaxReports \in Nat
  /\ PatientServer \in BOOLEAN

Statuses == {"NONE", "STA_DOWN", "STA_UP", "STA_GOT_IP"}
Up       == {"STA_UP", "STA_GOT_IP"}
LwipBits == {"IP_CHANGE", "IFUP", "LINK_UP", "LINK_DOWN"}
Bits     == LwipBits \cup {"STATUS_UPDATE"}

VARIABLES
  status,     \* xStatus
  prev,       \* xStatusPrevious
  router,     \* where vMxStatusNotify stands
  link,       \* NETIF_FLAG_LINK_UP
  addr,       \* the interface has an address
  dhcp,       \* the DHCP client
  bits,       \* the notification value of the network task at NET_EVT_IDX
  pending,    \* a notification waits
  connected,  \* EVT_MASK_NET_CONNECTED
  net,        \* where net_main stands
  seen,       \* the bits it has in hand
  flag,       \* ucNetifFlags & NETIF_FLAG_LINK_UP
  target,     \* the link state it is about to set
  reports     \* reports so far

station   == <<status, prev, router, reports>>
interface == <<link, addr, dhcp>>
inbox     == <<bits, pending>>
hand      == <<seen, flag, target>>
vars == <<status, prev, router, link, addr, dhcp, bits, pending, connected, net,
          seen, flag, target, reports>>

TypeOK ==
  /\ status \in Statuses /\ prev \in Statuses
  /\ router \in {"idle", "link", "notify"}
  /\ link \in BOOLEAN /\ addr \in BOOLEAN
  /\ dhcp \in {"off", "init", "search", "bound"}
  /\ bits \subseteq Bits /\ pending \in BOOLEAN
  /\ connected \in BOOLEAN
  /\ net \in {"start", "top", "connect", "await", "wait", "status", "link",
              "ip", "chain", "clear", "offline"}
  /\ seen \subseteq Bits /\ flag \in BOOLEAN /\ target \in BOOLEAN
  /\ reports \in 0 .. MaxReports

(* netifapi_netif_set_up has just been called.                             *)
Init ==
  /\ status = "NONE" /\ prev = "NONE" /\ router = "idle" /\ reports = 0
  /\ link = FALSE /\ addr = FALSE /\ dhcp = "off"
  /\ bits = {"IFUP"} /\ pending = TRUE
  /\ connected = FALSE
  /\ net = "start" /\ seen = {} /\ flag = FALSE /\ target = FALSE

-----------------------------------------------------------------------------
(* xTaskNotifyIndexed( ..., eSetBits ).                                    *)
Notify(b) == bits' = bits \cup b /\ pending' = TRUE

(* vLwipStatusCallback compares with the state at its last call: each      *)
(* change is seen once.                                                    *)
SetLink(up) ==
  IF link = up
  THEN UNCHANGED <<interface, inbox>>
  ELSE /\ link' = up
       /\ dhcp' = IF up /\ dhcp # "off" THEN "search" ELSE dhcp
       /\ Notify({IF up THEN "LINK_UP" ELSE "LINK_DOWN"})
       /\ UNCHANGED addr

SetAddress(a) ==
  /\ addr' = a
  /\ IF addr = a THEN UNCHANGED inbox ELSE Notify({"IP_CHANGE"})

(* netifapi_dhcp_start.                                                    *)
DhcpStart == dhcp' = IF link THEN "search" ELSE "init"

vStartDhcp == IF dhcp = "off" THEN DhcpStart ELSE UNCHANGED dhcp

(* Mutant: a client that was stopped is not one that is off.               *)
StopForGood == IF dhcp # "off" THEN dhcp' = "stopped" ELSE UNCHANGED dhcp

(* It starts the client anew (mx_lwip.h:110).                              *)
vStopDhcp == IF dhcp # "off" THEN DhcpStart ELSE UNCHANGED dhcp

-----------------------------------------------------------------------------
(* vMxStatusNotify, in the router task.                                    *)

ModuleReports ==
  /\ router = "idle" /\ reports < MaxReports
  /\ \E s \in Statuses \ {"NONE", status} :
       /\ prev' = status
       /\ status' = s
  /\ reports' = reports + 1
  /\ router' = "link"
  /\ UNCHANGED <<interface, inbox, connected, net, hand>>

(* Mutant: the callback leaves the link to the network task.               *)
RouterLeavesLink ==
  /\ router = "link"
  /\ router' = "notify"
  /\ UNCHANGED <<status, prev, reports, interface, inbox, connected, net, hand>>

RouterSetsLink ==
  /\ router = "link"
  /\ SetLink(status \in Up)
  /\ router' = "notify"
  /\ UNCHANGED <<status, prev, reports, connected, net, hand>>

RouterNotifies ==
  /\ router = "notify"
  /\ Notify({"STATUS_UPDATE"})
  /\ router' = "idle"
  /\ UNCHANGED <<status, prev, reports, interface, connected, net, hand>>

-----------------------------------------------------------------------------
(* net_main.                                                               *)

Start ==
  /\ net = "start"
  /\ IF status \in Up THEN vStartDhcp ELSE UNCHANGED dhcp
  /\ net' = "top"
  /\ UNCHANGED <<station, link, addr, inbox, connected, hand>>

Top ==
  /\ net = "top"
  /\ net' = IF status \in Up THEN "wait" ELSE "connect"
  /\ UNCHANGED <<station, interface, inbox, connected, hand>>

(* xConnectToAP: mx_Connect fails, or the request is accepted and the task *)
(* waits for the station to be up.                                         *)
ConnectFails ==
  /\ net = "connect"
  /\ net' = "wait"
  /\ UNCHANGED <<station, interface, inbox, connected, hand>>

ConnectAccepted ==
  /\ net = "connect"
  /\ net' = IF status \in Up THEN "wait" ELSE "await"
  /\ seen' = {}
  /\ UNCHANGED <<station, interface, inbox, connected, flag, target>>

(* ulWaitForNotifyBits.  It takes its own bit and leaves the others; when  *)
(* it has met others it notifies its own task again.                       *)

(* Mutant: the task does not notify itself.                                *)
LeaveAwaitSilently(met) ==
  /\ net' = "wait"
  /\ pending' = FALSE

LeaveAwait(met) ==
  /\ net' = "wait"
  /\ pending' = (met \cap LwipBits # {})

(* The time may be up just as the notification comes.                      *)
AwaitReturns ==
  /\ net = "await" /\ pending
  /\ seen' = seen \cup bits
  /\ bits' = bits \ {"STATUS_UPDATE"}
  /\ \/ LeaveAwait(seen')
     \/ "STATUS_UPDATE" \notin bits /\ net' = net /\ pending' = FALSE
  /\ UNCHANGED <<station, interface, connected, flag, target>>

AwaitTimesOut ==
  /\ net = "await" /\ ~pending
  /\ LeaveAwait(seen \cup bits)
  /\ UNCHANGED <<station, interface, bits, connected, hand>>

(* The wait of the outer loop: for any bit, or for 30 s.                   *)
WaitReturns ==
  /\ net = "wait" /\ pending
  /\ seen' = bits /\ flag' = link
  /\ bits' = {} /\ pending' = FALSE
  /\ net' = IF bits = {} THEN "top" ELSE "status"
  /\ UNCHANGED <<station, interface, connected, target>>

WaitTimesOut ==
  /\ net = "wait" /\ ~pending
  /\ seen' = bits /\ flag' = link
  /\ net' = IF bits = {} THEN "top" ELSE "status"
  /\ UNCHANGED <<station, interface, inbox, connected, target>>

(* vHandleMxStatusUpdate reads the status; the call that follows may come  *)
(* after another report.                                                   *)
ReadStatus ==
  /\ net = "status"
  /\ target' = (status \in Up)
  /\ net' = IF "STATUS_UPDATE" \in seen /\ status # prev THEN "link" ELSE "ip"
  /\ UNCHANGED <<station, interface, inbox, connected, seen, flag>>

HandleStatus ==
  /\ net = "link"
  /\ SetLink(target)
  /\ net' = "ip"
  /\ UNCHANGED <<station, connected, hand>>

HandleAddress ==
  /\ net = "ip"
  /\ connected' = (connected \/ "IP_CHANGE" \in seen)
  /\ net' = "chain"
  /\ UNCHANGED <<station, interface, inbox, hand>>

(* The else-if chain.                                                      *)
LinkIsUp   == "LINK_UP" \in seen /\ flag
LinkIsDown == "IFUP" \notin seen /\ ~LinkIsUp /\ "LINK_DOWN" \in seen /\ ~flag

HandleUp ==
  /\ net = "chain" /\ ~LinkIsDown
  /\ IF "IFUP" \in seen \/ LinkIsUp THEN vStartDhcp ELSE UNCHANGED dhcp
  /\ net' = "top"
  /\ UNCHANGED <<station, link, addr, inbox, connected, hand>>

HandleLinkDown ==
  /\ net = "chain" /\ LinkIsDown
  /\ vStopDhcp
  /\ net' = "clear"
  /\ UNCHANGED <<station, link, addr, inbox, connected, hand>>

vClearAddress ==
  /\ net = "clear"
  /\ SetAddress(FALSE)
  /\ net' = "offline"
  /\ UNCHANGED <<station, link, dhcp, connected, hand>>

ClearConnected ==
  /\ net = "offline"
  /\ connected' = FALSE
  /\ net' = "top"
  /\ UNCHANGED <<station, interface, inbox, hand>>

-----------------------------------------------------------------------------
(* The DHCP client gets an address.                                        *)
NotInABatch == net \in {"top", "connect", "await", "wait"}

DhcpBinds ==
  /\ dhcp = "search" /\ link /\ status \in Up
  /\ PatientServer => NotInABatch
  /\ dhcp' = "bound"
  /\ SetAddress(TRUE)
  /\ UNCHANGED <<station, link, connected, net, hand>>

-----------------------------------------------------------------------------
Router == RouterSetsLink \/ RouterNotifies

NetTask ==
  \/ Start \/ Top \/ ConnectFails \/ ConnectAccepted
  \/ AwaitReturns \/ AwaitTimesOut \/ WaitReturns \/ WaitTimesOut
  \/ ReadStatus \/ HandleStatus \/ HandleAddress
  \/ HandleUp \/ HandleLinkDown \/ vClearAddress \/ ClearConnected

Next == ModuleReports \/ Router \/ NetTask \/ DhcpBinds

Spec == Init /\ [][Next]_vars

(* The scheduler runs both tasks, time passes, and a DHCP server answers   *)
(* who goes on asking.                                                     *)
FairSpec == Spec /\ WF_vars(Router) /\ WF_vars(NetTask) /\ SF_vars(DhcpBinds)

-----------------------------------------------------------------------------
(* No event lies unnoticed while the task sleeps, also when the bits of    *)
(* lwIP come during the wait for the station: the sleep would end only     *)
(* after its 30 s (mx_netconn.c:131).                                      *)
NoEventStranded == net = "wait" /\ bits # {} => pending

(* When all reports are handled, the interface of a station that is up has *)
(* its link, although two tasks set it and the network task may be         *)
(* interrupted between its look at the status and the call                 *)
(* (mx_netconn.c:148).                                                     *)
StationUpHasLink ==
  net = "wait" /\ ~pending /\ router = "idle" => (status \in Up => link)

(* A station that stays up ends up with an address and the waiting tasks   *)
(* released, whatever came before (mx_netconn.c:524).                      *)
StationUpConnects ==
  <>[](status \in Up) => <>[](link /\ addr /\ connected)

(* Whoever waits for the network to be connected (mqtt_agent_task.c:1126)  *)
(* finds, when all events are handled, an interface with an address.       *)
ConnectedHasAddress ==
  net = "wait" /\ ~pending /\ router = "idle" => (connected => addr)
=============================================================================
