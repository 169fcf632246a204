----------------------------- MODULE WifiBridge ------------------------------
(***************************************************************************)
(* wifi_bridge.c: the station side of the Wi-Fi.  Its event handler is the *)
(* only writer of WIFI_STA_CONNECTED_BIT, which app_main, the MQTT and the *)
(* cloud bridge depend upon.  After a disconnection the handler sleeps     *)
(* five seconds in the event loop's task and asks to connect again.        *)
(*                                                                         *)
(* The access point of the house may go out of reach and come back; the    *)
(* module learns of it some time later.  The module's own access point     *)
(* keeps no state and is left out.                                         *)
(***************************************************************************)
EXTENDS Naturals

CONSTANT MaxFades   \* bound: times the access point goes out of reach

ASSUME FadesAssumption == MaxFades \in Nat

VARIABLES
  air,       \* the access point of the house is within reach
  sta,       \* "off", "connecting", "up" or "waiting" before the next attempt
  wifi_bit,  \* WIFI_STA_CONNECTED_BIT
  known,     \* the station was given a network
  fades

wifiVars == <<air, sta, wifi_bit, known, fades>>

WifiInit ==
  /\ air = TRUE
  /\ sta = "off"
  /\ wifi_bit = FALSE
  /\ known = FALSE
  /\ fades = 0

Reachable == sta = "up" /\ air

(* wifi_bridge_start_dual with a network, wifi_bridge_start_ap without;    *)
(* both run as station too, and STA_START connects.                        *)
StartWifi(provisioned) ==
  /\ sta' = "connecting"
  /\ known' = provisioned
  /\ UNCHANGED <<air, wifi_bit, fades>>

GotIp ==
  /\ sta = "connecting"
  /\ air /\ known
  /\ sta' = "up"
  /\ wifi_bit' = TRUE
  /\ UNCHANGED <<air, known, fades>>

(* Mutant: the handler does not ask again. *)
NoRetry == "off"

(* What the handler leaves behind: five seconds later it connects. *)
AfterDisconnect == "waiting"

(* STA_DISCONNECTED: an attempt failed, or the connection was lost. *)
Disconnected ==
  /\ \/ sta = "connecting" /\ ~(air /\ known)
     \/ sta = "up" /\ ~air
  /\ sta' = AfterDisconnect
  /\ wifi_bit' = FALSE
  /\ UNCHANGED <<air, known, fades>>

Reconnect ==
  /\ sta = "waiting"
  /\ sta' = "connecting"
  /\ UNCHANGED <<air, wifi_bit, known, fades>>

WifiReset == sta' = "off" /\ wifi_bit' = FALSE /\ known' = FALSE /\ UNCHANGED <<air, fades>>

Fade ==
  /\ air
  /\ fades < MaxFades
  /\ fades' = fades + 1
  /\ air' = FALSE
  /\ UNCHANGED <<sta, wifi_bit, known>>

Return ==
  /\ ~air
  /\ air' = TRUE
  /\ UNCHANGED <<sta, wifi_bit, known, fades>>

Station == GotIp \/ Disconnected \/ Reconnect
==============================================================================
