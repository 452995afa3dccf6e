------------------------------ MODULE EvHandler ------------------------------
(***************************************************************************)
(* EvHandler (application/network/wifi/ev_handler), the handler of Wi-Fi   *)
(* and IP events, with the state it shares with the main task              *)
(* (WifiStateHandler: each access is atomic, under a mutex).               *)
(*                                                                         *)
(* ESP-IDF is external: the station the driver runs, the network interface *)
(* that gets the address, and the default event loop, whose task calls the *)
(* handler for one event after the other.  Events of the access point      *)
(* change no state of the program.                                         *)
(***************************************************************************)
EXTENDS Integers, Sequences

CONSTANTS
    MAX_FAILURES,   \* how often the handler reconnects in a row
    StaticIp,       \* IpSetting of the station: StaticIp or Dhcp
    MaxEvents       \* bound on the events that wait in the event loop

ASSUME EvHandlerAssumption ==
    MAX_FAILURES \in Nat /\ StaticIp \in BOOLEAN /\ MaxEvents \in Nat \ {0}

WifiStates == {"NotInitialized", "Initialized", "ReadyToConnect", "Connecting", "SettingIp",
               "WaitingForIp", "Connected", "NetServerRunning", "Disconnected", "Error"}

Events == {"STA_START", "STA_CONNECTED", "STA_DISCONNECTED", "STA_GOT_IP", "STA_LOST_IP"}

VARIABLES
    m_state,        \* WifiStateHandler::m_state
    m_retry_num,
    station,        \* the driver's station; "busy": it was told to connect when it was not idle
    netif,          \* the interface of the station: "none", "addressing" or "up"
    events          \* what the event loop has still to give to the handler

evVars == <<m_state, m_retry_num, station, netif, events>>

EvInit ==
    /\ m_state = "NotInitialized"
    /\ m_retry_num = 0
    /\ station = "off"
    /\ netif = "none"
    /\ events = <<>>

changeState(state) == m_state' = state

Post(event) ==
    /\ Len(events) < MaxEvents
    /\ events' = Append(events, event)

\* esp_wifi_connect(), if it returns ESP_OK.
EspWifiConnect == station' = IF station = "idle" THEN "connecting" ELSE "busy"

-----------------------------------------------------------------------------
(* The driver and the network interface.                                   *)

Associate ==
    /\ station = "connecting"
    /\ station' = "connected"
    /\ Post("STA_CONNECTED")
    /\ UNCHANGED <<m_state, m_retry_num, netif>>

\* An attempt that fails, or a connection that is lost.
Disconnect ==
    /\ station \in {"connecting", "connected"}
    /\ station' = "idle"
    /\ Post("STA_DISCONNECTED")
    /\ UNCHANGED <<m_state, m_retry_num, netif>>

GetIp ==
    /\ netif = "addressing"
    /\ netif' = "up"
    /\ Post("STA_GOT_IP")
    /\ UNCHANGED <<m_state, m_retry_num, station>>

LoseIp ==
    /\ netif = "up"
    /\ netif' \in {"none", "addressing"}
    /\ Post("STA_LOST_IP")
    /\ UNCHANGED <<m_state, m_retry_num, station>>

Driver == Associate \/ Disconnect \/ GetIp \/ LoseIp

-----------------------------------------------------------------------------
(* wifiEventHandler() and ipEventHandler(), in the task of the event loop. *)
(* Each is one step: it has one access to the shared state, and what it    *)
(* tells the driver or the interface, which the main task does not look    *)
(* at, can be moved to it.                                                 *)

Take(event) ==
    /\ events # <<>>
    /\ Head(events) = event
    /\ events' = Tail(events)

\* Mutant: the handler connects, as it does after a disconnection.
HandleStaStartConnecting ==
    /\ Take("STA_START")
    /\ EspWifiConnect
    /\ changeState("ReadyToConnect")
    /\ UNCHANGED <<m_retry_num, netif>>

HandleStaStart ==
    /\ Take("STA_START")
    /\ changeState("ReadyToConnect")
    /\ UNCHANGED <<m_retry_num, station, netif>>

\* setStaIp(), with every call that may fail: if the DHCP client cannot be
\* stopped it gets an address, if the address cannot be set after that there is
\* none.  The state is the same.  (A DNS server that cannot be set: MainProgram.)
SetStaIp == netif' \in {"addressing", "none"}

\* With a static address setStaIp() sets it, with DHCP ESP-IDF asks for one.
HandleStaConnected ==
    /\ Take("STA_CONNECTED")
    /\ changeState(IF StaticIp THEN "SettingIp" ELSE "WaitingForIp")
    /\ IF StaticIp THEN SetStaIp ELSE netif' = "addressing"
    /\ UNCHANGED <<m_retry_num, station>>

\* Mutant: one attempt too many.
HandleStaDisconnectedOnceMore ==
    /\ Take("STA_DISCONNECTED")
    /\ m_retry_num <= MAX_FAILURES
    /\ EspWifiConnect
    /\ changeState("Connecting")
    /\ m_retry_num' = m_retry_num + 1
    /\ netif' = IF netif = "addressing" THEN "none" ELSE netif

HandleStaDisconnected ==
    /\ Take("STA_DISCONNECTED")
    /\ m_retry_num < MAX_FAILURES
    /\ EspWifiConnect
    /\ changeState("Connecting")
    /\ m_retry_num' = m_retry_num + 1
    /\ netif' = IF netif = "addressing" THEN "none" ELSE netif

\* esp_wifi_connect() returns an error: nothing is done about it.
ReconnectFails ==
    /\ Take("STA_DISCONNECTED")
    /\ m_retry_num < MAX_FAILURES
    /\ netif' = IF netif = "addressing" THEN "none" ELSE netif
    /\ UNCHANGED <<m_state, m_retry_num, station>>

GiveUp ==
    /\ Take("STA_DISCONNECTED")
    /\ m_retry_num >= MAX_FAILURES
    /\ changeState("Error")
    /\ netif' = IF netif = "addressing" THEN "none" ELSE netif
    /\ UNCHANGED <<m_retry_num, station>>

HandleGotIp ==
    /\ Take("STA_GOT_IP")
    /\ m_retry_num' = 0
    /\ changeState("Connected")
    /\ UNCHANGED <<station, netif>>

HandleLostIp ==
    /\ Take("STA_LOST_IP")
    /\ changeState("WaitingForIp")
    /\ UNCHANGED <<m_retry_num, station, netif>>

EventTask ==
    \/ HandleStaStart \/ HandleStaConnected \/ HandleStaDisconnected \/ ReconnectFails
    \/ GiveUp \/ HandleGotIp \/ HandleLostIp

-----------------------------------------------------------------------------

\* Every variable has a value of its kind.
EvTypeOK ==
    /\ m_state \in WifiStates
    /\ m_retry_num \in 0 .. MAX_FAILURES
    /\ station \in {"off", "idle", "connecting", "connected", "busy"}
    /\ netif \in {"none", "addressing", "up"}
    /\ events \in Seq(Events)
    /\ Len(events) <= MaxEvents

=============================================================================
