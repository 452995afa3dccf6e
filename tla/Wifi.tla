-------------------------------- MODULE Wifi --------------------------------
(***************************************************************************)
(* Wifi (application/network/wifi/wifi): update(), which the main task     *)
(* calls every tick, on the state it shares with the event handler.        *)
(*                                                                         *)
(* Every getState() and changeState() is a step of its own, so that the    *)
(* event task can run between any two of them; a getState() and what it    *)
(* decides are one step when nothing shared is touched in between.  The    *)
(* server is what ServerLife.tla says of it.                               *)
(***************************************************************************)
EXTENDS EvHandler

VARIABLES
    pc,         \* where the main task is in update(); "idle": between two updates
    result,     \* what the last update() returned: "Ok" or "Err"
    server, has_run

mainVars == <<pc, result, server, has_run>>
wifiVars == <<evVars, mainVars>>

Life == INSTANCE ServerLife

Pcs == {"idle", "init", "started", "set_initialized", "connect", "set_connecting",
        "start_server", "set_running", "server", "failed"}

WifiInit ==
    /\ EvInit
    /\ pc = "idle"
    /\ result = "Ok"
    /\ Life!LifeInit

Goto(next) == pc' = next /\ UNCHANGED result
ServerUnchanged == UNCHANGED <<server, has_run>>

\* update() returns.
Return(value) == pc' = "idle" /\ result' = value

\* The getState() of update() and its switch.
BeginUpdate ==
    /\ pc = "idle"
    /\ CASE m_state = "NotInitialized" -> Goto("init")
         [] m_state = "ReadyToConnect" -> Goto("connect")
         [] m_state = "Connected" -> Goto("start_server")
         [] m_state = "NetServerRunning" -> Goto("server")
         [] m_state = "Error" -> Return("Err")
         [] OTHER -> Return("Ok")
    /\ UNCHANGED evVars /\ ServerUnchanged

\* init() up to esp_wifi_start(), after which the station's events may come.
InitDriver ==
    /\ pc = "init"
    /\ station' = "idle"
    /\ Post("STA_START")
    /\ Goto("started")
    /\ UNCHANGED <<m_state, m_retry_num, netif>> /\ ServerUnchanged

InitDriverFails ==
    /\ pc = "init"
    /\ Goto("failed")
    /\ UNCHANGED evVars /\ ServerUnchanged

\* init(): "In case Event happens before", the state is looked at, then set.
CheckNotInitialized ==
    /\ pc = "started"
    /\ IF m_state = "NotInitialized" THEN Goto("set_initialized") ELSE Return("Ok")
    /\ UNCHANGED evVars /\ ServerUnchanged

SetInitialized ==
    /\ pc = "set_initialized"
    /\ changeState("Initialized")
    /\ Return("Ok")
    /\ UNCHANGED <<m_retry_num, station, netif, events>> /\ ServerUnchanged

\* connect(), which looks at the state again.
Connect ==
    /\ pc = "connect"
    /\ IF m_state = "ReadyToConnect" THEN EspWifiConnect /\ Goto("set_connecting")
       ELSE UNCHANGED station /\ Return("Ok")
    /\ UNCHANGED <<m_state, m_retry_num, netif, events>> /\ ServerUnchanged

ConnectFails ==
    /\ pc = "connect"
    /\ m_state = "ReadyToConnect"
    /\ Goto("failed")
    /\ UNCHANGED evVars /\ ServerUnchanged

\* Mutant: connect() leaves the state to the events.
SetConnectingNot ==
    /\ pc = "set_connecting"
    /\ Return("Ok")
    /\ UNCHANGED evVars /\ ServerUnchanged

SetConnecting ==
    /\ pc = "set_connecting"
    /\ changeState("Connecting")
    /\ Return("Ok")
    /\ UNCHANGED <<m_retry_num, station, netif, events>> /\ ServerUnchanged

\* startServer(), which looks at the state again.
StartServer ==
    /\ pc = "start_server"
    /\ m_state = "Connected"
    /\ Life!Start
    /\ Goto("set_running")
    /\ UNCHANGED evVars

StartServerNotReady ==
    /\ pc = "start_server"
    /\ m_state # "Connected"
    /\ Goto("failed")
    /\ UNCHANGED evVars /\ ServerUnchanged

\* Mutant: the state is not set after the start.
SetRunningNot ==
    /\ pc = "set_running"
    /\ Return("Ok")
    /\ UNCHANGED evVars /\ ServerUnchanged

SetRunning ==
    /\ pc = "set_running"
    /\ changeState("NetServerRunning")
    /\ Return("Ok")
    /\ UNCHANGED <<m_retry_num, station, netif, events>> /\ ServerUnchanged

\* m_server.update()
UpdateServer ==
    /\ pc = "server"
    /\ Life!Run \/ ServerUnchanged
    /\ Return("Ok")
    /\ UNCHANGED evVars

UpdateServerFails ==
    /\ pc = "server"
    /\ Life!Fail
    /\ Goto("failed")
    /\ UNCHANGED evVars

\* Mutant: the error is in the state, and is not returned.
SetErrorOnly ==
    /\ pc = "failed"
    /\ changeState("Error")
    /\ Return("Ok")
    /\ UNCHANGED <<m_retry_num, station, netif, events>> /\ ServerUnchanged

\* The error branches of update().
SetError ==
    /\ pc = "failed"
    /\ changeState("Error")
    /\ Return("Err")
    /\ UNCHANGED <<m_retry_num, station, netif, events>> /\ ServerUnchanged

\* The steps of update() that do not call the server.
OwnStep ==
    \/ BeginUpdate
    \/ InitDriver \/ InitDriverFails \/ CheckNotInitialized \/ SetInitialized
    \/ Connect \/ ConnectFails \/ SetConnecting
    \/ StartServerNotReady \/ SetRunning
    \/ SetError

WifiUpdate == OwnStep \/ StartServer \/ UpdateServer \/ UpdateServerFails

=============================================================================
