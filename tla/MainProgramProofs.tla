------------------------- MODULE MainProgramProofs -------------------------
(***************************************************************************)
(* Proofs about MainProgram, with the event task and the driver, for every *)
(* MAX_FAILURES, both ways to get an address, and event loops of every     *)
(* length.                                                                 *)
(***************************************************************************)
EXTENDS MainProgram, TLAPS

\* No attempt to connect has been made, and none is under way.
NotYetConnecting ==
    \/ pc \in {"started", "set_initialized"}
    \/ \E i \in DOMAIN events : events[i] = "STA_START"
    \/ m_state = "ReadyToConnect" /\ pc # "set_connecting"

\* AttemptsSound with what it needs to be inductive: until the first attempt the
\* event of the start is the only one there can be, and it comes once.
Inv ==
    /\ TypeOK
    /\ ConnectsWhenIdle
    /\ pc = "init" \/ (m_state = "NotInitialized" /\ pc = "idle") => station = "off"
    /\ pc \notin {"idle", "init", "failed"} => station # "off"
    /\ station = "off" => events = <<>> /\ m_state \in {"NotInitialized", "Error"} /\ netif = "none"
    /\ NotYetConnecting => /\ station \in {"off", "idle"} /\ netif = "none"
                           /\ \A i \in DOMAIN events : events[i] = "STA_START"
    /\ pc = "connect" => m_state = "ReadyToConnect"
    /\ pc = "server" => m_state # "NotInitialized"
    /\ m_state = "ReadyToConnect" => \A i \in DOMAIN events : events[i] # "STA_START"
    /\ \A i, j \in DOMAIN events :
            events[i] = events[j] /\ events[i] \in {"STA_START", "STA_DISCONNECTED"} => i = j
    /\ \A i \in DOMAIN events : events[i] = "STA_DISCONNECTED" => station = "idle"

LEMMA InvImplies == Inv => TypeOK /\ ConnectsWhenIdle /\ AttemptsSound
PROOF
<1>. SUFFICES ASSUME Inv PROVE AttemptsSound
    BY DEF Inv
<1>1. Queued("STA_START") # {} => NotYetConnecting
    BY DEF Queued, NotYetConnecting
<1>2. NotYetConnecting => station \in {"off", "idle"} /\ netif = "none" /\ Queued("STA_DISCONNECTED") = {}
    BY DEF Inv, Queued
<1>3. \A event \in {"STA_START", "STA_DISCONNECTED"} : \A i, j \in Queued(event) : i = j
    BY DEF Inv, Queued
<1>4. Queued("STA_DISCONNECTED") # {} => station = "idle"
    BY DEF Inv, Queued
<1>5. QED
    BY <1>1, <1>2, <1>3, <1>4 DEF Inv, AttemptsSound, NotYetConnecting

LEMMA InvInit == MainInit => Inv
PROOF
<1>. SUFFICES ASSUME MainInit PROVE Inv
    OBVIOUS
<1>1. events = <<>> /\ events \in Seq(Events) /\ Len(events) = 0 /\ DOMAIN events = {}
    BY DEF MainInit, WifiInit, EvInit
<1>2. /\ m_state = "NotInitialized" /\ station = "off" /\ netif = "none" /\ pc = "idle"
      /\ m_retry_num = 0 /\ result = "Ok" /\ server = "NotStarted" /\ has_run = FALSE
      /\ main_state = "Uninitialized" /\ event_loop = FALSE
    BY DEF MainInit, WifiInit, EvInit, Life!LifeInit
<1>3. TypeOK
    <2>1. has_run \in BOOLEAN /\ event_loop \in BOOLEAN
        BY <1>2, Zenon
    <2>2. EvTypeOK
        BY <1>1, <1>2, EvHandlerAssumption DEF EvTypeOK, WifiStates
    <2>3. pc \in Pcs /\ result \in {"Ok", "Err"} /\ main_state = "Uninitialized" /\ server = "NotStarted"
        BY <1>2 DEF Pcs
    <2>4. QED
        BY <2>1, <2>2, <2>3 DEF TypeOK
<1>4. QED
    BY <1>1, <1>2, <1>3 DEF Inv, ConnectsWhenIdle, NotYetConnecting

\* What the event loop holds after an event has been posted,
LEMMA Posted ==
    ASSUME TypeOK, NEW event \in Events, Post(event)
    PROVE  /\ events' \in Seq(Events) /\ Len(events') <= MaxEvents
           /\ DOMAIN events' = 1 .. Len(events) + 1
           /\ DOMAIN events = 1 .. Len(events) /\ Len(events) \in Nat
           /\ events'[Len(events) + 1] = event
           /\ \A i \in DOMAIN events : events'[i] = events[i]
PROOF
<1>1. events \in Seq(Events) /\ Len(events) \in Nat /\ Len(events) < MaxEvents /\ events' = Append(events, event)
    BY DEF TypeOK, EvTypeOK, Post
<1>2. QED
    BY <1>1, EvHandlerAssumption

\* and after the handler has been given one.
LEMMA Taken ==
    ASSUME TypeOK, NEW event, Take(event)
    PROVE  /\ events' \in Seq(Events) /\ Len(events') <= MaxEvents
           /\ 1 \in DOMAIN events /\ events[1] = event
           /\ \A i \in DOMAIN events' : i + 1 \in DOMAIN events /\ i \in Nat \ {0} /\ events'[i] = events[i + 1]
PROOF
<1>1. events \in Seq(Events) /\ events # <<>> /\ Len(events) \in Nat \ {0} /\ Len(events) <= MaxEvents
      /\ Head(events) = event /\ events' = Tail(events)
    BY DEF TypeOK, EvTypeOK, Take
<1>2. QED
    BY <1>1, EvHandlerAssumption

-----------------------------------------------------------------------------

\* A step of the main task that posts nothing and does not connect.
LEMMA MainSteps ==
    ASSUME Inv,
           \/ BeginUpdate \/ InitDriverFails \/ CheckNotInitialized \/ SetInitialized
           \/ ConnectFails \/ SetConnecting \/ StartServer \/ StartServerNotReady \/ SetRunning
           \/ UpdateServer \/ UpdateServerFails \/ SetError,
           main_state' \in {"Uninitialized", "Running", "Error"}, event_loop' \in BOOLEAN
    PROVE  Inv'
PROOF
<1>. USE DEF Inv, TypeOK, EvTypeOK, ConnectsWhenIdle, NotYetConnecting, Goto, Return,
             ServerUnchanged, evVars, changeState, WifiStates, Pcs
<1>1. CASE BeginUpdate
    BY <1>1 DEF BeginUpdate
<1>2. CASE InitDriverFails
    BY <1>2 DEF InitDriverFails
<1>3. CASE CheckNotInitialized
    BY <1>3 DEF CheckNotInitialized
<1>4. CASE SetInitialized
    BY <1>4 DEF SetInitialized
<1>5. CASE ConnectFails
    BY <1>5 DEF ConnectFails
<1>6. CASE SetConnecting
    BY <1>6 DEF SetConnecting
<1>7. CASE StartServer
    BY <1>7 DEF StartServer, Life!Start
<1>8. CASE StartServerNotReady
    BY <1>8 DEF StartServerNotReady
<1>9. CASE SetRunning
    BY <1>9 DEF SetRunning
<1>10. CASE UpdateServer
    <2>1. has_run' \in BOOLEAN /\ server' \in {"NotStarted", "Starting", "Running", "Error"}
        BY <1>10, Zenon DEF UpdateServer, Life!Run
    <2>2. pc' = "idle" /\ result' = "Ok" /\ UNCHANGED evVars /\ pc = "server"
        BY <1>10 DEF UpdateServer
    <2>. HIDE DEF TypeOK
    <2>3. TypeOK'
        <3>1. EvTypeOK' /\ pc' \in Pcs /\ result' \in {"Ok", "Err"}
            BY <2>2 DEF TypeOK
        <3>2. QED
            BY <2>1, <3>1, Zenon DEF TypeOK
    <2>4. QED
        BY <2>2, <2>3
<1>11. CASE UpdateServerFails
    BY <1>11 DEF UpdateServerFails, Life!Fail
<1>12. CASE SetError
    BY <1>12 DEF SetError
<1>13. QED
    BY <1>1, <1>2, <1>3, <1>4, <1>5, <1>6, <1>7, <1>8, <1>9, <1>10, <1>11, <1>12

\* The two steps of the main task that the station notices.
LEMMA StationSteps ==
    ASSUME Inv, InitDriver \/ Connect,
           main_state' \in {"Uninitialized", "Running", "Error"}, event_loop' \in BOOLEAN
    PROVE  Inv'
PROOF
<1>. USE DEF Inv, TypeOK, EvTypeOK, ConnectsWhenIdle, NotYetConnecting, Goto, Return,
             ServerUnchanged, WifiStates, Pcs
<1>1. CASE InitDriver
    <2>1. /\ pc = "init" /\ station = "off" /\ events = <<>> /\ netif = "none"
          /\ m_state \in {"NotInitialized", "Error"} /\ Len(events) = 0
        BY <1>1 DEF InitDriver
    <2>2. /\ events' \in Seq(Events) /\ Len(events') <= MaxEvents
          /\ DOMAIN events' = 1 .. 1 /\ events'[1] = "STA_START"
        BY <1>1, <2>1, Posted DEF InitDriver, Events
    <2>3. /\ pc' = "started" /\ station' = "idle"
          /\ UNCHANGED <<result, m_state, m_retry_num, netif, server, has_run>>
        BY <1>1 DEF InitDriver
    <2>4. \A i, j \in DOMAIN events' : i = j /\ events'[i] = "STA_START"
        BY <2>2
    <2>5. QED
        BY <2>1, <2>2, <2>3, <2>4
<1>2. CASE Connect
    <2>1. m_state = "ReadyToConnect" /\ pc = "connect" /\ station = "idle" /\ DOMAIN events = {}
        BY <1>2 DEF Connect
    <2>2. /\ pc' = "set_connecting" /\ station' = "connecting"
          /\ UNCHANGED <<result, m_state, m_retry_num, netif, events, server, has_run>>
        BY <1>2, <2>1 DEF Connect, EspWifiConnect
    <2>3. ~NotYetConnecting'
        BY <2>1, <2>2
    <2>4. QED
        BY <2>1, <2>2, <2>3
<1>3. QED
    BY <1>1, <1>2

\* The driver only posts, and only when an attempt has been made.
LEMMA DriverSteps ==
    ASSUME Inv, DriverTask
    PROVE  Inv'
PROOF
<1>. USE DEF Inv, TypeOK, EvTypeOK, ConnectsWhenIdle, NotYetConnecting, mainVars
<1>1. UNCHANGED <<pc, result, server, has_run, main_state, event_loop, m_state, m_retry_num>>
    BY DEF DriverTask, Driver, Associate, Disconnect, GetIp, LoseIp
<1>2. ~NotYetConnecting /\ station # "off"
    BY DEF DriverTask, Driver, Associate, Disconnect, GetIp, LoseIp
<1>3. PICK event \in Events \ {"STA_START"} :
        /\ Post(event)
        /\ event = "STA_DISCONNECTED" => station \in {"connecting", "connected"} /\ station' = "idle"
        /\ event # "STA_DISCONNECTED" =>
                station' = station \/ (station = "connecting" /\ station' = "connected")
    BY DEF DriverTask, Driver, Associate, Disconnect, GetIp, LoseIp, Events
<1>4. netif' \in {"none", "addressing", "up"} /\ station' \in {"idle", "connecting", "connected"}
    BY <1>2, <1>3 DEF DriverTask, Driver, Associate, Disconnect, GetIp, LoseIp
<1>5. /\ events' \in Seq(Events) /\ Len(events') <= MaxEvents
      /\ DOMAIN events' = 1 .. Len(events) + 1
      /\ DOMAIN events = 1 .. Len(events) /\ Len(events) \in Nat
      /\ events'[Len(events) + 1] = event
      /\ \A i \in DOMAIN events : events'[i] = events[i]
    BY <1>3, Posted
<1>6. \A i \in DOMAIN events' : i \in DOMAIN events \/ i = Len(events) + 1
    BY <1>5
<1>7. \A i \in DOMAIN events' : events'[i] # "STA_START"
    BY <1>2, <1>3, <1>5, <1>6
<1>8. ~NotYetConnecting'
    BY <1>1, <1>2, <1>7
<1>9. \A i \in DOMAIN events' : events'[i] = "STA_DISCONNECTED" => station' = "idle"
    BY <1>3, <1>5, <1>6
<1>10. \A i, j \in DOMAIN events' :
            events'[i] = events'[j] /\ events'[i] = "STA_DISCONNECTED" => i = j
    BY <1>3, <1>5, <1>6
<1>11. QED
    BY <1>1, <1>2, <1>4, <1>5, <1>7, <1>8, <1>9, <1>10

\* Taking an event leaves every other where it was.
LEMMA EventSteps ==
    ASSUME Inv, EventLoop
    PROVE  Inv'
PROOF
<1>. USE DEF Inv, TypeOK, EvTypeOK, ConnectsWhenIdle, NotYetConnecting, mainVars
<1>1. UNCHANGED <<pc, result, server, has_run, main_state, event_loop>>
    BY DEF EventLoop
<1>2. PICK event \in Events : Take(event)
    BY DEF EventLoop, EventTask, HandleStaStart, HandleStaConnected, HandleStaDisconnected,
           ReconnectFails, GiveUp, HandleGotIp, HandleLostIp, Events
<1>3. /\ events' \in Seq(Events) /\ Len(events') <= MaxEvents
      /\ 1 \in DOMAIN events /\ events[1] = event
      /\ \A i \in DOMAIN events' : i + 1 \in DOMAIN events /\ i \in Nat \ {0} /\ events'[i] = events[i + 1]
    BY <1>2, Taken
<1>4. events # <<>> /\ station # "off"
    BY <1>3
<1>5. /\ \A i, j \in DOMAIN events' :
            events'[i] = events'[j] /\ events'[i] \in {"STA_START", "STA_DISCONNECTED"} => i = j
      /\ \A i \in DOMAIN events' : events'[i] = "STA_DISCONNECTED" => station = "idle" /\ event # "STA_DISCONNECTED"
      /\ \A i \in DOMAIN events' : events'[i] = "STA_START" => event # "STA_START"
    BY <1>3
<1>6. (\E i \in DOMAIN events' : events'[i] = "STA_START") => NotYetConnecting
    BY <1>3
<1>7. NotYetConnecting => event = "STA_START" /\ \A i \in DOMAIN events' : events'[i] = "STA_START"
    BY <1>3
<1>8. CASE HandleStaStart
    <2>1. event = "STA_START"
        BY <1>2, <1>8 DEF HandleStaStart, Take
    <2>2. \A i \in DOMAIN events' : events'[i] # "STA_START"
        BY <1>5, <2>1
    <2>3. NotYetConnecting
        BY <1>3, <2>1
    <2>4. m_state' = "ReadyToConnect" /\ UNCHANGED <<m_retry_num, station, netif>>
        BY <1>8 DEF HandleStaStart, changeState
    <2>5. DOMAIN events' = {}
        BY <1>7, <2>2, <2>3
    <2>6. QED
        BY <1>1, <1>3, <1>4, <2>3, <2>4, <2>5 DEF WifiStates
<1>9. CASE ~HandleStaStart
    <2>1. event # "STA_START"
        BY <1>2, <1>9 DEF EventLoop, EventTask, Take, HandleStaStart, HandleStaConnected,
                HandleStaDisconnected, ReconnectFails, GiveUp, HandleGotIp, HandleLostIp
    <2>2. ~NotYetConnecting /\ \A i \in DOMAIN events' : events'[i] # "STA_START"
        BY <1>6, <1>7, <2>1
    <2>3. pc # "init" /\ pc # "connect"
        BY <1>4, <2>2
    <2>4. /\ m_state' \in WifiStates
          /\ m_state' = m_state \/ m_state' \notin {"NotInitialized", "ReadyToConnect"}
          /\ netif' \in {"none", "addressing", "up"}
          /\ m_retry_num' \in 0 .. MAX_FAILURES
        BY <1>9, EvHandlerAssumption DEF EventLoop, EventTask, HandleStaStart, HandleStaConnected,
                SetStaIp, HandleStaDisconnected, ReconnectFails, GiveUp, HandleGotIp, HandleLostIp,
                changeState, WifiStates
    <2>5. \/ station' = station
          \/ station = "idle" /\ station' = "connecting" /\ event = "STA_DISCONNECTED"
        <3>1. event = "STA_DISCONNECTED" => station = "idle"
            BY <1>3
        <3>2. QED
            BY <1>2, <1>9, <3>1 DEF EventLoop, EventTask, HandleStaStart, HandleStaConnected,
                HandleStaDisconnected, ReconnectFails, GiveUp, HandleGotIp, HandleLostIp,
                Take, EspWifiConnect
    <2>6. ~NotYetConnecting'
        BY <1>1, <2>2, <2>4
    <2>7. m_state = "NotInitialized" => pc # "idle"
        BY <1>4
    <2>8. QED
        BY <1>1, <1>3, <1>4, <1>5, <2>2, <2>3, <2>4, <2>5, <2>6, <2>7
<1>10. QED
    BY <1>8, <1>9

LEMMA InvNext ==
    ASSUME Inv, [Next]_vars
    PROVE  Inv'
PROOF
<1>1. CASE Setup
    BY <1>1 DEF Setup, wifiVars, evVars, mainVars, Inv, TypeOK, EvTypeOK, ConnectsWhenIdle, NotYetConnecting
<1>2. CASE UNCHANGED vars
    BY <1>2 DEF vars, wifiVars, evVars, mainVars, Inv, TypeOK, EvTypeOK, ConnectsWhenIdle, NotYetConnecting
<1>3. CASE Update
    <2>1. main_state' \in {"Uninitialized", "Running", "Error"} /\ event_loop' \in BOOLEAN /\ WifiUpdate
        BY <1>3 DEF Update, UpdateBy, Inv, TypeOK
    <2>2. QED
        BY <2>1, MainSteps, StationSteps DEF WifiUpdate, OwnStep
<1>4. CASE EventLoop
    BY <1>4, EventSteps
<1>5. CASE DriverTask
    BY <1>5, DriverSteps
<1>6. CASE SetDnsFails
    <2>1. MainInit'
        BY <1>6 DEF SetDnsFails, MainInit, WifiInit, EvInit, Life!LifeInit
    <2>2. MainInit' => Inv'
        BY InvInit, PTL
    <2>3. QED
        BY <2>1, <2>2
<1>7. QED
    BY <1>1, <1>2, <1>3, <1>4, <1>5, <1>6 DEF Next, MainTask, SetupAgain, Stopped

THEOREM Invariance == Spec => []Inv
PROOF
    BY InvInit, InvNext, PTL DEF Spec

\* For all constants every variable has a value of its kind.
THEOREM MainTypeCorrect == Spec => []TypeOK
PROOF
    BY Invariance, InvImplies, PTL

\* For all constants, the main task (wifi.cpp:207) and the event handler
\* (ev_handler.cpp:83) never call esp_wifi_connect() on a station that is not idle.
THEOREM ConnectsOnlyWhenIdle == Spec => []ConnectsWhenIdle
PROOF
    BY Invariance, InvImplies, PTL

\* For all constants, no attempt is under way before the main task has made the
\* first, and at most one disconnection is still to be handled.
THEOREM AttemptsAreSound == Spec => []AttemptsSound
PROOF
    BY Invariance, InvImplies, PTL

-----------------------------------------------------------------------------
(* What the liveness properties rest on                                    *)

\* An error of the server is on its way out of update(), or has ended the program.
ErrorReported ==
    server = "Error" => main_state = "Error" \/ (pc = "failed" /\ main_state = "Running")

\* No event of the event task comes between an error of the server and the end
\* of the program (wifi.cpp:295, program.cpp:160): the next step of the main task
\* is that end, and the server is not used in between.  With fairness of the main
\* task alone, this is ServerErrorEndsProgram.
THEOREM ServerErrorIsReported ==
    Spec => /\ []ErrorReported
            /\ [][server = "Error" /\ main_state # "Error" =>
                    UNCHANGED <<pc, main_state, server>> \/ main_state' = "Error" \/ SetDnsFails]_vars
PROOF
<1>. USE DEF Goto, Return, ServerUnchanged, wifiVars, evVars, mainVars
<1>1. MainInit => ErrorReported
    BY DEF MainInit, WifiInit, Life!LifeInit, ErrorReported
<1>2. ASSUME ErrorReported, [Next]_vars
      PROVE  /\ ErrorReported'
             /\ server = "Error" /\ main_state # "Error" =>
                    UNCHANGED <<pc, main_state, server>> \/ main_state' = "Error" \/ SetDnsFails
    <2>1. CASE Setup \/ SetupAgain \/ Stopped \/ UNCHANGED vars
        <3>1. /\ UNCHANGED <<pc, server>>
              /\ UNCHANGED main_state \/ main_state = "Uninitialized"
            BY <2>1 DEF Setup, SetupAgain, Stopped, vars
        <3>2. QED
            BY <1>2, <3>1 DEF ErrorReported
    <2>2. CASE EventLoop \/ DriverTask
        BY <1>2, <2>2 DEF EventLoop, DriverTask, ErrorReported
    <2>3. CASE SetDnsFails
        BY <2>3 DEF SetDnsFails, ErrorReported
    <2>4. CASE Update
        <3>1. main_state = "Running" /\ main_state' = IF pc' = "idle" /\ result' = "Err" THEN "Error" ELSE "Running"
            BY <2>4 DEF Update, UpdateBy
        <3>2. CASE SetError
            BY <3>1, <3>2 DEF SetError, ErrorReported
        <3>3. CASE UpdateServerFails
            BY <1>2, <3>1, <3>3 DEF UpdateServerFails, Life!Fail, ErrorReported
        <3>4. CASE ~SetError /\ ~UpdateServerFails
            <4>1. server' = "Error" => server = "Error"
                BY <2>4, <3>4 DEF Update, UpdateBy, WifiUpdate, OwnStep, BeginUpdate, InitDriver, InitDriverFails,
                    CheckNotInitialized, SetInitialized, Connect, ConnectFails, SetConnecting,
                    StartServer, StartServerNotReady, SetRunning, UpdateServer, Life!Start, Life!Run
            <4>2. pc # "failed"
                BY <2>4, <3>4 DEF Update, UpdateBy, WifiUpdate, OwnStep, BeginUpdate, InitDriver, InitDriverFails,
                    CheckNotInitialized, SetInitialized, Connect, ConnectFails, SetConnecting,
                    StartServer, StartServerNotReady, SetRunning, UpdateServer
            <4>3. server # "Error"
                BY <1>2, <3>1, <4>2 DEF ErrorReported
            <4>4. QED
                BY <4>1, <4>3 DEF ErrorReported
        <3>5. QED
            BY <3>2, <3>3, <3>4
    <2>5. QED
        BY <1>2, <2>1, <2>2, <2>3, <2>4 DEF Next, MainTask
<1>3. QED
    BY <1>1, <1>2, PTL DEF Spec

\* The address is up: a loss that is still to be handled is not the last word.
LossIsFollowed ==
    netif = "up" => \A i \in DOMAIN events : events[i] = "STA_LOST_IP" =>
                        \E j \in DOMAIN events : i < j /\ events[j] = "STA_GOT_IP"

\* A station that has its address is known to have it, or will be: an event is
\* still to be handled that says so, or takes the address away; or the program has
\* ended.
AddressNoticed ==
    station = "connected" /\ netif = "up" =>
        \/ \E i \in DOMAIN events : events[i] \in {"STA_CONNECTED", "STA_GOT_IP"}
        \/ m_state \in {"Connected", "NetServerRunning"}
        \/ main_state = "Error"

LEMMA LossInit == MainInit => LossIsFollowed /\ AddressNoticed
PROOF
    BY DEF MainInit, WifiInit, EvInit, LossIsFollowed, AddressNoticed

\* The main task posts nothing but the start, and does not touch the interface.
LEMMA MainKeepsEvents ==
    ASSUME Inv, Setup \/ SetupAgain \/ Update \/ Stopped
    PROVE  /\ netif' = netif
           /\ events' = events \/ InitDriver
           /\ station' = station \/ station' \in {"idle", "connecting", "busy"}
PROOF
<1>. USE DEF Goto, Return, wifiVars, evVars
<1>1. CASE Setup \/ SetupAgain \/ Stopped
    BY <1>1 DEF Setup, SetupAgain, Stopped, vars
<1>2. CASE Update
    BY <1>2 DEF Update, UpdateBy, WifiUpdate, OwnStep, BeginUpdate, InitDriver, InitDriverFails, CheckNotInitialized,
            SetInitialized, Connect, EspWifiConnect, ConnectFails, SetConnecting, StartServer,
            StartServerNotReady, SetRunning, UpdateServer, UpdateServerFails, SetError
<1>3. QED
    BY <1>1, <1>2

LEMMA LossNext ==
    ASSUME Inv, LossIsFollowed, [Next]_vars
    PROVE  LossIsFollowed'
PROOF
<1>1. CASE Setup \/ SetupAgain \/ Update \/ Stopped
    <2>1. CASE InitDriver
        <3>1. pc = "init" /\ netif' = netif
            BY <2>1 DEF InitDriver
        <3>2. netif = "none"
            BY <3>1 DEF Inv
        <3>3. QED
            BY <3>1, <3>2 DEF LossIsFollowed
    <2>2. CASE ~InitDriver
        BY <1>1, <2>2, MainKeepsEvents DEF LossIsFollowed
    <2>3. QED
        BY <2>1, <2>2
<1>2. CASE DriverTask
    <2>1. PICK event \in Events \ {"STA_START"} :
            /\ Post(event)
            /\ netif' = "up" => (netif = "up" /\ event # "STA_LOST_IP") \/ event = "STA_GOT_IP"
        BY <1>2 DEF DriverTask, Driver, Associate, Disconnect, GetIp, LoseIp, Events
    <2>2. /\ DOMAIN events' = 1 .. Len(events) + 1
          /\ DOMAIN events = 1 .. Len(events) /\ Len(events) \in Nat
          /\ events'[Len(events) + 1] = event
          /\ \A i \in DOMAIN events : events'[i] = events[i]
        BY <2>1, Posted DEF Inv
    <2>3. CASE event = "STA_GOT_IP"
        BY <2>2, <2>3 DEF LossIsFollowed
    <2>4. CASE event # "STA_GOT_IP"
        <3>. SUFFICES ASSUME netif' = "up", NEW i \in DOMAIN events', events'[i] = "STA_LOST_IP"
                      PROVE  \E j \in DOMAIN events' : i < j /\ events'[j] = "STA_GOT_IP"
            BY DEF LossIsFollowed
        <3>1. netif = "up" /\ i \in DOMAIN events /\ events[i] = "STA_LOST_IP"
            BY <2>1, <2>2, <2>4
        <3>2. PICK j \in DOMAIN events : i < j /\ events[j] = "STA_GOT_IP"
            BY <3>1 DEF LossIsFollowed
        <3>3. j \in DOMAIN events' /\ events'[j] = "STA_GOT_IP"
            BY <2>2, <3>2
        <3>4. QED
            BY <3>2, <3>3
    <2>5. QED
        BY <2>3, <2>4
<1>3. CASE EventLoop
    <2>1. PICK event : Take(event)
        BY <1>3 DEF EventLoop, EventTask, HandleStaStart, HandleStaConnected, HandleStaDisconnected,
               ReconnectFails, GiveUp, HandleGotIp, HandleLostIp
    <2>2. /\ DOMAIN events = 1 .. Len(events) /\ DOMAIN events' = 1 .. Len(events) - 1 /\ Len(events) \in Nat
          /\ \A i \in DOMAIN events' : events'[i] = events[i + 1]
        BY <2>1 DEF Inv, TypeOK, EvTypeOK, Take
    <2>3. netif' = "up" => netif = "up"
        BY <1>3 DEF EventLoop, EventTask, HandleStaStart, HandleStaConnected, HandleStaDisconnected,
               ReconnectFails, GiveUp, HandleGotIp, HandleLostIp, SetStaIp
    <2>4. ASSUME netif' = "up", NEW i \in DOMAIN events', events'[i] = "STA_LOST_IP"
          PROVE  \E j \in DOMAIN events' : i < j /\ events'[j] = "STA_GOT_IP"
        <3>1. i + 1 \in DOMAIN events /\ events[i + 1] = "STA_LOST_IP" /\ i \in Nat
            BY <2>2, <2>4
        <3>2. PICK j \in DOMAIN events : i + 1 < j /\ events[j] = "STA_GOT_IP"
            BY <2>3, <2>4, <3>1 DEF LossIsFollowed
        <3>3. j - 1 \in DOMAIN events' /\ i < j - 1
            BY <2>2, <3>1, <3>2
        <3>4. events'[j - 1] = "STA_GOT_IP"
            BY <2>2, <3>2, <3>3
        <3>5. QED
            BY <3>3, <3>4
    <2>5. QED
        BY <2>4 DEF LossIsFollowed
<1>4. CASE SetDnsFails
    BY <1>4 DEF SetDnsFails, LossIsFollowed
<1>5. CASE UNCHANGED vars
    BY <1>5 DEF vars, wifiVars, evVars, LossIsFollowed
<1>6. QED
    BY <1>1, <1>2, <1>3, <1>4, <1>5 DEF Next, MainTask

\* The main task forgets nothing, but for what connect() sets too late.
LEMMA MainKeepsAddress ==
    ASSUME Inv, AddressNoticed, ~AddressNoticed', MainTask
    PROVE  SetConnecting /\ m_state # "ReadyToConnect"
PROOF
<1>1. /\ station' = "connected" /\ netif' = "up" /\ main_state' # "Error"
      /\ m_state' \notin {"Connected", "NetServerRunning"}
      /\ \A i \in DOMAIN events' : events'[i] \notin {"STA_CONNECTED", "STA_GOT_IP"}
    BY DEF AddressNoticed
<1>2. ~InitDriver
    BY <1>1 DEF InitDriver
<1>3. netif' = netif /\ events' = events /\ station' = station
    BY <1>1, <1>2, MainKeepsEvents DEF MainTask
<1>4. main_state # "Error"
    BY <1>1 DEF MainTask, Setup, SetupAgain, Update, UpdateBy, Stopped, vars
<1>5. m_state \in {"Connected", "NetServerRunning"}
    BY <1>1, <1>3, <1>4 DEF AddressNoticed
<1>6. Update
    BY <1>1, <1>5 DEF MainTask, Setup, SetupAgain, Stopped, vars, wifiVars, evVars
<1>7. ~SetInitialized
    BY <1>1, <1>3 DEF SetInitialized, Inv, NotYetConnecting
<1>8. ~SetError
    BY <1>1, <1>6 DEF SetError, Update, UpdateBy, Return
<1>9. QED
    BY <1>1, <1>2, <1>5, <1>6, <1>7, <1>8 DEF Update, UpdateBy, WifiUpdate, OwnStep, BeginUpdate, InitDriverFails,
        CheckNotInitialized, Connect, ConnectFails, SetConnecting, StartServer, StartServerNotReady,
        SetRunning, UpdateServer, UpdateServerFails, evVars, changeState

\* The driver posts what it does, and the handler does not overlook it.
LEMMA EventsKeepAddress ==
    ASSUME Inv, LossIsFollowed, AddressNoticed, DriverTask \/ EventLoop
    PROVE  AddressNoticed'
PROOF
<1>. SUFFICES ASSUME station' = "connected", netif' = "up", main_state' # "Error",
                     m_state' \notin {"Connected", "NetServerRunning"},
                     \A i \in DOMAIN events' : events'[i] \notin {"STA_CONNECTED", "STA_GOT_IP"}
              PROVE  FALSE
    BY DEF AddressNoticed
<1>1. CASE DriverTask
    <2>1. m_state' = m_state /\ main_state' = main_state
        BY <1>1 DEF DriverTask, Driver, Associate, Disconnect, GetIp, LoseIp
    <2>2. PICK event \in {"STA_CONNECTED", "STA_GOT_IP"} : Post(event)
        BY <1>1 DEF DriverTask, Driver, Associate, Disconnect, GetIp, LoseIp
    <2>3. Len(events) + 1 \in DOMAIN events' /\ events'[Len(events) + 1] = event
        BY <2>2, Posted DEF Inv, Events
    <2>4. QED
        BY <2>3
<1>2. CASE EventLoop
    <2>1. PICK event : Take(event)
        BY <1>2 DEF EventLoop, EventTask, HandleStaStart, HandleStaConnected, HandleStaDisconnected,
               ReconnectFails, GiveUp, HandleGotIp, HandleLostIp
    <2>2. /\ DOMAIN events = 1 .. Len(events) /\ DOMAIN events' = 1 .. Len(events) - 1 /\ Len(events) \in Nat \ {0}
          /\ events[1] = event
          /\ \A i \in DOMAIN events' : events'[i] = events[i + 1]
        BY <2>1 DEF Inv, TypeOK, EvTypeOK, Take
    <2>3. event # "STA_DISCONNECTED"
        <3>1. event = "STA_DISCONNECTED" => station = "idle"
            BY <2>2 DEF Inv
        <3>2. QED
            BY <1>2, <2>1, <3>1 DEF EventLoop, EventTask, HandleStaStart, HandleStaConnected,
               HandleStaDisconnected, ReconnectFails, GiveUp, HandleGotIp, HandleLostIp, Take, EspWifiConnect
    <2>4. ~HandleStaConnected /\ ~HandleGotIp
        BY DEF HandleStaConnected, HandleGotIp, SetStaIp, changeState
    <2>5. HandleStaStart \/ HandleLostIp
        BY <1>2, <2>1, <2>3, <2>4 DEF EventLoop, EventTask, HandleStaDisconnected, ReconnectFails, GiveUp, Take
    <2>6. station = "connected" /\ netif = "up"
        BY <2>5 DEF HandleStaStart, HandleLostIp
    <2>7. ~HandleStaStart
        <3>1. SUFFICES ASSUME HandleStaStart PROVE FALSE
            OBVIOUS
        <3>2. event = "STA_START"
            BY <2>1, <3>1 DEF HandleStaStart, Take
        <3>3. NotYetConnecting
            BY <2>2, <3>2 DEF NotYetConnecting
        <3>4. QED
            BY <2>6, <3>3 DEF Inv
    <2>8. event = "STA_LOST_IP"
        BY <2>1, <2>5, <2>7 DEF HandleLostIp, Take
    <2>9. PICK j \in DOMAIN events : 1 < j /\ events[j] = "STA_GOT_IP"
        BY <2>2, <2>6, <2>8 DEF LossIsFollowed
    <2>10. j - 1 \in DOMAIN events' /\ (j - 1) + 1 = j
        BY <2>2, <2>9
    <2>11. events'[j - 1] = "STA_GOT_IP"
        BY <2>2, <2>9, <2>10
    <2>12. QED
        BY <2>10, <2>11
<1>3. QED
    BY <1>1, <1>2

LEMMA AddressStep ==
    ASSUME Inv, LossIsFollowed, AddressNoticed, [Next]_vars
    PROVE  AddressNoticed' \/ (SetConnecting /\ m_state # "ReadyToConnect")
PROOF
<1>1. CASE MainTask
    BY <1>1, MainKeepsAddress
<1>2. CASE DriverTask \/ EventLoop
    BY <1>2, EventsKeepAddress
<1>3. CASE SetDnsFails
    BY <1>3 DEF SetDnsFails, AddressNoticed
<1>4. CASE UNCHANGED vars
    BY <1>4 DEF vars, wifiVars, evVars, AddressNoticed
<1>5. QED
    BY <1>1, <1>2, <1>3, <1>4 DEF Next

LEMMA LossInvariance == Spec => []LossIsFollowed
PROOF
<1>1. Inv /\ LossIsFollowed /\ [Next]_vars => LossIsFollowed'
    BY LossNext
<1>2. QED
    BY Invariance, LossInit, <1>1, PTL DEF Spec

\* There is one step by which the program can lose the address of its station for
\* good, the end of connect(), when it writes Connecting over what the event task
\* has made of the state since esp_wifi_connect() (wifi.cpp:209).  No order of
\* events does it, and neither does what update() sets after a start of the server
\* or after it has failed.
THEOREM OnlyConnectLosesAddress ==
    Spec => [][AddressNoticed /\ ~AddressNoticed' => SetConnecting /\ m_state # "ReadyToConnect"]_vars
PROOF
<1>1. Inv /\ LossIsFollowed /\ [Next]_vars =>
        [AddressNoticed /\ ~AddressNoticed' => SetConnecting /\ m_state # "ReadyToConnect"]_vars
    BY AddressStep
<1>2. QED
    BY Invariance, LossInvariance, <1>1, PTL DEF Spec

\* So with a driver slower than connect(), which AddressIsServed supposes, the
\* address is never lost: with fairness the server is then served, as that
\* property says.
THEOREM SlowDriverKeepsAddress ==
    Spec /\ [](pc = "set_connecting" => m_state = "ReadyToConnect") => []AddressNoticed
PROOF
<1>1. Inv /\ LossIsFollowed /\ AddressNoticed /\ [Next]_vars /\ (pc = "set_connecting" => m_state = "ReadyToConnect")
        => AddressNoticed'
    BY AddressStep DEF SetConnecting
<1>2. QED
    BY Invariance, LossInvariance, LossInit, <1>1, PTL DEF Spec

=============================================================================
