----------------------------- MODULE WifiServer -----------------------------
(***************************************************************************)
(* The program with the server itself: MainProgram, where every call of    *)
(* Wifi to its m_server is the step of NetServer, sockets and all, instead *)
(* of the promise in ServerLife.  m_state is the server's, wifi_state that *)
(* of Wifi.  The clients of a running server are left out, as in NetServer *)
(* (RunningServer has them), and so is the camera.                         *)
(***************************************************************************)
EXTENDS NetServer, Sequences

CONSTANTS MAX_FAILURES, StaticIp, MaxEvents     \* see EvHandler

VARIABLES
    wifi_state,         \* WifiStateHandler::m_state
    m_retry_num, station, netif, events, pc, result, main_state, event_loop

programVars == <<wifi_state, m_retry_num, station, netif, events, pc, result, main_state, event_loop>>
allVars == <<serverVars, programVars>>

\* MainProgram sees of the server what ServerLife does, as in IsServerLife.
Main == INSTANCE MainProgram WITH
            m_state <- wifi_state,
            server <- IF m_state \in {"Uninitialized", "SocketsReady"} THEN "Starting" ELSE m_state,
            has_run <- running_timers # {}

ProgramInit == ServerInit /\ Main!MainInit

\* m_server.start(), in Wifi::startServer().
CallStart ==
    /\ pc = "start_server"
    /\ wifi_state = "Connected"
    /\ StartServer
    /\ Main!Goto("set_running")
    /\ UNCHANGED <<wifi_state, m_retry_num, station, netif, events>>

\* m_server.update(), in Wifi::update(): it returns an error when it goes to Error.
CallUpdate ==
    /\ pc = "server"
    /\ Update
    /\ IF m_state # "Error" /\ m_state' = "Error" THEN Main!Goto("failed") ELSE Main!Return("Ok")
    /\ UNCHANGED <<wifi_state, m_retry_num, station, netif, events>>

ServerCall == Main!UpdateBy(CallStart) \/ Main!UpdateBy(CallUpdate)

\* The steps in which the server is not called.
OtherStep == Main!Setup \/ Main!SetupAgain \/ Main!UpdateBy(Main!OwnStep) \/ Main!Stopped

MainTask == ServerCall \/ (UNCHANGED serverVars /\ OtherStep)
EventLoop == UNCHANGED serverVars /\ Main!EventLoop
DriverTask == UNCHANGED serverVars /\ Main!DriverTask

\* The processor starts again, with lwIP and the timers.
Restart ==
    /\ socket_state' = [s \in Sockets |-> "NotStarted"]
    /\ m_socket' = [s \in Sockets |-> NoFd]
    /\ handler_state' = [p \in Protocols |-> NotStarted]
    /\ open_fds' = {} /\ bound' = {} /\ listening' = {}
    /\ m_state' = "NotStarted"
    /\ m_timer_send_25ms' = 0
    /\ running_timers' = {}
    /\ clients_udp' = [i \in {} |-> NoFd]
    /\ Main!SetDnsFails

\* The bound on the starts is reached: the model goes no further.
NoStartLeft ==
    /\ m_timer_send_25ms = MaxStarts
    /\ pc = "start_server"
    /\ wifi_state = "Connected"

ProgramNext == MainTask \/ EventLoop \/ DriverTask \/ Restart \/ (NoStartLeft /\ UNCHANGED allVars)

ProgramSpec == ProgramInit /\ [][ProgramNext]_allVars

\* As in MainProgram: run() calls update() every tick, and no call in it blocks for
\* long; the event loop gives every event to the handler.
FairProgramSpec == ProgramSpec /\ WF_allVars(MainTask) /\ WF_allVars(EventLoop)

-----------------------------------------------------------------------------
(* Properties                                                              *)

\* The program with the server implements MainProgram, which has only what
\* ServerLife says of the server: what is shown of MainProgram is true of it.
IsMainProgram == Main!Spec

\* As long as the station is connected and has its address, the server comes to
\* run, or the program has ended: a start that an event interrupts (wifi.cpp:304
\* leaves the server alone then) is gone on with, or made again, on the sockets
\* that the one before has left.  The premise is that of AddressIsServed in
\* MainProgram: the driver is slower than connect() (wifi.cpp:209).
SteadyAddressGivesServer ==
    [](pc = "set_connecting" => wifi_state = "ReadyToConnect") =>
        ((station = "connected" /\ netif = "up") ~>
            (\/ m_state = "Running" \/ main_state = "Error"
             \/ station # "connected" \/ netif # "up"
             \/ NoStartLeft))

\* "Reconnecting to AP..." (ev_handler.cpp:81): when the station has its address
\* again, the server, which had been running, runs again, unless lwIP has no socket
\* left for it.
RestartedServerRuns ==
    running_timers # {} /\ m_state = "Error" =>
        \E s \in Sockets : socket_state[s] = "Error" /\ m_socket[s] = NoFd

=============================================================================
