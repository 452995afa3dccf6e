----------------------------- MODULE MainProgram -----------------------------
(***************************************************************************)
(* MainProgram (core/program): setup() until it succeeds, then one         *)
(* Wifi::update() a tick until it returns an error.  This is the program   *)
(* as far as Wi-Fi and the server go; the camera is left out.              *)
(***************************************************************************)
EXTENDS Wifi

VARIABLES
    main_state,     \* m_state of MainProgram
    event_loop      \* has the default event loop been created?

vars == <<wifiVars, main_state, event_loop>>

MainInit ==
    /\ WifiInit
    /\ main_state = "Uninitialized"
    /\ event_loop = FALSE

\* setup(): the default event loop is created, or is not; once it is, the
\* storage or the camera may fail.  run() calls setup() again at the next tick.
Setup ==
    /\ main_state = "Uninitialized"
    /\ ~event_loop
    /\ event_loop' \in BOOLEAN
    /\ main_state' \in {"Uninitialized"} \cup (IF event_loop' THEN {"Running"} ELSE {})
    /\ UNCHANGED wifiVars

\* The default event loop cannot be created twice: setup() fails for good.
SetupAgain ==
    /\ main_state = "Uninitialized"
    /\ event_loop
    /\ UNCHANGED vars

\* A step of Wifi::update() in update(), and the case Running of run().
UpdateBy(step) ==
    /\ main_state = "Running"
    /\ step
    /\ main_state' = IF pc' = "idle" /\ result' = "Err" THEN "Error" ELSE "Running"
    /\ UNCHANGED event_loop

Update == UpdateBy(WifiUpdate)

\* The case Error of run(), which only logs.
Stopped ==
    /\ main_state = "Error"
    /\ UNCHANGED vars

MainTask == Setup \/ SetupAgain \/ Update \/ Stopped

\* The tasks of ESP-IDF.
EventLoop == EventTask /\ UNCHANGED <<mainVars, main_state, event_loop>>
DriverTask == Driver /\ UNCHANGED <<mainVars, main_state, event_loop>>

\* A DNS server cannot be set: ESP_ERROR_CHECK in setStaIp() ends the program,
\* and the processor starts it from the beginning.
SetDnsFails ==
    /\ events # <<>> /\ Head(events) = "STA_CONNECTED"
    /\ StaticIp
    /\ m_state' = "NotInitialized" /\ m_retry_num' = 0
    /\ station' = "off" /\ netif' = "none" /\ events' = <<>>
    /\ pc' = "idle" /\ result' = "Ok"
    /\ server' = "NotStarted" /\ has_run' = FALSE
    /\ main_state' = "Uninitialized" /\ event_loop' = FALSE

Next == MainTask \/ EventLoop \/ DriverTask \/ SetDnsFails

Spec == MainInit /\ [][Next]_vars

\* run() never ends, and no call in it blocks for long; the event loop gives
\* every event to the handler.  The driver owes nothing.
FairSpec == Spec /\ WF_vars(MainTask) /\ WF_vars(EventLoop)

-----------------------------------------------------------------------------
(* Properties                                                              *)

\* Every variable has a value of its kind.
TypeOK ==
    /\ EvTypeOK
    /\ pc \in Pcs
    /\ result \in {"Ok", "Err"}
    /\ server \in {"NotStarted", "Starting", "Running", "Error"}
    /\ has_run \in BOOLEAN
    /\ main_state \in {"Uninitialized", "Running", "Error"}
    /\ event_loop \in BOOLEAN

\* Two tasks call esp_wifi_connect(), the main task after the start
\* (wifi.cpp:207) and the handler after a disconnection (ev_handler.cpp:83):
\* never both for the same attempt, never on a station that is not idle.
ConnectsWhenIdle == station # "busy"

Queued(event) == {i \in DOMAIN events : events[i] = event}

\* Why: no attempt is under way until the main task has made the first, and
\* after that at most one disconnection is still to be handled, with the
\* station idle until it is.
AttemptsSound ==
    /\ (pc = "init" \/ (m_state = "NotInitialized" /\ pc = "idle")) => station = "off"
    /\ station = "off" => events = <<>> /\ m_state \in {"NotInitialized", "Error"}
    /\ (\/ pc \in {"started", "set_initialized"}
        \/ Queued("STA_START") # {}
        \/ (m_state = "ReadyToConnect" /\ pc # "set_connecting"))
            => station \in {"off", "idle"} /\ netif = "none" /\ Queued("STA_DISCONNECTED") = {}
    /\ pc = "connect" => m_state = "ReadyToConnect"
    /\ \A event \in {"STA_START", "STA_DISCONNECTED"} : \A i, j \in Queued(event) : i = j
    /\ Queued("STA_DISCONNECTED") # {} => station = "idle"

\* An error of the server ends the program (wifi.cpp:295, program.cpp:160),
\* whatever the event task writes to the state after it, unless everything is
\* restarted in between.
ServerErrorEndsProgram == (server = "Error") ~> (main_state = "Error" \/ server = "NotStarted")

\* As long as the station is connected and has its address, the server is updated
\* again and again, or the program has ended: what the main task sets after the
\* start (wifi.cpp:282) is not in the way of what the event task has set.  The end
\* of the program is an outcome: a change between the two looks of the main task at
\* the state (wifi.cpp:224) is taken for an error, and leads to it.  This
\* supposes that the driver is slower than connect(), which sets Connecting after
\* it has told the driver (wifi.cpp:209): an address that comes before that is lost.
AddressIsServed ==
    [](pc = "set_connecting" => m_state = "ReadyToConnect") =>
        ((station = "connected" /\ netif = "up") ~>
            (pc = "server" \/ main_state = "Error" \/ station # "connected" \/ netif # "up"))

\* "In case Event happens before" (wifi.cpp:185): init() leaves the state alone
\* if the event of the start has already set it.
ReadyIsKept == [][m_state = "ReadyToConnect" => m_state' # "Initialized"]_vars

=============================================================================
