------------------------------ MODULE NetServer ------------------------------
(***************************************************************************)
(* NetServer (application/network/server/server): its states, on top of    *)
(* the four sockets of SocketsHandler, the timer that a start creates, and *)
(* the UDP descriptors that the list of clients is given.  The pass over   *)
(* the clients in state Running is RunningServer.tla.                      *)
(*                                                                         *)
(* Wifi starts the server each time the station gets an address, always    *)
(* for both interfaces, and never stops it.  Any other owner may call      *)
(* stop(), and start() with a description for either interface or none.    *)
(***************************************************************************)
EXTENDS SocketsHandler

CONSTANTS
    MaxStarts,          \* bound on the number of starts
    AnyOwner            \* TRUE: any owner; FALSE: Wifi

ASSUME NetServerAssumption == MaxStarts \in Nat \ {0} /\ AnyOwner \in BOOLEAN

Timers == 1 .. MaxStarts

VARIABLES
    m_state,            \* ServerState
    m_timer_send_25ms,  \* the timer of the last start; 0: none
    running_timers,     \* esp_timer: the timers that run
    clients_udp         \* the UDP descriptors m_clients has, by interface

serverVars == <<socketVars, m_state, m_timer_send_25ms, running_timers, clients_udp>>

ServerInit ==
    /\ Init
    /\ m_state = "NotStarted"
    /\ m_timer_send_25ms = 0
    /\ running_timers = {}
    /\ clients_udp = [i \in {} |-> NoFd]

\* start(): the timer of an earlier start is forgotten, not stopped.
StartServer ==
    /\ m_timer_send_25ms < MaxStarts
    /\ \E interfaces \in IF AnyOwner THEN SUBSET Interfaces ELSE {Interfaces} : Start(interfaces)
    /\ m_timer_send_25ms' = m_timer_send_25ms + 1
    /\ m_state' = "Uninitialized"
    /\ UNCHANGED <<running_timers, clients_udp>>

\* Mutant: the timer is left running.
StopServerNotTimer ==
    /\ AnyOwner
    /\ IF m_state \notin {"NotStarted", "Uninitialized"} THEN Stop ELSE UNCHANGED socketVars
    /\ m_state' = "NotStarted"
    /\ UNCHANGED <<m_timer_send_25ms, running_timers, clients_udp>>

\* stop()
StopServer ==
    /\ AnyOwner
    /\ IF m_state \notin {"NotStarted", "Uninitialized"} THEN Stop ELSE UNCHANGED socketVars
    /\ running_timers' = IF m_state = "Running" THEN running_timers \ {m_timer_send_25ms}
                         ELSE running_timers
    /\ m_state' = "NotStarted"
    /\ UNCHANGED <<m_timer_send_25ms, clients_udp>>

\* Mutant: errors of the sockets are not looked at.
UpdateUninitializedBlind ==
    /\ m_state = "Uninitialized"
    /\ \E failed \in SUBSET Sockets : UpdateSockets(failed)
    /\ m_state' = IF IsReady' THEN "SocketsReady" ELSE "Uninitialized"
    /\ UNCHANGED <<m_timer_send_25ms, running_timers, clients_udp>>

\* update() in Uninitialized.
UpdateUninitialized ==
    /\ m_state = "Uninitialized"
    /\ \E failed \in SUBSET Sockets :
        /\ UpdateSockets(failed)
        /\ m_state' = IF failed # {} THEN "Error"
                      ELSE IF IsReady' THEN "SocketsReady" ELSE "Uninitialized"
    /\ UNCHANGED <<m_timer_send_25ms, running_timers, clients_udp>>

\* update() in SocketsReady.
StartTimer ==
    /\ m_state = "SocketsReady"
    /\ running_timers' = running_timers \cup {m_timer_send_25ms}
    /\ m_state' = "Running"
    /\ UNCHANGED <<socketVars, m_timer_send_25ms, clients_udp>>

StartTimerFails ==
    /\ m_state = "SocketsReady"
    /\ m_state' = "Error"
    /\ UNCHANGED <<socketVars, m_timer_send_25ms, running_timers, clients_udp>>

\* update() in Running, which returns no error whatever happens.
UpdateRunning ==
    /\ m_state = "Running"
    /\ clients_udp' =
            IF IsReady
            THEN [i \in Interfaces |-> IF i \in DOMAIN clients_udp THEN clients_udp[i]
                                      ELSE m_socket[<<"Udp", i>>]]
            ELSE clients_udp
    /\ UNCHANGED <<socketVars, m_state, m_timer_send_25ms, running_timers>>

\* update() in NotStarted and in Error.
UpdateOther ==
    /\ m_state \in {"NotStarted", "Error"}
    /\ UNCHANGED serverVars

Update ==
    UpdateUninitialized \/ StartTimer \/ StartTimerFails \/ UpdateRunning \/ UpdateOther

ServerNext == StartServer \/ StopServer \/ Update

ServerSpec == ServerInit /\ [][ServerNext]_serverVars

-----------------------------------------------------------------------------
(* Properties                                                              *)

\* Every variable has a value of its kind.
ServerTypeOK ==
    /\ TypeOK
    /\ m_state \in {"NotStarted", "Uninitialized", "SocketsReady", "Running", "Error"}
    /\ m_timer_send_25ms \in Timers \cup {0}
    /\ running_timers \subseteq Timers
    /\ DOMAIN clients_udp \subseteq Interfaces
    /\ \A i \in DOMAIN clients_udp : clients_udp[i] \in Fds \cup {NoFd}

\* A server that runs has every socket it was started for, and its own timer
\* runs, none of an earlier start: what RunningServer.tla starts from
\* (server.cpp:87).
RunningIsReady ==
    m_state \in {"SocketsReady", "Running"} =>
        /\ \A s \in Sockets : s[2] \in handler_state[s[1]].on => socket_state[s] = "Ready"
        /\ m_state = "Running" => running_timers = {m_timer_send_25ms}

\* The timers of two starts never run together, though a start forgets the
\* timer of the one before (server.cpp:28).
OneTimer == Cardinality(running_timers) <= 1

\* The UDP descriptors of the clients, set once (server.cpp:89), are used as
\* long as the program runs, after every later start too (server.cpp:181):
\* each stays open, and bound to the address of its interface.
ClientsUdpOpen ==
    \A i \in DOMAIN clients_udp :
        /\ clients_udp[i] \in open_fds
        /\ <<clients_udp[i], <<"Udp", i>>>> \in bound

\* NetServer implements ServerLife: once the server has run, its addresses are
\* in use for good, and a later start always ends in an error.
Life == INSTANCE ServerLife WITH
            server <- IF m_state \in {"Uninitialized", "SocketsReady"} THEN "Starting" ELSE m_state,
            has_run <- running_timers # {}

IsServerLife == Life!LifeSpec

=============================================================================
