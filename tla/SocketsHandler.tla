--------------------------- MODULE SocketsHandler ---------------------------
(***************************************************************************)
(* SocketsHandler and the classes below it (application/network/server/    *)
(* handler): four server sockets, TCP and UDP on the access point and on   *)
(* the station, each with a state of its own, two handlers that advance    *)
(* them in pairs, and lwIP, which has the descriptors.                     *)
(*                                                                         *)
(* One task calls all of this.  Any call of lwIP may fail, for lack of     *)
(* memory or descriptors; bind() must fail while another open descriptor   *)
(* is bound to the same address, as no socket sets SO_REUSEADDR.  Each of  *)
(* the four sockets has one address, which the settings fix.               *)
(***************************************************************************)
EXTENDS Integers, FiniteSets, Functions

CONSTANTS
    Fds,                \* the descriptors lwIP has for the server
    NoFd                \* an m_socket that is no descriptor: -1, or never written

ASSUME SocketsAssumption == Fds \subseteq Nat /\ NoFd \notin Fds

Protocols == {"Tcp", "Udp"}
Interfaces == {"Ap", "Sta"}
Sockets == Protocols \X Interfaces

SocketStates == {"NotStarted", "Uninitialized", "Created", "Bound", "Ready", "Error"}

\* HandlerState: InitializingApSta is phase "Initializing" on both interfaces,
\* ReadyOnAp is phase "Ready" on "Ap" alone, and so on.
HandlerStates == [phase : {"NotStarted", "Initializing", "Ready", "Error"}, on : SUBSET Interfaces]

VARIABLES
    socket_state,       \* m_state of each Socket
    m_socket,           \* m_socket of each Socket
    handler_state,      \* m_state of TcpSocketsHandler and of UdpSocketsHandler
    open_fds,           \* lwIP: the open descriptors
    bound,              \* lwIP: pairs of a descriptor and the socket whose address it has
    listening           \* lwIP: the descriptors that listen

socketVars == <<socket_state, m_socket, handler_state, open_fds, bound, listening>>

NotStarted == [phase |-> "NotStarted", on |-> {}]

Init ==
    /\ socket_state = [s \in Sockets |-> "NotStarted"]
    /\ m_socket = [s \in Sockets |-> NoFd]
    /\ handler_state = [p \in Protocols |-> NotStarted]
    /\ open_fds = {}
    /\ bound = {}
    /\ listening = {}

\* Mutant: a start closes the descriptors of the start before.
StartClosing(interfaces) ==
    /\ interfaces = Interfaces
    /\ socket_state' = [s \in Sockets |-> "Uninitialized"]
    /\ handler_state' = [p \in Protocols |-> [phase |-> "Initializing", on |-> interfaces]]
    /\ open_fds' = {} /\ bound' = {} /\ listening' = {}
    /\ UNCHANGED m_socket

\* start(): the sockets that have a description are started, whatever they
\* were; a descriptor they had is not closed.  No description is an error.
Start(interfaces) ==
    /\ socket_state' = [s \in Sockets |->
                            IF s[2] \in interfaces THEN "Uninitialized" ELSE socket_state[s]]
    /\ handler_state' = [p \in Protocols |->
                            IF interfaces = {} THEN [phase |-> "Error", on |-> Interfaces]
                            ELSE [phase |-> "Initializing", on |-> interfaces]]
    /\ UNCHANGED <<m_socket, open_fds, bound, listening>>

\* A socket that is started but not created yet has nothing to close.
HasToClose(s) == socket_state[s] \notin {"NotStarted", "Uninitialized"}

\* Mutant: the descriptors are closed, and the sockets keep their states.
StopKeepingStates ==
    LET closed == {m_socket[s] : s \in {t \in Sockets : HasToClose(t)}}
    IN  /\ open_fds' = open_fds \ closed
        /\ bound' = {b \in bound : b[1] \notin closed}
        /\ listening' = listening \ closed
        /\ handler_state' = [p \in Protocols |-> NotStarted]
        /\ UNCHANGED <<socket_state, m_socket>>

\* stop()
Stop ==
    LET closed == {m_socket[s] : s \in {t \in Sockets : HasToClose(t)}}
    IN  /\ open_fds' = open_fds \ closed
        /\ bound' = {b \in bound : b[1] \notin closed}
        /\ listening' = listening \ closed
        /\ socket_state' = [s \in Sockets |-> "NotStarted"]
        /\ handler_state' = [p \in Protocols |-> NotStarted]
        /\ UNCHANGED m_socket

-----------------------------------------------------------------------------
(* update()                                                                *)

\* The sockets that the update() of one handler updates.
Called(p) ==
    {s \in Sockets : /\ s[1] = p
                     /\ handler_state[p].phase = "Initializing"
                     /\ s[2] \in handler_state[p].on}

\* TcpSocket::update() and UdpSocket::update() call lwIP in these states only.
HasCall(s) ==
    \/ socket_state[s] \in {"Uninitialized", "Created"}
    \/ socket_state[s] = "Bound" /\ s[1] = "Tcp"

\* Mutants: TCP does not listen; listening is a state the handlers do not know.
AdvancedWithoutListen(s) == IF socket_state[s] = "Uninitialized" THEN "Created" ELSE "Ready"

AdvancedToListening(s) ==
    CASE socket_state[s] = "Uninitialized" -> "Created"
      [] socket_state[s] = "Created" -> IF s[1] = "Tcp" THEN "Bound" ELSE "Ready"
      [] OTHER -> "Listening"

\* The state after the call, if it succeeds: a UDP socket need not listen.
Advanced(s) ==
    CASE socket_state[s] = "Uninitialized" -> "Created"
      [] socket_state[s] = "Created" -> IF s[1] = "Tcp" THEN "Bound" ELSE "Ready"
      [] OTHER -> "Ready"

\* update() calls TCP before UDP, and the access point before the station.
Before(s, t) ==
    \/ s[1] = "Tcp" /\ t[1] = "Udp"
    \/ s[1] = t[1] /\ s[2] = "Ap" /\ t[2] = "Sta"

\* socket(), for the sockets in created: lwIP returns the first free descriptor.
FirstFree(n) == {fd \in Fds \ open_fds : Cardinality({free \in Fds \ open_fds : free < fd}) < n}

Allocated(created) ==
    {new \in Injection(created, FirstFree(Cardinality(created))) :
        \A s, t \in created : Before(s, t) => new[s] < new[t]}

AddressInUse(s) == \E fd \in open_fds : <<fd, s>> \in bound

\* A handler is in error as soon as one of its sockets is, on whatever it was
\* started for, and ready when all of those sockets are.
HandlerAfter(p, called, failed) ==
    IF called \cap failed # {} THEN [handler_state[p] EXCEPT !.phase = "Error"]
    ELSE IF called # {} /\ \A s \in called : socket_state'[s] = "Ready"
    THEN [handler_state[p] EXCEPT !.phase = "Ready"]
    ELSE handler_state[p]

\* update(), where the calls of the sockets in failed fail: it then returns
\* ErrorOnApSta, else None.  UDP waits for a pass in which TCP has no error.
UpdateSockets(failed) ==
    LET udp == IF failed \cap Called("Tcp") = {} THEN Called("Udp") ELSE {}
        calls == {s \in Called("Tcp") \cup udp : HasCall(s)}
        In(state) == {s \in calls \ failed : socket_state[s] = state}
    IN  /\ failed \subseteq calls
        /\ \A s \in In("Created") : ~AddressInUse(s)
        /\ \E new \in Allocated(In("Uninitialized")) :
            /\ m_socket' = [s \in Sockets |->
                    IF s \in In("Uninitialized") THEN new[s]
                    ELSE IF s \in failed /\ socket_state[s] = "Uninitialized" THEN NoFd
                    ELSE m_socket[s]]
            /\ open_fds' = open_fds \cup {new[s] : s \in In("Uninitialized")}
        /\ bound' = bound \cup {<<m_socket[s], s>> : s \in In("Created")}
        /\ listening' = listening \cup {m_socket[s] : s \in In("Bound")}
        /\ socket_state' = [s \in Sockets |-> IF s \in failed THEN "Error"
                                              ELSE IF s \in calls THEN Advanced(s)
                                              ELSE socket_state[s]]
        /\ handler_state' = [p \in Protocols |->
                HandlerAfter(p, IF p = "Tcp" THEN Called("Tcp") ELSE udp, failed)]

\* Mutant: one handler is enough.
IsReadyEither == \E p \in Protocols : handler_state[p].phase = "Ready"

IsReady == \A p \in Protocols : handler_state[p].phase = "Ready"

-----------------------------------------------------------------------------
(* Properties                                                              *)

\* Every variable has a value of its kind.
TypeOK ==
    /\ socket_state \in [Sockets -> SocketStates]
    /\ m_socket \in [Sockets -> Fds \cup {NoFd}]
    /\ handler_state \in [Protocols -> HandlerStates]
    /\ open_fds \subseteq Fds
    /\ bound \subseteq Fds \X Sockets
    /\ listening \subseteq Fds

\* The sockets whose m_socket stop() would close.
Owners == {s \in Sockets : HasToClose(s) /\ m_socket[s] # NoFd}

\* Each socket that has a descriptor has an open one, of its own: stop()
\* (handler.cpp:43) never closes the descriptor of another socket, or of a
\* client.  And lwIP has bound it, and listens on it, exactly as far as the
\* state of the socket says.
SocketsSound ==
    /\ \A s \in Owners : m_socket[s] \in open_fds
    /\ \A s, t \in Owners : m_socket[s] = m_socket[t] => s = t
    /\ \A s \in Owners : socket_state[s] = "Created" => \A t \in Sockets : <<m_socket[s], t>> \notin bound
    /\ \A s \in Sockets : socket_state[s] \in {"Created", "Bound", "Ready"} => s \in Owners
    /\ \A s \in Sockets : socket_state[s] \in {"Bound", "Ready"} => <<m_socket[s], s>> \in bound
    /\ \A s \in Sockets : socket_state[s] = "Ready" /\ s[1] = "Tcp" => m_socket[s] \in listening
    /\ \A b \in bound : b[1] \in open_fds
    /\ \A b, c \in bound : b[1] = c[1] \/ b[2] = c[2] => b = c

\* A handler that says it is ready is: every socket it was started for is
\* bound and, for TCP, listens; and TCP and UDP were started for the same.
ReadyIsSound ==
    IsReady =>
        /\ handler_state["Tcp"].on = handler_state["Udp"].on
        /\ \A s \in Sockets : s[2] \in handler_state[s[1]].on => socket_state[s] = "Ready"

=============================================================================
