------------------------------- MODULE Clients -------------------------------
(***************************************************************************)
(* Clients<NbAllowedClients, MaxFrameLen>: the list of connected clients,  *)
(* their authentication, the client that has control, and update(), the    *)
(* pass of the main task over the list (application/network/clients).      *)
(*                                                                         *)
(* One task runs all of this.  What is concurrent is the network: between  *)
(* two steps any peer may send, close or fail, so every socket call has    *)
(* every outcome its code distinguishes.  update() is therefore split at   *)
(* its socket calls: "loop" is the head of its for statement, "status" the *)
(* UDP status message, "send" the TCP message, "recv" the read.            *)
(*                                                                         *)
(* A frame is reduced to what the code tells apart, the queues of frames   *)
(* that are all alike to their lengths (CircularBuffer.tla has the queue   *)
(* itself), a client id, which only log lines use, is left out.            *)
(***************************************************************************)
EXTENDS Integers, FiniteSets

CONSTANTS
    NbAllowedClients,   \* length of m_clients
    RxBufferSize,       \* capacity of rx_frames_buffer
    TxBufferSize,       \* capacity of tx_frames_buffer and m_status_data_to_send
    Fds,                \* descriptors accept() can return
    NoFd,               \* an m_socket that no accept() returned (0, or garbage)
    OutOfBounds,        \* what reading m_clients[NbAllowedClients] can yield
    CallsSendTcpMsg     \* TRUE if the owner uses sendTcpMsg()

Interfaces == {"Ap", "Sta"}
Logged == {"Authenticated", "TakingControl"}
ListedStates == {"Connected"} \cup Logged
SlotStates == ListedStates \cup {"Uninitialized", "Garbage"}

Client == [m_socket : Fds \cup {NoFd},
           m_state : SlotStates,
           m_connected_at : Interfaces \cup {"Undefined", "Garbage"}]

ASSUME ClientsAssumption ==
    /\ NbAllowedClients \in Nat \ {0}
    /\ RxBufferSize \in Nat \ {0}
    /\ TxBufferSize \in Nat \ {0}
    /\ NoFd \notin Fds
    /\ CallsSendTcpMsg \in BOOLEAN
    /\ OutOfBounds # {}
    /\ OutOfBounds \subseteq {c \in Client : c.m_socket = NoFd}

Slots == 0 .. NbAllowedClients - 1

\* The empty Option<uint8_t>.
NoIndex == -1

VARIABLES
    m_clients,                  \* the array, all of it
    m_nb_connected_clients,     \* its first m_nb_connected_clients slots are in use
    m_client_taking_control,    \* index of a slot, or NoIndex
    m_server_login,             \* has setServerLogin() been called?
    m_udpfd,                    \* interfaces whose UDP descriptor is set
    rx_frames_buffer,           \* how many frames wait for the owner
    tx_frames_buffer,           \* how many frames wait to be sent by TCP
    m_status_data_to_send,      \* how many status messages wait to be sent by UDP
    open_fds                    \* the accepted descriptors lwIP has open

VARIABLES                       \* the locals of update()
    pc,
    client_idx,
    client_state,               \* copied from the client when its turn begins
    opt_msg,                    \* is there a TCP message for this pass?
    opt_status_data             \* is there a status message for this pass?

listVars == <<m_clients, m_nb_connected_clients, m_client_taking_control, open_fds>>
queueVars == <<rx_frames_buffer, tx_frames_buffer, m_status_data_to_send>>
setVars == <<m_server_login, m_udpfd>>
localVars == <<pc, client_idx, client_state, opt_msg, opt_status_data>>
vars == <<listVars, queueVars, setVars, localVars>>

Listed == 0 .. m_nb_connected_clients - 1

Holders == {i \in Listed : m_clients[i].m_state = "TakingControl"}

UnusedSlot == [m_socket |-> NoFd, m_state |-> "Uninitialized", m_connected_at |-> "Undefined"]

Init ==
    /\ m_clients = [i \in Slots |-> UnusedSlot]
    /\ m_nb_connected_clients = 0
    /\ m_client_taking_control = NoIndex
    /\ m_server_login = FALSE
    /\ m_udpfd = {}
    /\ rx_frames_buffer = 0
    /\ tx_frames_buffer = 0
    /\ m_status_data_to_send = 0
    /\ open_fds = {}
    /\ pc = "idle"
    /\ client_idx = 0
    /\ client_state = "Uninitialized"
    /\ opt_msg = FALSE
    /\ opt_status_data = FALSE

-----------------------------------------------------------------------------
(* The calls of the owner, NetServer, between two passes.                  *)

SetServerLogin ==
    /\ pc = "idle"
    /\ m_server_login' = TRUE
    /\ UNCHANGED <<listVars, queueVars, m_udpfd, localVars>>

\* setApUdpFd() and setStaUdpFd(): a descriptor is only ever set, never removed.
SetUdpFd(interface) ==
    /\ pc = "idle"
    /\ m_udpfd' = m_udpfd \cup {interface}
    /\ UNCHANGED <<listVars, queueVars, m_server_login, localVars>>

\* tryToConnetClient(): getNextClientAddr() refuses when the array is full;
\* accept() returns any descriptor that is not open; addClient() writes slot nb.
AddClient(fd, interface) ==
    /\ pc = "idle"
    /\ m_nb_connected_clients < NbAllowedClients
    /\ fd \notin open_fds
    /\ m_clients' = [m_clients EXCEPT ![m_nb_connected_clients] =
                        [m_socket |-> fd, m_state |-> "Connected", m_connected_at |-> interface]]
    /\ m_nb_connected_clients' = m_nb_connected_clients + 1
    /\ open_fds' = open_fds \cup {fd}
    /\ UNCHANGED <<m_client_taking_control, queueVars, setVars, localVars>>

SendStatus ==
    /\ pc = "idle"
    /\ m_status_data_to_send < TxBufferSize
    /\ m_status_data_to_send' = m_status_data_to_send + 1
    /\ UNCHANGED <<listVars, rx_frames_buffer, tx_frames_buffer, setVars, localVars>>

\* Mutant: a push that does not look whether the queue is full.
SendTcpMsgUnchecked ==
    /\ CallsSendTcpMsg /\ pc = "idle"
    /\ tx_frames_buffer' = tx_frames_buffer + 1
    /\ UNCHANGED <<listVars, rx_frames_buffer, m_status_data_to_send, setVars, localVars>>

SendTcpMsg ==
    /\ CallsSendTcpMsg
    /\ pc = "idle"
    /\ tx_frames_buffer < TxBufferSize
    /\ tx_frames_buffer' = tx_frames_buffer + 1
    /\ UNCHANGED <<listVars, rx_frames_buffer, m_status_data_to_send, setVars, localVars>>

GetRecvTcpMsg ==
    /\ pc = "idle"
    /\ rx_frames_buffer > 0
    /\ rx_frames_buffer' = rx_frames_buffer - 1
    /\ UNCHANGED <<listVars, tx_frames_buffer, m_status_data_to_send, setVars, localVars>>

-----------------------------------------------------------------------------
(* deleteClient(): close the descriptor, shift the rest of the list down.  *)
(* The shift copies slot nb as well, which for a full array is a read past *)
(* its end.  An index past the list is ignored.                            *)

\* Mutant: the shift is off by one.
PastSkipping(i, oob) == IF i + 2 < NbAllowedClients THEN m_clients[i + 2] ELSE oob

Past(i, oob) == IF i + 1 < NbAllowedClients THEN m_clients[i + 1] ELSE oob

DeleteClient(idx) ==
    IF idx < m_nb_connected_clients
    THEN /\ m_client_taking_control' =
                IF m_clients[idx].m_state = "TakingControl"
                THEN NoIndex ELSE m_client_taking_control
         /\ open_fds' = open_fds \ {m_clients[idx].m_socket}
         /\ \E oob \in OutOfBounds :
                m_clients' = [i \in Slots |-> IF i \in idx .. m_nb_connected_clients - 1
                                              THEN Past(i, oob) ELSE m_clients[i]]
         /\ m_nb_connected_clients' = m_nb_connected_clients - 1
    ELSE UNCHANGED listVars

-----------------------------------------------------------------------------
(* update()                                                                *)

Goto(label) == pc' = label /\ UNCHANGED <<client_idx, client_state, opt_msg, opt_status_data>>

\* Leaving update(): its locals are gone.
Return ==
    /\ pc' = "idle"
    /\ client_idx' = 0
    /\ client_state' = "Uninitialized"
    /\ opt_msg' = FALSE
    /\ opt_status_data' = FALSE

NextClient ==
    /\ pc' = "loop"
    /\ client_idx' = client_idx + 1
    /\ client_state' = "Uninitialized"
    /\ UNCHANGED <<opt_msg, opt_status_data>>

\* Mutant: the status message is copied, and stays in the queue.
BeginUpdateKeepingStatus ==
    /\ pc = "idle"
    /\ opt_msg' = (tx_frames_buffer > 0)
    /\ tx_frames_buffer' = IF tx_frames_buffer > 0 THEN tx_frames_buffer - 1 ELSE 0
    /\ opt_status_data' = (m_status_data_to_send > 0)
    /\ client_idx' = 0
    /\ pc' = "loop"
    /\ UNCHANGED <<listVars, rx_frames_buffer, m_status_data_to_send, setVars, client_state>>

BeginUpdate ==
    /\ pc = "idle"
    /\ opt_msg' = (tx_frames_buffer > 0)
    /\ tx_frames_buffer' = IF tx_frames_buffer > 0 THEN tx_frames_buffer - 1 ELSE 0
    /\ opt_status_data' = (m_status_data_to_send > 0)
    /\ m_status_data_to_send' =
            IF m_status_data_to_send > 0 THEN m_status_data_to_send - 1 ELSE 0
    /\ client_idx' = 0
    /\ pc' = "loop"
    /\ UNCHANGED <<listVars, rx_frames_buffer, setVars, client_state>>

\* Mutant: the loop goes one client too far.
BeginTurnTooFar ==
    /\ pc = "loop"
    /\ client_idx <= m_nb_connected_clients
    /\ client_state' = m_clients[client_idx].m_state
    /\ pc' = "status"
    /\ UNCHANGED <<listVars, queueVars, setVars, client_idx, opt_msg, opt_status_data>>

BeginTurn ==
    /\ pc = "loop"
    /\ client_idx < m_nb_connected_clients
    /\ client_state' = m_clients[client_idx].m_state
    /\ pc' = "status"
    /\ UNCHANGED <<listVars, queueVars, setVars, client_idx, opt_msg, opt_status_data>>

EndUpdate ==
    /\ pc = "loop"
    /\ client_idx >= m_nb_connected_clients
    /\ Return
    /\ UNCHANGED <<listVars, queueVars, setVars>>

\* Status message: for clients that have logged in only.
SkipStatus ==
    /\ pc = "status"
    /\ ~(opt_status_data /\ client_state \in Logged)
    /\ Goto("send")
    /\ UNCHANGED <<listVars, queueVars, setVars>>

\* sendto() took it, or would block, or is out of memory: the client stays.
StatusSent ==
    /\ pc = "status"
    /\ opt_status_data /\ client_state \in Logged
    /\ m_clients[client_idx].m_connected_at \in m_udpfd
    /\ Goto("send")
    /\ UNCHANGED <<listVars, queueVars, setVars>>

\* sendUdpMsg() returned NotReady, which it must when the interface has no
\* descriptor, or SocketError, which it can otherwise: the client is deleted,
\* and its turn goes on.
StatusFailed ==
    /\ pc = "status"
    /\ opt_status_data /\ client_state \in Logged
    /\ DeleteClient(client_idx)
    /\ Goto("send")
    /\ UNCHANGED <<queueVars, setVars>>

\* TCP message: for clients that have logged in only.
SkipSend ==
    /\ pc = "send"
    /\ ~(opt_msg /\ client_state \in Logged)
    /\ Goto("recv")
    /\ UNCHANGED <<listVars, queueVars, setVars>>

MsgSent ==
    /\ pc = "send"
    /\ opt_msg /\ client_state \in Logged
    /\ Goto("recv")
    /\ UNCHANGED <<listVars, queueVars, setVars>>

MsgFailed ==
    /\ pc = "send"
    /\ opt_msg /\ client_state \in Logged
    /\ DeleteClient(client_idx)
    /\ Return
    /\ UNCHANGED <<queueVars, setVars>>

\* Mutant: a client that has sent nothing ends the pass.
RecvNothingReturning ==
    /\ pc = "recv"
    /\ Return
    /\ UNCHANGED <<listVars, queueVars, setVars>>

\* read() has nothing for this client now, or a frame that changes nothing: a
\* wrong login, a login when someone has control, a second login, a command of
\* a client that may not give any.
RecvNothing ==
    /\ pc = "recv"
    /\ NextClient
    /\ UNCHANGED <<listVars, queueVars, setVars>>

\* read() returned 0 or an error: the client is deleted and the pass ends.
RecvFailed ==
    /\ pc = "recv"
    /\ DeleteClient(client_idx)
    /\ Return
    /\ UNCHANGED <<queueVars, setVars>>

SetState(state) == m_clients' = [m_clients EXCEPT ![client_idx].m_state = state]

\* A LogIn request with the login of a visitor.
RecvLogIn ==
    /\ pc = "recv"
    /\ client_state = "Connected" /\ m_server_login
    /\ SetState("Authenticated")
    /\ NextClient
    /\ UNCHANGED <<m_nb_connected_clients, m_client_taking_control, open_fds, queueVars, setVars>>

\* Mutant: control is given whether or not a client has it.
RecvSuperLogInUnchecked ==
    /\ pc = "recv"
    /\ client_state = "Connected" /\ m_server_login
    /\ SetState("TakingControl")
    /\ m_client_taking_control' = client_idx
    /\ NextClient
    /\ UNCHANGED <<m_nb_connected_clients, open_fds, queueVars, setVars>>

\* A LogIn request with the login of the administrator.
RecvSuperLogIn ==
    /\ pc = "recv"
    /\ client_state = "Connected" /\ m_server_login
    /\ m_client_taking_control = NoIndex
    /\ SetState("TakingControl")
    /\ m_client_taking_control' = client_idx
    /\ NextClient
    /\ UNCHANGED <<m_nb_connected_clients, open_fds, queueVars, setVars>>

\* Mutant: every logout gives up control.
RecvLogOutReleasing ==
    /\ pc = "recv"
    /\ client_state \in Logged
    /\ SetState("Connected")
    /\ m_client_taking_control' = NoIndex
    /\ NextClient
    /\ UNCHANGED <<m_nb_connected_clients, open_fds, queueVars, setVars>>

RecvLogOut ==
    /\ pc = "recv"
    /\ client_state \in Logged
    /\ SetState("Connected")
    /\ m_client_taking_control' =
            IF client_state = "TakingControl" THEN NoIndex ELSE m_client_taking_control
    /\ NextClient
    /\ UNCHANGED <<m_nb_connected_clients, open_fds, queueVars, setVars>>

\* Mutant: a visitor may give commands too.
RecvCommandOfVisitor ==
    /\ pc = "recv"
    /\ client_state \in Logged
    /\ rx_frames_buffer < RxBufferSize
    /\ rx_frames_buffer' = rx_frames_buffer + 1
    /\ NextClient
    /\ UNCHANGED <<listVars, tx_frames_buffer, m_status_data_to_send, setVars>>

\* Any other frame, from a client in control: stored, or lost if there is no room.
RecvCommand ==
    /\ pc = "recv"
    /\ client_state = "TakingControl"
    /\ rx_frames_buffer' = IF rx_frames_buffer < RxBufferSize
                           THEN rx_frames_buffer + 1 ELSE rx_frames_buffer
    /\ NextClient
    /\ UNCHANGED <<listVars, tx_frames_buffer, m_status_data_to_send, setVars>>

-----------------------------------------------------------------------------

OwnerCall ==
    \/ SetServerLogin
    \/ \E interface \in Interfaces : SetUdpFd(interface)
    \/ \E fd \in Fds, interface \in Interfaces : AddClient(fd, interface)
    \/ SendStatus
    \/ SendTcpMsg
    \/ GetRecvTcpMsg

UpdateStep ==
    \/ BeginUpdate \/ BeginTurn \/ EndUpdate
    \/ SkipStatus \/ StatusSent \/ StatusFailed
    \/ SkipSend \/ MsgSent \/ MsgFailed
    \/ RecvNothing \/ RecvFailed
    \/ RecvLogIn \/ RecvSuperLogIn \/ RecvLogOut \/ RecvCommand

Next == OwnerCall \/ UpdateStep

Spec == Init /\ [][Next]_vars

\* The main loop calls update() again and again, and update() does not block:
\* every socket is non-blocking.
FairSpec == Spec /\ WF_vars(UpdateStep)

-----------------------------------------------------------------------------
(* Properties                                                              *)

\* Every variable has a value of its kind.
TypeOK ==
    /\ m_clients \in [Slots -> Client]
    /\ m_nb_connected_clients \in 0 .. NbAllowedClients
    /\ m_client_taking_control \in Slots \cup {NoIndex}
    /\ m_server_login \in BOOLEAN
    /\ m_udpfd \subseteq Interfaces
    /\ rx_frames_buffer \in 0 .. RxBufferSize
    /\ tx_frames_buffer \in 0 .. TxBufferSize
    /\ m_status_data_to_send \in 0 .. TxBufferSize
    /\ open_fds \subseteq Fds
    /\ pc \in {"idle", "loop", "status", "send", "recv"}
    /\ client_idx \in 0 .. NbAllowedClients
    /\ client_state \in SlotStates
    /\ opt_msg \in BOOLEAN
    /\ opt_status_data \in BOOLEAN

\* The list and lwIP agree, whatever order clients come and go in: the listed
\* clients have the open descriptors, each exactly one, so that deleteClient()
\* (clients.h:107) never leaks a descriptor and never closes one twice; and
\* what its shift reads past the end of the array never enters the list.
ListSound ==
    /\ open_fds = {m_clients[i].m_socket : i \in Listed}
    /\ \A i, j \in Listed : m_clients[i].m_socket = m_clients[j].m_socket => i = j
    /\ \A i \in Slots \ Listed : m_clients[i].m_socket = NoFd
    /\ \A i \in Listed : /\ m_clients[i].m_state \in ListedStates
                         /\ m_clients[i].m_connected_at \in Interfaces

\* "Only one client have state TakingControl" (clients.h:12): never two, also
\* after deletions have moved the holder away from the index that was recorded
\* for it, which only ever moves it down.
OneHolder ==
    /\ \A i, j \in Holders : i = j
    /\ \A i \in Holders : i <= m_client_taking_control

\* While a client has its turn, client_state is what that client's state is;
\* or a status message failed, the client was deleted, the next one slid into
\* its slot, and client_state is what the deleted client's state was.  A stale
\* "TakingControl" then belongs to a holder that is gone, and so is control.
TurnSound ==
    pc \in {"status", "send", "recv"} =>
        /\ client_idx < NbAllowedClients
        /\ \/ /\ client_idx \in Listed
              /\ client_state = m_clients[client_idx].m_state
           \/ /\ pc # "status" /\ opt_status_data
              /\ client_state \in Logged
              /\ client_state = "TakingControl" => m_client_taking_control = NoIndex

\* The inductive invariant the proofs use.
IInv == TypeOK /\ ListSound /\ OneHolder /\ TurnSound

\* Control is given up only in the turn of the client that has it, by its
\* logout or its deletion (clients.h:114, 441), though the index the code keeps
\* for the holder may be out of date.
ReleasedByHolder ==
    [][m_client_taking_control # NoIndex /\ m_client_taking_control' = NoIndex
            => client_idx \in Holders]_vars

\* A command is stored for the owner only if the client it was read from has
\* control (clients.h:13, 447), in every pass that sends no status message.
CommandsFromHolder ==
    [][rx_frames_buffer' > rx_frames_buffer /\ ~opt_status_data
            => client_idx \in Holders]_vars

\* The session of the client behind a descriptor.
SessionOf(fd) ==
    IF \E i \in Listed : m_clients[i].m_socket = fd
    THEN m_clients[CHOOSE i \in Listed : m_clients[i].m_socket = fd].m_state
    ELSE "None"

Abstract == INSTANCE Sessions WITH session <- [fd \in Fds |-> SessionOf(fd)]

\* The list implements Sessions: shifting it never gives a client the
\* authentication of another, and control is never taken over.
SessionsHold == Abstract!SessionSpec

ReadFrom(fd) == pc = "recv" /\ client_idx < NbAllowedClients /\ m_clients[client_idx].m_socket = fd

\* No client starves: though a pass ends at the first client that fails
\* (clients.h:346), every listed client is read again, or is gone.
EveryClientRead ==
    \A fd \in Fds : fd \in open_fds ~> (ReadFrom(fd) \/ fd \notin open_fds)

=============================================================================
