---------------------------- MODULE RunningServer ----------------------------
(***************************************************************************)
(* NetServer in state Running (application/network/server/server.cpp):     *)
(* the one task that uses the list of clients, and the timer that feeds it *)
(* status messages.  Clients.tla lets its owner call it in any order; here *)
(* the calls come in the order of NetServer::start() and of the Running    *)
(* case of NetServer::update().                                            *)
(*                                                                         *)
(* The server runs with all its sockets ready (NetServer.tla), so both UDP *)
(* descriptors are there to be set.  Nothing calls tryToSendTcpMsg().      *)
(***************************************************************************)
EXTENDS Clients

CONSTANT PendingSize        \* capacity of m_pending_status_data

ASSUME RunningAssumption == PendingSize \in Nat \ {0}

VARIABLES
    stage,                  \* what update() does next
    m_pending_status_data   \* how many status messages the timer has left

serverVars == <<vars, stage, m_pending_status_data>>

Stages == {"stopped", "ap", "sta", "accept", "status", "clients", "recv"}

ServerInit ==
    /\ Init
    /\ stage = "stopped"
    /\ m_pending_status_data = 0

Then(next) == stage' = next /\ UNCHANGED m_pending_status_data

\* start() sets the login of the server before there can be a client.
Start ==
    /\ stage = "stopped"
    /\ SetServerLogin
    /\ Then("ap")

SetApUdpFd ==
    /\ stage = "ap"
    /\ SetUdpFd("Ap")
    /\ Then("sta")

SetStaUdpFd ==
    /\ stage = "sta"
    /\ SetUdpFd("Sta")
    /\ Then("accept")

\* tryToConnetClient(): at most one client in a pass.
Accept ==
    /\ stage = "accept"
    /\ \E fd \in Fds, interface \in Interfaces : AddClient(fd, interface)
    /\ Then("status")

AcceptNone ==
    /\ stage = "accept"
    /\ UNCHANGED vars
    /\ Then("status")

\* tryToSendStatus(): one pending status message goes to the clients' queue,
\* which refuses it if it is full.
PassStatus ==
    /\ stage = "status"
    /\ m_pending_status_data > 0
    /\ IF m_status_data_to_send < TxBufferSize THEN SendStatus ELSE UNCHANGED vars
    /\ m_pending_status_data' = m_pending_status_data - 1
    /\ stage' = "clients"

PassNoStatus ==
    /\ stage = "status"
    /\ m_pending_status_data = 0
    /\ UNCHANGED vars
    /\ Then("clients")

\* m_clients.update(), to its return.
UpdateClients ==
    /\ stage = "clients"
    /\ UpdateStep
    /\ Then(IF pc' = "idle" THEN "recv" ELSE "clients")

\* tryToRecvTcpMsg(): at most one command in a pass.
TakeCommand ==
    /\ stage = "recv"
    /\ IF rx_frames_buffer > 0 THEN GetRecvTcpMsg ELSE UNCHANGED vars
    /\ Then("ap")

\* Mutant: a push that does not look whether the queue is full.
Timer25msUnchecked ==
    /\ stage # "stopped"
    /\ m_pending_status_data' = m_pending_status_data + 1
    /\ UNCHANGED <<vars, stage>>

\* tryToSendMsg25ms(), the callback of the timer, in a task of its own.
Timer25ms ==
    /\ stage # "stopped"
    /\ m_pending_status_data < PendingSize
    /\ m_pending_status_data' = m_pending_status_data + 1
    /\ UNCHANGED <<vars, stage>>

MainTask ==
    \/ Start \/ SetApUdpFd \/ SetStaUdpFd \/ Accept \/ AcceptNone
    \/ PassStatus \/ PassNoStatus \/ UpdateClients \/ TakeCommand

ServerNext == MainTask \/ Timer25ms

ServerSpec == ServerInit /\ [][ServerNext]_serverVars

-----------------------------------------------------------------------------
(* Properties                                                              *)

\* Every variable has a value of its kind.
ServerTypeOK ==
    /\ TypeOK
    /\ stage \in Stages
    /\ m_pending_status_data \in 0 .. PendingSize

\* One pass stores at most one command, though up to NbAllowedClients clients
\* are read in it, list positions change under the loop, and control can change
\* hands; and the owner takes it before the next pass (server.cpp:106, :108).
\* So rx_frames_buffer never has to refuse a command.
NoCommandDropped == rx_frames_buffer <= 1

\* A pass takes every status message that the owner has passed on, so that
\* m_status_data_to_send never has to refuse one (server.cpp:103, :106).
NoStatusDropped == m_status_data_to_send <= 1

\* Why: while a pass runs with a command stored, the loop is beyond every holder.
PassSound ==
    /\ stage # "clients" => pc = "idle"
    /\ stage \in {"ap", "sta", "accept", "status", "stopped"} =>
            rx_frames_buffer = 0 /\ m_status_data_to_send = 0
    /\ pc # "idle" => m_status_data_to_send = 0
    /\ stage = "clients" /\ pc = "idle" => rx_frames_buffer = 0
    /\ stage = "recv" => m_status_data_to_send = 0
    /\ rx_frames_buffer > 0 /\ pc # "idle" =>
            /\ \A i \in Holders : i < client_idx
            /\ pc # "loop" => client_state # "TakingControl"

\* "Only one client have state TakingControl and can send messages to server"
\* (clients.h:12): a command read from a listed client is stored only if that
\* client has control.
OnlyHolderGivesCommands ==
    [][rx_frames_buffer' > rx_frames_buffer /\ client_idx \in Listed
            => client_idx \in Holders]_serverVars

\* "make sure to check if isSome() before trying to getData()" (option.h:28):
\* somebody has control when a command is logged together with who has it
\* (server.cpp:158), although nothing checks that there.
ControlKnownWhenLogged ==
    stage = "recv" /\ rx_frames_buffer > 0 => m_client_taking_control # NoIndex

=============================================================================
