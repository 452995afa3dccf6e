------------------------- MODULE RunningServerProofs -------------------------
(***************************************************************************)
(* Proofs about RunningServer, for every number of clients and every       *)
(* capacity of the buffers.                                                *)
(***************************************************************************)
EXTENDS RunningServer, ClientsProofs

USE DEF NoIndex, Interfaces, Logged, ListedStates, SlotStates

\* The server uses the list of clients only as Clients.tla allows, so that all
\* that is proved of Clients is true of the list of the running server.
THEOREM ServerUsesClients == ServerSpec => Spec
PROOF
<1>1. ServerInit => Init
    BY DEF ServerInit
<1>2. [ServerNext]_serverVars => [Next]_vars
    <2>1. ASSUME ServerNext
          PROVE  [Next]_vars
        <3>1. CASE Start \/ SetApUdpFd \/ SetStaUdpFd
            <4>1. "Ap" \in Interfaces /\ "Sta" \in Interfaces
                OBVIOUS
            <4>2. SetServerLogin \/ \E interface \in Interfaces : SetUdpFd(interface)
                BY <3>1, <4>1 DEF Start, SetApUdpFd, SetStaUdpFd
            <4>3. QED
                BY <4>2 DEF Next, OwnerCall
        <3>2. CASE Accept \/ AcceptNone
            BY <3>2 DEF Accept, AcceptNone, Next, OwnerCall
        <3>3. CASE PassStatus \/ PassNoStatus
            BY <3>3 DEF PassStatus, PassNoStatus, Next, OwnerCall
        <3>4. CASE UpdateClients
            BY <3>4 DEF UpdateClients, Next
        <3>5. CASE TakeCommand
            BY <3>5 DEF TakeCommand, Next, OwnerCall
        <3>6. CASE Timer25ms
            BY <3>6 DEF Timer25ms
        <3>7. QED
            BY <2>1, <3>1, <3>2, <3>3, <3>4, <3>5, <3>6 DEF ServerNext, MainTask
    <2>2. QED
        BY <2>1 DEF serverVars
<1>3. QED
    BY <1>1, <1>2, PTL DEF ServerSpec, Spec

\* In the running server, too, at most one client has control.
THEOREM ServerHolderIsUnique == ServerSpec => []OneHolder
PROOF
    BY ServerUsesClients, HolderIsUnique, PTL

-----------------------------------------------------------------------------
(* Why no buffer of Clients ever refuses anything.                         *)

PassInv == ServerTypeOK /\ IInv /\ PassSound /\ NoCommandDropped /\ NoStatusDropped

\* deleteClient() moves a holder down at most.
LEMMA HolderMovesDown ==
    ASSUME TypeOK, ListSound, NEW idx \in 0 .. NbAllowedClients, DeleteClient(idx), NEW i \in Holders'
    PROVE  \E j \in Holders : i <= j
PROOF
<1>1. CASE idx \notin Listed
    <2>1. UNCHANGED listVars
        BY <1>1 DEF DeleteClient, TypeOK, Listed
    <2>2. QED
        BY <2>1 DEF listVars, Holders, Listed, TypeOK
<1>2. CASE idx \in Listed
    <2>1. m_nb_connected_clients \in 1 .. NbAllowedClients
          /\ m_nb_connected_clients' = m_nb_connected_clients - 1
          /\ \A k \in Listed' : m_clients'[k] = IF k < idx THEN m_clients[k] ELSE m_clients[k + 1]
        BY <1>2, DeleteShifts
    <2>2. CASE i < idx
        BY <1>2, <2>1, <2>2 DEF Holders, Listed
    <2>3. CASE i >= idx
        <3>1. i + 1 \in Holders /\ i <= i + 1
            BY <1>2, <2>1, <2>3 DEF Holders, Listed
        <3>2. QED
            BY <3>1
    <2>4. QED
        BY <1>2, <2>2, <2>3 DEF Holders, Listed
<1>3. QED
    BY <1>1, <1>2

LEMMA PassInit ==
    ASSUME ServerInit
    PROVE  PassInv
PROOF
<1>1. IInv
    BY InitEstablishes DEF ServerInit
<1>2. ServerTypeOK
    <2>1. TypeOK
        BY <1>1 DEF IInv
    <2>2. stage \in Stages /\ m_pending_status_data \in 0 .. PendingSize
        BY RunningAssumption DEF ServerInit, Stages
    <2>3. QED
        BY <2>1, <2>2 DEF ServerTypeOK
<1>3. stage = "stopped" /\ pc = "idle" /\ rx_frames_buffer = 0 /\ m_status_data_to_send = 0
    BY DEF ServerInit, Init
<1>4. PassSound /\ NoCommandDropped /\ NoStatusDropped
    BY <1>3 DEF PassSound, NoCommandDropped, NoStatusDropped
<1>5. QED
    BY <1>1, <1>2, <1>4 DEF PassInv

\* The steps of the main task between two updates of the clients.
LEMMA BetweenPassesPreserves ==
    ASSUME PassInv, IInv',
           \/ Start \/ SetApUdpFd \/ SetStaUdpFd \/ Accept \/ AcceptNone
           \/ PassStatus \/ PassNoStatus \/ TakeCommand \/ Timer25ms
    PROVE  PassInv'
PROOF
<1>1. ServerTypeOK'
    <2>1. TypeOK'
        BY DEF IInv
    <2>2. m_pending_status_data \in 0 .. PendingSize /\ stage \in Stages
        BY DEF PassInv, ServerTypeOK
    <2>3. stage' \in Stages
        BY <2>2 DEF Stages, Start, SetApUdpFd, SetStaUdpFd, Accept, AcceptNone, PassStatus,
                    PassNoStatus, TakeCommand, Timer25ms, Then
    <2>4. m_pending_status_data' \in 0 .. PendingSize
        BY <2>2, RunningAssumption
           DEF Start, SetApUdpFd, SetStaUdpFd, Accept, AcceptNone, PassStatus, PassNoStatus,
               TakeCommand, Timer25ms, Then
    <2>5. QED
        BY <2>1, <2>3, <2>4 DEF ServerTypeOK
<1>2. CASE Start \/ SetApUdpFd \/ SetStaUdpFd \/ Accept \/ AcceptNone
    <2>1. UNCHANGED <<rx_frames_buffer, m_status_data_to_send, pc>>
        BY <1>2 DEF Start, SetApUdpFd, SetStaUdpFd, Accept, AcceptNone, SetServerLogin, SetUdpFd,
                    AddClient, vars, queueVars, localVars
    <2>2. /\ stage \in {"ap", "sta", "accept", "stopped"}
          /\ stage' \in {"ap", "sta", "accept", "status"}
        BY <1>2 DEF Start, SetApUdpFd, SetStaUdpFd, Accept, AcceptNone, Then
    <2>3. PassSound' /\ NoCommandDropped' /\ NoStatusDropped'
        BY <2>1, <2>2 DEF PassInv, PassSound, NoCommandDropped, NoStatusDropped
    <2>4. QED
        BY <1>1, <2>3 DEF PassInv
<1>3. CASE PassStatus \/ PassNoStatus
    <2>1. UNCHANGED <<rx_frames_buffer, pc>>
        BY <1>3 DEF PassStatus, PassNoStatus, SendStatus, vars, queueVars, localVars
    <2>2. stage = "status" /\ stage' = "clients" /\ pc = "idle"
          /\ rx_frames_buffer = 0 /\ m_status_data_to_send = 0
        BY <1>3 DEF PassStatus, PassNoStatus, Then, PassInv, PassSound
    <2>3. m_status_data_to_send' <= 1
        BY <1>3, <2>2 DEF PassStatus, PassNoStatus, SendStatus, vars, queueVars
    <2>4. PassSound' /\ NoCommandDropped' /\ NoStatusDropped'
        BY <2>1, <2>2, <2>3 DEF PassSound, NoCommandDropped, NoStatusDropped
    <2>5. QED
        BY <1>1, <2>4 DEF PassInv
<1>4. CASE TakeCommand
    <2>1. UNCHANGED <<m_status_data_to_send, pc>>
        BY <1>4 DEF TakeCommand, GetRecvTcpMsg, vars, queueVars, localVars
    <2>2. stage = "recv" /\ stage' = "ap" /\ pc = "idle" /\ m_status_data_to_send = 0
        BY <1>4 DEF TakeCommand, Then, PassInv, PassSound
    <2>3. rx_frames_buffer' = 0
        <3>1. rx_frames_buffer \in Nat /\ rx_frames_buffer <= 1
            BY DEF PassInv, ServerTypeOK, TypeOK, NoCommandDropped
        <3>2. CASE rx_frames_buffer > 0
            <4>1. rx_frames_buffer' = rx_frames_buffer - 1
                BY <1>4, <3>2 DEF TakeCommand, GetRecvTcpMsg
            <4>2. QED
                BY <3>1, <3>2, <4>1
        <3>3. CASE ~ (rx_frames_buffer > 0)
            <4>1. rx_frames_buffer' = rx_frames_buffer
                BY <1>4, <3>3 DEF TakeCommand, vars, queueVars
            <4>2. QED
                BY <3>1, <3>3, <4>1
        <3>4. QED
            BY <3>2, <3>3
    <2>4. PassSound' /\ NoCommandDropped' /\ NoStatusDropped'
        BY <2>1, <2>2, <2>3 DEF PassSound, NoCommandDropped, NoStatusDropped
    <2>5. QED
        BY <1>1, <2>4 DEF PassInv
<1>5. CASE Timer25ms
    BY <1>1, <1>5 DEF Timer25ms, PassInv, PassSound, NoCommandDropped, NoStatusDropped, vars, listVars,
                      queueVars, localVars, Holders, Listed
<1>6. QED
    BY <1>2, <1>3, <1>4, <1>5

\* The steps of update(): a command is stored only in the turn of the one client
\* that has control, and control can then only be with clients already visited.
LEMMA UpdatePreserves ==
    ASSUME PassInv, IInv', UpdateClients
    PROVE  PassInv'
PROOF
<1>1. /\ stage = "clients" /\ UpdateStep
      /\ stage' = IF pc' = "idle" THEN "recv" ELSE "clients"
      /\ m_pending_status_data' = m_pending_status_data
    BY DEF UpdateClients, Then
<1>2. ServerTypeOK'
    <2>1. TypeOK'
        BY DEF IInv
    <2>2. stage' \in Stages
        BY <1>1 DEF Stages
    <2>3. QED
        BY <1>1, <2>1, <2>2 DEF PassInv, ServerTypeOK
<1>. DEFINE Beyond == rx_frames_buffer > 0 /\ pc # "idle" =>
                        /\ \A i \in Holders : i < client_idx
                        /\ pc # "loop" => client_state # "TakingControl"
<1>3. /\ rx_frames_buffer \in Nat /\ rx_frames_buffer <= 1
      /\ m_status_data_to_send \in Nat /\ m_status_data_to_send <= 1
      /\ pc # "idle" => m_status_data_to_send = 0
      /\ pc = "idle" => rx_frames_buffer = 0
      /\ client_idx \in 0 .. NbAllowedClients
      /\ Beyond
    BY <1>1 DEF PassInv, ServerTypeOK, TypeOK, NoCommandDropped, NoStatusDropped, PassSound
<1>4. Listed \subseteq 0 .. NbAllowedClients /\ Holders \subseteq Listed
    BY ClientsAssumption DEF PassInv, IInv, TypeOK, Listed, Holders
\* It is enough to show what the step does to the two queues and to Beyond.
<1>5. ASSUME m_status_data_to_send' = 0, rx_frames_buffer' <= 1, Beyond'
      PROVE  PassInv'
    <2>1. PassSound'
        BY <1>1, <1>5 DEF PassSound
    <2>2. NoCommandDropped' /\ NoStatusDropped'
        BY <1>5 DEF NoCommandDropped, NoStatusDropped
    <2>3. QED
        BY <1>2, <2>1, <2>2 DEF PassInv
<1>6. CASE BeginUpdate
    <2>1. rx_frames_buffer' = 0 /\ m_status_data_to_send' = 0
        BY <1>3, <1>6 DEF BeginUpdate
    <2>2. QED
        BY <1>5, <2>1
<1>7. ASSUME pc # "idle", UNCHANGED queueVars
      PROVE  rx_frames_buffer' = rx_frames_buffer /\ rx_frames_buffer' <= 1 /\ m_status_data_to_send' = 0
    BY <1>3, <1>7 DEF queueVars
<1>8. CASE BeginTurn
    <2>1. rx_frames_buffer' = rx_frames_buffer /\ rx_frames_buffer' <= 1 /\ m_status_data_to_send' = 0
        BY <1>7, <1>8 DEF BeginTurn
    <2>2. Holders' = Holders /\ client_idx' = client_idx
        BY <1>8 DEF BeginTurn, listVars, Holders, Listed
    <2>3. client_idx \in Listed /\ client_state' = m_clients[client_idx].m_state /\ pc = "loop"
        BY <1>3, <1>8 DEF BeginTurn, Listed, PassInv, IInv, TypeOK
    <2>4. rx_frames_buffer > 0 => client_idx \notin Holders
        BY <1>3, <2>3
    <2>5. Beyond'
        BY <1>3, <2>1, <2>2, <2>3, <2>4 DEF Holders
    <2>6. QED
        BY <1>5, <2>1, <2>5
<1>9. CASE EndUpdate \/ MsgFailed \/ RecvFailed
    <2>1. pc # "idle" /\ UNCHANGED queueVars /\ pc' = "idle"
        BY <1>9 DEF EndUpdate, MsgFailed, RecvFailed, Return
    <2>2. QED
        BY <1>5, <1>7, <2>1
<1>10. CASE SkipStatus \/ StatusSent \/ SkipSend \/ MsgSent
    <2>1. pc \in {"status", "send"} /\ UNCHANGED <<queueVars, listVars, client_idx, client_state>>
        BY <1>10 DEF SkipStatus, StatusSent, SkipSend, MsgSent, Goto
    <2>2. Holders' = Holders
        BY <2>1 DEF listVars, Holders, Listed
    <2>3. Beyond'
        BY <1>3, <2>1, <2>2 DEF queueVars
    <2>4. QED
        BY <1>5, <1>7, <2>1, <2>3
<1>11. CASE StatusFailed
    <2>1. /\ pc = "status" /\ UNCHANGED <<queueVars, client_idx, client_state>>
          /\ DeleteClient(client_idx)
        BY <1>11 DEF StatusFailed, Goto
    <2>2. ASSUME NEW i \in Holders', \A j \in Holders : j < client_idx
          PROVE  i < client_idx
        <3>1. PICK j \in Holders : i <= j
            BY <1>3, <2>1, HolderMovesDown DEF PassInv, IInv
        <3>2. i \in Int /\ j \in Int
            BY <1>4, <3>1 DEF Holders, Listed, IInv, TypeOK
        <3>3. QED
            BY <1>3, <2>2, <3>1, <3>2
    <2>3. Beyond'
        BY <1>3, <2>1, <2>2 DEF queueVars
    <2>4. QED
        BY <1>5, <1>7, <2>1, <2>3
<1>12. CASE RecvNothing \/ RecvLogIn \/ RecvLogOut
    <2>1. pc = "recv" /\ pc' = "loop" /\ UNCHANGED queueVars /\ client_idx' = client_idx + 1
        BY <1>12 DEF RecvNothing, RecvLogIn, RecvLogOut, NextClient
    <2>2. Holders' \subseteq Holders
        <3>1. CASE RecvNothing
            BY <3>1 DEF RecvNothing, listVars, Holders, Listed
        <3>2. CASE RecvLogIn \/ RecvLogOut
            <4>1. PICK state \in {"Authenticated", "Connected"} : SetState(state)
                BY <3>2 DEF RecvLogIn, RecvLogOut
            <4>2. UNCHANGED <<m_nb_connected_clients, open_fds>> /\ client_idx \in Slots
                BY <3>2, TurnInArray DEF RecvLogIn, RecvLogOut, PassInv, IInv
            <4>3. QED
                BY <4>1, <4>2, SetStateKeepsList DEF PassInv, IInv, Holders
        <3>3. QED
            BY <1>12, <3>1, <3>2
    <2>3. Beyond'
        BY <1>3, <1>4, <2>1, <2>2 DEF queueVars
    <2>4. QED
        BY <1>5, <1>7, <2>1, <2>3
<1>13. CASE RecvSuperLogIn
    <2>1. /\ pc = "recv" /\ pc' = "loop" /\ UNCHANGED queueVars /\ client_idx' = client_idx + 1
          /\ m_client_taking_control = NoIndex /\ SetState("TakingControl")
          /\ UNCHANGED <<m_nb_connected_clients, open_fds>>
        BY <1>13 DEF RecvSuperLogIn, NextClient
    <2>2. Holders = {} /\ client_idx \in Slots
        BY <2>1, NoIndexNoHolder, TurnInArray DEF PassInv, IInv
    <2>3. Holders' \subseteq {client_idx}
        BY <2>1, <2>2, SetStateKeepsList DEF PassInv, IInv, Holders
    <2>4. Beyond'
        BY <1>3, <2>1, <2>3
    <2>5. QED
        BY <1>5, <1>7, <2>1, <2>4
<1>14. CASE RecvCommand
    <2>1. /\ pc = "recv" /\ pc' = "loop" /\ UNCHANGED <<listVars, m_status_data_to_send>>
          /\ client_idx' = client_idx + 1 /\ client_state = "TakingControl"
        BY <1>14 DEF RecvCommand, NextClient
    <2>2. rx_frames_buffer = 0
        BY <1>3, <2>1
    <2>3. rx_frames_buffer' <= 1 /\ m_status_data_to_send' = 0
        BY <1>3, <1>14, <2>1, <2>2 DEF RecvCommand
    <2>4. Holders' = Holders
        BY <2>1 DEF listVars, Holders, Listed
    <2>5. Holders \subseteq {client_idx}
        <3>1. CASE client_idx \in Listed /\ client_state = m_clients[client_idx].m_state
            BY <2>1, <3>1 DEF PassInv, IInv, OneHolder, Holders
        <3>2. CASE m_client_taking_control = NoIndex
            BY <3>2, NoIndexNoHolder DEF PassInv, IInv
        <3>3. QED
            BY <2>1, <3>1, <3>2 DEF PassInv, IInv, TurnSound
    <2>6. Beyond'
        BY <1>3, <2>1, <2>4, <2>5
    <2>7. QED
        BY <1>5, <2>3, <2>6
<1>15. QED
    BY <1>1, <1>6, <1>8, <1>9, <1>10, <1>11, <1>12, <1>13, <1>14 DEF UpdateStep

LEMMA ServerStepPreserves ==
    ASSUME PassInv, IInv', [ServerNext]_serverVars
    PROVE  PassInv'
PROOF
<1>1. CASE ServerNext
    BY <1>1, BetweenPassesPreserves, UpdatePreserves DEF ServerNext, MainTask
<1>2. CASE UNCHANGED serverVars
    <2>1. UNCHANGED <<vars, stage, m_pending_status_data>>
        BY <1>2 DEF serverVars
    <2>2. UNCHANGED <<rx_frames_buffer, m_status_data_to_send, pc, client_idx, client_state, Holders>>
        BY <2>1 DEF vars, listVars, queueVars, localVars, Holders, Listed
    <2>3. ServerTypeOK'
        BY <2>1 DEF PassInv, ServerTypeOK, IInv
    <2>4. PassSound' /\ NoCommandDropped' /\ NoStatusDropped'
        BY <2>1, <2>2 DEF PassInv, PassSound, NoCommandDropped, NoStatusDropped
    <2>5. QED
        BY <2>3, <2>4 DEF PassInv
<1>3. QED
    BY <1>1, <1>2

\* PassInv is an invariant of the running server.
THEOREM ServerInvariance == ServerSpec => []PassInv
PROOF
<1>1. ServerSpec => []IInv
    BY ServerUsesClients, Invariance, PTL
<1>2. PassInv /\ IInv' /\ [ServerNext]_serverVars => PassInv'
    BY ServerStepPreserves
<1>3. ServerInit => PassInv
    BY PassInit
<1>4. QED
    BY <1>1, <1>2, <1>3, PTL DEF ServerSpec

\* Every variable of the running server keeps a value of its kind: the timer
\* never overfills the buffer it shares with the main task.
THEOREM ServerTypeCorrect == ServerSpec => []ServerTypeOK
PROOF
<1>1. PassInv => ServerTypeOK
    BY DEF PassInv
<1>2. QED
    BY <1>1, ServerInvariance, PTL

\* While a pass runs with a command stored, the loop is beyond every holder.
THEOREM PassIsSound == ServerSpec => []PassSound
PROOF
<1>1. PassInv => PassSound
    BY DEF PassInv
<1>2. QED
    BY <1>1, ServerInvariance, PTL

\* However many clients there are, one pass stores at most one command: the
\* buffer of commands never refuses one.
THEOREM CommandsNeverDropped == ServerSpec => []NoCommandDropped
PROOF
<1>1. PassInv => NoCommandDropped
    BY DEF PassInv
<1>2. QED
    BY <1>1, ServerInvariance, PTL

\* The buffer of status messages of the clients never refuses one.
THEOREM StatusNeverDropped == ServerSpec => []NoStatusDropped
PROOF
<1>1. PassInv => NoStatusDropped
    BY DEF PassInv
<1>2. QED
    BY <1>1, ServerInvariance, PTL

=============================================================================
