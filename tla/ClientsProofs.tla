---------------------------- MODULE ClientsProofs ----------------------------
(***************************************************************************)
(* Proofs about Clients, for every length of the list, every set of        *)
(* descriptors and every outcome of the read past the end of the array.    *)
(***************************************************************************)
EXTENDS Clients, TLAPS

USE DEF NoIndex, Interfaces, Logged, ListedStates, SlotStates

-----------------------------------------------------------------------------
(* deleteClient()                                                          *)

\* What deleteClient() leaves of a listed client: the clients before it stay
\* where they are, those after it move down by one, and what the shift read
\* past the end of the array is in no listed slot.
LEMMA DeleteShifts ==
    ASSUME TypeOK, ListSound, NEW idx \in Listed, DeleteClient(idx)
    PROVE  /\ m_nb_connected_clients \in 1 .. NbAllowedClients
           /\ m_nb_connected_clients' = m_nb_connected_clients - 1
           /\ m_clients' \in [Slots -> Client]
           /\ \A i \in Listed' : m_clients'[i] = IF i < idx THEN m_clients[i] ELSE m_clients[i + 1]
           /\ \A i \in Slots \ Listed' : m_clients'[i].m_socket = NoFd
PROOF
<1>1. m_nb_connected_clients \in 1 .. NbAllowedClients /\ idx \in 0 .. m_nb_connected_clients - 1
    BY DEF TypeOK, Listed
<1>2. PICK oob \in OutOfBounds :
        m_clients' = [i \in Slots |-> IF i \in idx .. m_nb_connected_clients - 1
                                      THEN Past(i, oob) ELSE m_clients[i]]
    BY <1>1 DEF DeleteClient
<1>3. m_nb_connected_clients' = m_nb_connected_clients - 1
    BY <1>1 DEF DeleteClient
<1>4. oob \in Client /\ oob.m_socket = NoFd
    BY <1>2, ClientsAssumption
<1>5. \A i \in Slots : Past(i, oob) \in Client
    BY <1>4, ClientsAssumption DEF Past, TypeOK, Slots
<1>6. m_clients' \in [Slots -> Client]
    BY <1>2, <1>5 DEF TypeOK
<1>7. ASSUME NEW i \in Listed'
      PROVE  m_clients'[i] = IF i < idx THEN m_clients[i] ELSE m_clients[i + 1]
    BY <1>1, <1>2, <1>3, ClientsAssumption DEF Past, TypeOK, Slots, Listed
<1>8. ASSUME NEW i \in Slots \ Listed'
      PROVE  m_clients'[i].m_socket = NoFd
    BY <1>1, <1>2, <1>3, <1>4, ClientsAssumption DEF Past, TypeOK, Slots, Listed, ListSound
<1>9. QED
    BY <1>1, <1>3, <1>6, <1>7, <1>8

\* deleteClient(i), for any i of the array or past it, keeps the list sound.
LEMMA DeleteKeepsList ==
    ASSUME TypeOK, ListSound, NEW idx \in 0 .. NbAllowedClients, DeleteClient(idx)
    PROVE  /\ m_clients' \in [Slots -> Client]
           /\ m_nb_connected_clients' \in 0 .. NbAllowedClients
           /\ m_client_taking_control' \in Slots \cup {NoIndex}
           /\ open_fds' \subseteq Fds
           /\ ListSound'
PROOF
<1>1. CASE idx \notin Listed
    <2>1. UNCHANGED listVars
        BY <1>1 DEF DeleteClient, TypeOK, Listed
    <2>2. QED
        BY <2>1 DEF listVars, TypeOK, ListSound, Listed
<1>2. CASE idx \in Listed
    <2>. DEFINE Old(i) == IF i < idx THEN i ELSE i + 1
    <2>1. m_nb_connected_clients \in 1 .. NbAllowedClients
          /\ m_nb_connected_clients' = m_nb_connected_clients - 1
          /\ m_clients' \in [Slots -> Client]
        BY <1>2, DeleteShifts
    <2>2. \A i \in Listed' : Old(i) \in Listed \ {idx} /\ m_clients'[i] = m_clients[Old(i)]
        BY <1>2, <2>1, DeleteShifts DEF Listed
    <2>3. \A j \in Listed \ {idx} : \E i \in Listed' : Old(i) = j
        <3>1. TAKE j \in Listed \ {idx}
        <3>2. CASE j < idx
            BY <1>2, <2>1, <3>2 DEF Listed
        <3>3. CASE j > idx
            <4>1. j - 1 \in Listed' /\ Old(j - 1) = j
                BY <1>2, <2>1, <3>3 DEF Listed
            <4>2. QED
                BY <4>1
        <3>4. QED
            BY <1>2, <3>2, <3>3 DEF Listed
    <2>4. open_fds' = open_fds \ {m_clients[idx].m_socket}
          /\ m_client_taking_control' =
                IF m_clients[idx].m_state = "TakingControl"
                THEN NoIndex ELSE m_client_taking_control
        BY <1>2, <2>1 DEF DeleteClient, Listed
    <2>5. open_fds' = {m_clients'[i].m_socket : i \in Listed'}
        <3>. HIDE DEF Old
        <3>1. open_fds' = {m_clients[j].m_socket : j \in Listed \ {idx}}
            BY <1>2, <2>4 DEF ListSound
        <3>2. {m_clients[j].m_socket : j \in Listed \ {idx}} \subseteq {m_clients'[i].m_socket : i \in Listed'}
            BY <2>2, <2>3
        <3>3. {m_clients'[i].m_socket : i \in Listed'} \subseteq {m_clients[j].m_socket : j \in Listed \ {idx}}
            BY <2>2
        <3>4. QED
            BY <3>1, <3>2, <3>3
    <2>6. ASSUME NEW i \in Listed', NEW j \in Listed', m_clients'[i].m_socket = m_clients'[j].m_socket
          PROVE  i = j
        <3>1. Old(i) = Old(j)
            BY <2>2, <2>6 DEF ListSound
        <3>2. QED
            BY <2>1, <1>2, <3>1 DEF Listed
    <2>7. \A i \in Slots \ Listed' : m_clients'[i].m_socket = NoFd
        BY <1>2, DeleteShifts
    <2>8. \A i \in Listed' : m_clients'[i].m_state \in ListedStates
                             /\ m_clients'[i].m_connected_at \in Interfaces
        <3>. HIDE DEF Old
        <3>1. QED
            BY <2>2 DEF ListSound
    <2>9. ListSound'
        BY <2>5, <2>6, <2>7, <2>8 DEF ListSound, Slots
    <2>10. m_nb_connected_clients' \in 0 .. NbAllowedClients
        BY <2>1, ClientsAssumption
    <2>11. m_client_taking_control' \in Slots \cup {NoIndex} /\ open_fds' \subseteq Fds
        BY <2>4 DEF TypeOK
    <2>12. QED
        BY <2>1, <2>9, <2>10, <2>11
<1>3. QED
    BY <1>1, <1>2

\* deleteClient() keeps the holder single, and control with the holder; if it
\* deletes the holder, there is none left.
LEMMA DeleteKeepsHolder ==
    ASSUME TypeOK, ListSound, OneHolder, NEW idx \in 0 .. NbAllowedClients, DeleteClient(idx)
    PROVE  /\ OneHolder'
           /\ m_client_taking_control = NoIndex => m_client_taking_control' = NoIndex
           /\ idx \in Holders => m_client_taking_control' = NoIndex
           /\ m_client_taking_control' # m_client_taking_control => idx \in Holders
PROOF
<1>1. CASE idx \notin Listed
    <2>1. UNCHANGED listVars
        BY <1>1 DEF DeleteClient, TypeOK, Listed
    <2>2. QED
        BY <1>1, <2>1 DEF listVars, OneHolder, Holders, Listed
<1>2. CASE idx \in Listed
    <2>1. m_nb_connected_clients \in 1 .. NbAllowedClients
          /\ m_nb_connected_clients' = m_nb_connected_clients - 1
        BY <1>2, DeleteShifts
    <2>2. \A i \in Listed' : m_clients'[i] = IF i < idx THEN m_clients[i] ELSE m_clients[i + 1]
        BY <1>2, DeleteShifts
    <2>3. m_client_taking_control' =
                IF m_clients[idx].m_state = "TakingControl"
                THEN NoIndex ELSE m_client_taking_control
        BY <1>2, <2>1 DEF DeleteClient, Listed
    <2>4. ASSUME NEW i \in Holders'
          PROVE  \E j \in Holders \ {idx} : i <= j /\ j = IF i < idx THEN i ELSE i + 1
        BY <1>2, <2>1, <2>2, <2>4 DEF Holders, Listed
    <2>5. ASSUME NEW i \in Holders', NEW j \in Holders'
          PROVE  i = j
        <3>1. PICK a \in Holders \ {idx} : i <= a /\ a = IF i < idx THEN i ELSE i + 1
            BY <2>4
        <3>2. PICK b \in Holders \ {idx} : j <= b /\ b = IF j < idx THEN j ELSE j + 1
            BY <2>4
        <3>3. a = b
            BY <3>1, <3>2 DEF OneHolder
        <3>4. QED
            BY <1>2, <2>1, <3>1, <3>2, <3>3 DEF Holders, Listed
    <2>6. ASSUME NEW i \in Holders'
          PROVE  i <= m_client_taking_control'
        <3>1. PICK a \in Holders \ {idx} : i <= a
            BY <2>4
        <3>2. idx \notin Holders /\ a <= m_client_taking_control
            BY <3>1 DEF OneHolder
        <3>3. m_client_taking_control' = m_client_taking_control
            BY <1>2, <2>3, <3>2 DEF Holders
        <3>4. QED
            BY <2>1, <3>1, <3>2, <3>3 DEF Holders, Listed, TypeOK, Slots
    <2>7. QED
        BY <1>2, <2>3, <2>5, <2>6 DEF OneHolder, Holders
<1>3. QED
    BY <1>1, <1>2

-----------------------------------------------------------------------------
(* The other writes to the list.                                           *)

\* A step that leaves the list alone keeps what is said of the list.
LEMMA ListUnchanged ==
    ASSUME ListSound, OneHolder, UNCHANGED listVars
    PROVE  ListSound' /\ OneHolder'
PROOF
    BY DEF listVars, ListSound, OneHolder, Holders, Listed, Slots

\* A log in or log out writes one state of one slot.
LEMMA SetStateKeepsList ==
    ASSUME TypeOK, ListSound, NEW state \in ListedStates, client_idx \in Slots, SetState(state),
           UNCHANGED <<m_nb_connected_clients, open_fds>>
    PROVE  /\ m_clients' \in [Slots -> Client]
           /\ \A i \in Slots : /\ m_clients'[i].m_socket = m_clients[i].m_socket
                               /\ m_clients'[i].m_connected_at = m_clients[i].m_connected_at
                               /\ m_clients'[i].m_state =
                                    IF i = client_idx THEN state ELSE m_clients[i].m_state
           /\ Listed' = Listed /\ Listed \subseteq Slots
           /\ ListSound'
PROOF
<1>1. m_clients' \in [Slots -> Client]
    BY DEF TypeOK, SetState, Client
<1>2. ASSUME NEW i \in Slots
      PROVE  /\ m_clients'[i].m_socket = m_clients[i].m_socket
             /\ m_clients'[i].m_connected_at = m_clients[i].m_connected_at
             /\ m_clients'[i].m_state = IF i = client_idx THEN state ELSE m_clients[i].m_state
    BY DEF TypeOK, SetState, Client
<1>3. Listed' = Listed /\ Listed \subseteq Slots
    BY ClientsAssumption DEF TypeOK, Listed, Slots
<1>4. ListSound'
    <2>1. {m_clients'[i].m_socket : i \in Listed'} = {m_clients[i].m_socket : i \in Listed}
        BY <1>2, <1>3
    <2>2. QED
        BY <1>2, <1>3, <2>1 DEF ListSound, Slots
<1>5. QED
    BY <1>1, <1>2, <1>3, <1>4

\* addClient() fills the first slot that is not in use, with a descriptor that
\* no listed client has.
LEMMA AddKeepsList ==
    ASSUME TypeOK, ListSound, OneHolder, NEW fd \in Fds, NEW interface \in Interfaces,
           AddClient(fd, interface)
    PROVE  TypeOK' /\ ListSound' /\ OneHolder'
PROOF
<1>. DEFINE nb == m_nb_connected_clients
<1>1. nb \in Slots /\ nb' = nb + 1 /\ nb' \in 0 .. NbAllowedClients
    BY ClientsAssumption DEF AddClient, TypeOK, Slots
<1>2. Listed' = Listed \cup {nb} /\ nb \notin Listed /\ Listed' \subseteq Slots
    BY <1>1, ClientsAssumption DEF Listed, Slots
<1>3. m_clients'[nb] = [m_socket |-> fd, m_state |-> "Connected", m_connected_at |-> interface]
    BY <1>1 DEF AddClient, TypeOK
<1>4. \A i \in Slots \ {nb} : m_clients'[i] = m_clients[i]
    BY <1>1 DEF AddClient, TypeOK
<1>5. TypeOK'
    BY <1>1 DEF AddClient, TypeOK, Client, setVars, queueVars, localVars
<1>6. ListSound'
    <2>1. open_fds' = {m_clients'[i].m_socket : i \in Listed'}
        <3>1. {m_clients'[i].m_socket : i \in Listed} = {m_clients[i].m_socket : i \in Listed}
            BY <1>2, <1>4
        <3>2. {m_clients'[i].m_socket : i \in Listed'} =
                    {m_clients'[i].m_socket : i \in Listed} \cup {m_clients'[nb].m_socket}
            BY <1>2
        <3>3. open_fds' = open_fds \cup {fd}
            BY DEF AddClient
        <3>4. m_clients'[nb].m_socket = fd
            BY <1>3
        <3>. HIDE DEF nb
        <3>5. {m_clients'[i].m_socket : i \in Listed'} = open_fds \cup {fd}
            BY <3>1, <3>2, <3>4 DEF ListSound
        <3>6. QED
            BY <3>3, <3>5
    <2>2. ASSUME NEW i \in Listed
          PROVE  m_clients'[i].m_socket # fd
        BY <1>2, <1>4 DEF ListSound, AddClient
    <2>3. ASSUME NEW i \in Listed', NEW j \in Listed', m_clients'[i].m_socket = m_clients'[j].m_socket
          PROVE  i = j
        BY <1>2, <1>3, <1>4, <2>2, <2>3 DEF ListSound
    <2>4. \A i \in Slots \ Listed' : m_clients'[i].m_socket = NoFd
        BY <1>2, <1>4 DEF ListSound
    <2>5. \A i \in Listed' : m_clients'[i].m_state \in ListedStates
                             /\ m_clients'[i].m_connected_at \in Interfaces
        BY <1>2, <1>3, <1>4 DEF ListSound
    <2>6. QED
        BY <2>1, <2>3, <2>4, <2>5 DEF ListSound, Slots
<1>7. OneHolder'
    <2>1. Holders' = Holders
        BY <1>2, <1>3, <1>4 DEF Holders
    <2>2. m_client_taking_control' = m_client_taking_control
        BY DEF AddClient
    <2>3. QED
        BY <2>1, <2>2 DEF OneHolder
<1>8. QED
    BY <1>5, <1>6, <1>7

-----------------------------------------------------------------------------
(* The inductive invariant.                                                *)

LEMMA InitEstablishes ==
    ASSUME Init
    PROVE  IInv
PROOF
<1>1. Listed = {}
    BY DEF Init, Listed
<1>2. m_clients \in [Slots -> Client] /\ \A i \in Slots : m_clients[i].m_socket = NoFd
    BY DEF Init, UnusedSlot, Client
<1>3. TypeOK
    <2>1. 0 \in 0 .. NbAllowedClients /\ 0 \in 0 .. RxBufferSize /\ 0 \in 0 .. TxBufferSize
        BY ClientsAssumption
    <2>2. QED
        BY <1>2, <2>1 DEF Init, TypeOK
<1>4. ListSound
    BY <1>1, <1>2 DEF Init, ListSound
<1>5. OneHolder
    BY <1>1 DEF OneHolder, Holders
<1>6. TurnSound
    BY DEF Init, TurnSound
<1>7. QED
    BY <1>3, <1>4, <1>5, <1>6 DEF IInv

\* Nobody has control while no index is recorded.
LEMMA NoIndexNoHolder ==
    ASSUME TypeOK, OneHolder, m_client_taking_control = NoIndex
    PROVE  Holders = {}
PROOF
    BY DEF TypeOK, OneHolder, Holders, Listed

\* In the turn of a client that is still there, its slot is listed.
LEMMA TurnInArray ==
    ASSUME TypeOK, TurnSound, pc \in {"status", "send", "recv"}
    PROVE  client_idx \in Slots
PROOF
    BY ClientsAssumption DEF TypeOK, TurnSound, Slots

\* What the owner calls between two passes.
LEMMA OwnerPreserves ==
    ASSUME IInv, OwnerCall
    PROVE  IInv'
PROOF
<1>1. pc' \notin {"status", "send", "recv"}
    BY DEF OwnerCall, SetServerLogin, SetUdpFd, AddClient, SendStatus, SendTcpMsg, GetRecvTcpMsg,
           localVars
<1>2. TurnSound'
    BY <1>1 DEF TurnSound
<1>3. CASE \E fd \in Fds, interface \in Interfaces : AddClient(fd, interface)
    BY <1>2, <1>3, AddKeepsList DEF IInv
<1>4. CASE SetServerLogin
    BY <1>2, <1>4, ListUnchanged DEF IInv, TypeOK, SetServerLogin, listVars, queueVars, localVars
<1>5. CASE \E interface \in Interfaces : SetUdpFd(interface)
    BY <1>2, <1>5, ListUnchanged DEF IInv, TypeOK, SetUdpFd, listVars, queueVars, localVars
<1>6. CASE SendStatus
    <2>1. TypeOK'
        BY <1>6, ClientsAssumption DEF IInv, TypeOK, SendStatus, listVars, setVars, localVars
    <2>2. QED
        BY <1>2, <1>6, <2>1, ListUnchanged DEF IInv, SendStatus
<1>7. CASE SendTcpMsg
    <2>1. TypeOK'
        BY <1>7, ClientsAssumption DEF IInv, TypeOK, SendTcpMsg, listVars, setVars, localVars
    <2>2. QED
        BY <1>2, <1>7, <2>1, ListUnchanged DEF IInv, SendTcpMsg
<1>8. CASE GetRecvTcpMsg
    <2>1. TypeOK'
        BY <1>8, ClientsAssumption DEF IInv, TypeOK, GetRecvTcpMsg, listVars, setVars, localVars
    <2>2. QED
        BY <1>2, <1>8, <2>1, ListUnchanged DEF IInv, GetRecvTcpMsg
<1>9. QED
    BY <1>3, <1>4, <1>5, <1>6, <1>7, <1>8 DEF OwnerCall

\* Steps of update() that only move on.
LEMMA MovePreserves ==
    ASSUME IInv,
           \/ BeginUpdate \/ BeginTurn \/ EndUpdate
           \/ SkipStatus \/ StatusSent \/ SkipSend \/ MsgSent \/ RecvNothing \/ RecvCommand
    PROVE  IInv'
PROOF
<1>1. UNCHANGED listVars
    BY DEF BeginUpdate, BeginTurn, EndUpdate, SkipStatus, StatusSent, SkipSend, MsgSent,
           RecvNothing, RecvCommand
<1>2. ListSound' /\ OneHolder'
    BY <1>1, ListUnchanged DEF IInv
<1>3. CASE BeginUpdate
    <2>1. TypeOK'
        BY <1>3, ClientsAssumption DEF IInv, TypeOK, BeginUpdate, listVars, setVars
    <2>2. TurnSound'
        BY <1>3 DEF BeginUpdate, TurnSound
    <2>3. QED
        BY <1>2, <2>1, <2>2 DEF IInv
<1>4. CASE BeginTurn
    <2>1. client_idx \in Listed /\ client_idx \in Slots
        BY <1>4, ClientsAssumption DEF IInv, TypeOK, BeginTurn, Listed, Slots
    <2>2. m_clients[client_idx].m_state \in SlotStates
        BY <2>1 DEF IInv, ListSound
    <2>3. TypeOK'
        BY <1>4, <2>2 DEF IInv, TypeOK, BeginTurn, listVars, queueVars, setVars
    <2>4. TurnSound'
        <3>1. (client_idx < NbAllowedClients)'
            BY <1>4, <2>1, ClientsAssumption DEF BeginTurn, Slots
        <3>2. (client_idx \in Listed /\ client_state = m_clients[client_idx].m_state)'
            BY <1>4, <2>1 DEF BeginTurn, listVars, Listed
        <3>3. QED
            BY <3>1, <3>2 DEF TurnSound
    <2>5. QED
        BY <1>2, <2>3, <2>4 DEF IInv
<1>5. CASE EndUpdate
    <2>1. TypeOK'
        <3>1. 0 \in 0 .. NbAllowedClients
            BY ClientsAssumption
        <3>2. QED
            BY <1>5, <3>1 DEF IInv, TypeOK, EndUpdate, Return, listVars, queueVars, setVars
    <2>2. TurnSound'
        BY <1>5 DEF EndUpdate, Return, TurnSound
    <2>3. QED
        BY <1>2, <2>1, <2>2 DEF IInv
<1>6. CASE SkipStatus \/ StatusSent \/ SkipSend \/ MsgSent
    <2>1. TypeOK'
        BY <1>6 DEF IInv, TypeOK, SkipStatus, StatusSent, SkipSend, MsgSent, Goto,
                    listVars, queueVars, setVars
    <2>2. TurnSound'
        BY <1>6 DEF IInv, TurnSound, SkipStatus, StatusSent, SkipSend, MsgSent, Goto,
                    listVars, Listed
    <2>3. QED
        BY <1>2, <2>1, <2>2 DEF IInv
<1>7. CASE RecvNothing \/ RecvCommand
    <2>1. client_idx \in Slots
        BY <1>7, TurnInArray DEF IInv, RecvNothing, RecvCommand
    <2>2. client_idx' \in 0 .. NbAllowedClients /\ pc' = "loop"
        BY <1>7, <2>1, ClientsAssumption DEF RecvNothing, RecvCommand, NextClient, Slots
    <2>3. rx_frames_buffer' \in 0 .. RxBufferSize
        BY <1>7, ClientsAssumption DEF IInv, TypeOK, RecvNothing, RecvCommand, queueVars
    <2>4. TypeOK'
        BY <1>7, <2>2, <2>3 DEF IInv, TypeOK, RecvNothing, RecvCommand, NextClient,
                                listVars, queueVars, setVars
    <2>5. TurnSound'
        BY <2>2 DEF TurnSound
    <2>6. QED
        BY <1>2, <2>4, <2>5 DEF IInv
<1>8. QED
    BY <1>3, <1>4, <1>5, <1>6, <1>7

\* The three places where update() deletes a client.
LEMMA FailurePreserves ==
    ASSUME IInv, StatusFailed \/ MsgFailed \/ RecvFailed
    PROVE  IInv'
PROOF
<1>1. DeleteClient(client_idx) /\ client_idx \in 0 .. NbAllowedClients
    BY DEF IInv, TypeOK, StatusFailed, MsgFailed, RecvFailed
<1>2. /\ m_clients' \in [Slots -> Client]
      /\ m_nb_connected_clients' \in 0 .. NbAllowedClients
      /\ m_client_taking_control' \in Slots \cup {NoIndex}
      /\ open_fds' \subseteq Fds
      /\ ListSound'
    BY <1>1, DeleteKeepsList DEF IInv
<1>3. OneHolder'
    BY <1>1, DeleteKeepsHolder DEF IInv
<1>4. CASE StatusFailed
    <2>1. TypeOK'
        BY <1>2, <1>4 DEF IInv, TypeOK, StatusFailed, Goto, queueVars, setVars
    <2>2. client_idx \in Listed /\ client_state = m_clients[client_idx].m_state
          /\ client_idx < NbAllowedClients
        BY <1>4 DEF IInv, TurnSound, StatusFailed
    <2>3. client_state = "TakingControl" => m_client_taking_control' = NoIndex
        BY <1>1, <2>2, DeleteKeepsHolder DEF IInv, Holders
    <2>4. TurnSound'
        BY <1>4, <2>2, <2>3 DEF StatusFailed, Goto, TurnSound
    <2>5. QED
        BY <1>2, <1>3, <2>1, <2>4 DEF IInv
<1>5. CASE MsgFailed \/ RecvFailed
    <2>1. Return /\ UNCHANGED <<queueVars, setVars>>
        BY <1>5 DEF MsgFailed, RecvFailed
    <2>2. TypeOK'
        <3>1. 0 \in 0 .. NbAllowedClients
            BY ClientsAssumption
        <3>2. QED
            BY <1>2, <2>1, <3>1 DEF IInv, TypeOK, Return, queueVars, setVars
    <2>3. TurnSound'
        BY <2>1 DEF Return, TurnSound
    <2>4. QED
        BY <1>2, <1>3, <2>2, <2>3 DEF IInv
<1>6. QED
    BY <1>4, <1>5

\* Log in and log out.
LEMMA LogPreserves ==
    ASSUME IInv, RecvLogIn \/ RecvSuperLogIn \/ RecvLogOut
    PROVE  IInv'
PROOF
<1>1. client_idx \in Slots
    BY TurnInArray DEF IInv, RecvLogIn, RecvSuperLogIn, RecvLogOut
<1>2. PICK state \in ListedStates : SetState(state)
    BY DEF RecvLogIn, RecvSuperLogIn, RecvLogOut
<1>3. UNCHANGED <<m_nb_connected_clients, open_fds>>
    BY DEF RecvLogIn, RecvSuperLogIn, RecvLogOut
<1>4. /\ m_clients' \in [Slots -> Client]
      /\ Listed' = Listed /\ Listed \subseteq Slots
      /\ ListSound'
    BY <1>1, <1>2, <1>3, SetStateKeepsList DEF IInv
<1>5. client_idx' \in 0 .. NbAllowedClients /\ pc' = "loop"
    BY <1>1, ClientsAssumption DEF RecvLogIn, RecvSuperLogIn, RecvLogOut, NextClient, Slots
<1>6. TypeOK'
    <2>1. m_client_taking_control' \in Slots \cup {NoIndex}
        BY <1>1 DEF IInv, TypeOK, RecvLogIn, RecvSuperLogIn, RecvLogOut
    <2>2. QED
        BY <1>3, <1>4, <1>5, <2>1 DEF IInv, TypeOK, RecvLogIn, RecvSuperLogIn, RecvLogOut, NextClient,
                                      queueVars, setVars
<1>7. TurnSound'
    BY <1>5 DEF TurnSound
<1>8. OneHolder'
    <2>1. CASE RecvLogIn
        <3>1. SetState("Authenticated") /\ m_client_taking_control' = m_client_taking_control
            BY <2>1 DEF RecvLogIn
        <3>2. Holders' \subseteq Holders
            BY <1>1, <1>3, <1>4, <3>1, SetStateKeepsList DEF IInv, Holders
        <3>3. QED
            BY <3>1, <3>2 DEF IInv, OneHolder
    <2>2. CASE RecvSuperLogIn
        <3>1. SetState("TakingControl") /\ m_client_taking_control' = client_idx
            BY <2>2 DEF RecvSuperLogIn
        <3>2. Holders = {}
            BY <2>2, NoIndexNoHolder DEF IInv, RecvSuperLogIn
        <3>3. Holders' \subseteq {client_idx}
            BY <1>1, <1>3, <1>4, <3>1, <3>2, SetStateKeepsList DEF IInv, Holders
        <3>4. QED
            BY <1>1, <3>1, <3>3 DEF OneHolder, Slots
    <2>3. CASE RecvLogOut
        <3>1. SetState("Connected")
            BY <2>3 DEF RecvLogOut
        <3>2. Holders' \subseteq Holders \ {client_idx}
            BY <1>1, <1>3, <1>4, <3>1, SetStateKeepsList DEF IInv, Holders
        <3>3. CASE client_state = "TakingControl"
            <4>1. Holders \subseteq {client_idx}
                BY <2>3, <3>3, NoIndexNoHolder DEF IInv, TurnSound, RecvLogOut, OneHolder, Holders
            <4>2. QED
                BY <3>2, <4>1 DEF OneHolder
        <3>4. CASE client_state # "TakingControl"
            BY <2>3, <3>2, <3>4 DEF IInv, OneHolder, RecvLogOut
        <3>5. QED
            BY <3>3, <3>4
    <2>4. QED
        BY <2>1, <2>2, <2>3
<1>9. QED
    BY <1>4, <1>6, <1>7, <1>8 DEF IInv

LEMMA NextPreserves ==
    ASSUME IInv, [Next]_vars
    PROVE  IInv'
PROOF
<1>1. CASE OwnerCall
    BY <1>1, OwnerPreserves
<1>2. CASE UpdateStep
    BY <1>2, MovePreserves, FailurePreserves, LogPreserves DEF UpdateStep
<1>3. CASE UNCHANGED vars
    BY <1>3 DEF vars, listVars, queueVars, setVars, localVars, IInv, TypeOK, ListSound, OneHolder,
                TurnSound, Holders, Listed, Slots
<1>4. QED
    BY <1>1, <1>2, <1>3 DEF Next

-----------------------------------------------------------------------------
(* The safety properties.                                                  *)

\* The inductive invariant holds in every reachable state.
THEOREM Invariance == Spec => []IInv
PROOF
<1>1. Init => IInv
    BY InitEstablishes
<1>2. IInv /\ [Next]_vars => IInv'
    BY NextPreserves
<1>3. QED
    BY <1>1, <1>2, PTL DEF Spec

\* Every variable keeps a value of its kind: no index leaves the array, no
\* counter its range, in whatever order clients come, talk and fail.
THEOREM TypeCorrect == Spec => []TypeOK
PROOF
<1>1. IInv => TypeOK
    BY DEF IInv
<1>2. QED
    BY <1>1, Invariance, PTL

\* The listed clients have the open descriptors, each exactly one.
THEOREM ListIsSound == Spec => []ListSound
PROOF
<1>1. IInv => ListSound
    BY DEF IInv
<1>2. QED
    BY <1>1, Invariance, PTL

\* At most one client has control.
THEOREM HolderIsUnique == Spec => []OneHolder
PROOF
<1>1. IInv => OneHolder
    BY DEF IInv
<1>2. QED
    BY <1>1, Invariance, PTL

\* What update() copied from the client whose turn it is, is true or comes from
\* a client that was deleted in this turn.
THEOREM TurnIsSound == Spec => []TurnSound
PROOF
<1>1. IInv => TurnSound
    BY DEF IInv
<1>2. QED
    BY <1>1, Invariance, PTL

\* Control is given up only in the turn of the client that has it.
THEOREM ControlReleasedByHolder == Spec => ReleasedByHolder
PROOF
<1>1. ASSUME IInv, [Next]_vars, m_client_taking_control # NoIndex, m_client_taking_control' = NoIndex
      PROVE  client_idx \in Holders
    <2>1. CASE StatusFailed \/ MsgFailed \/ RecvFailed
        <3>1. DeleteClient(client_idx) /\ client_idx \in 0 .. NbAllowedClients
            BY <1>1, <2>1 DEF IInv, TypeOK, StatusFailed, MsgFailed, RecvFailed
        <3>2. QED
            BY <1>1, <3>1, DeleteKeepsHolder DEF IInv
    <2>2. CASE RecvLogOut
        <3>1. client_state = "TakingControl"
            BY <1>1, <2>2 DEF RecvLogOut
        <3>2. QED
            BY <1>1, <2>2, <3>1 DEF IInv, TurnSound, RecvLogOut, Holders
    <2>3. CASE RecvSuperLogIn
        <3>1. m_client_taking_control' = client_idx /\ client_idx # NoIndex
            BY <1>1, <2>3 DEF IInv, TypeOK, RecvSuperLogIn
        <3>2. QED
            BY <1>1, <3>1
    <2>4. CASE OwnerCall
        BY <1>1, <2>4 DEF OwnerCall, SetServerLogin, SetUdpFd, AddClient, SendStatus, SendTcpMsg,
                          GetRecvTcpMsg, listVars
    <2>5. CASE \/ BeginUpdate \/ BeginTurn \/ EndUpdate \/ SkipStatus \/ StatusSent \/ SkipSend
               \/ MsgSent \/ RecvNothing \/ RecvLogIn \/ RecvCommand
        BY <1>1, <2>5 DEF BeginUpdate, BeginTurn, EndUpdate, SkipStatus, StatusSent, SkipSend, MsgSent,
                          RecvNothing, RecvLogIn, RecvCommand, listVars
    <2>6. CASE UNCHANGED vars
        BY <1>1, <2>6 DEF vars, listVars
    <2>7. QED
        BY <1>1, <2>1, <2>2, <2>3, <2>4, <2>5, <2>6 DEF Next, UpdateStep
<1>2. IInv /\ [Next]_vars =>
        [m_client_taking_control # NoIndex /\ m_client_taking_control' = NoIndex
            => client_idx \in Holders]_vars
    BY <1>1
<1>3. QED
    BY <1>2, Invariance, PTL DEF Spec, ReleasedByHolder

\* In a pass without a status message, the commands stored for the owner are
\* those of the client in control.
THEOREM CommandsAreOfHolder == Spec => CommandsFromHolder
PROOF
<1>1. ASSUME IInv, [Next]_vars, rx_frames_buffer' > rx_frames_buffer, ~opt_status_data
      PROVE  client_idx \in Holders
    <2>1. CASE RecvCommand
        BY <1>1, <2>1 DEF IInv, TurnSound, RecvCommand, Holders
    <2>2. CASE GetRecvTcpMsg
        BY <1>1, <2>2 DEF IInv, TypeOK, GetRecvTcpMsg
    <2>3. rx_frames_buffer \in Int
        BY <1>1 DEF IInv, TypeOK
    <2>4. CASE \/ StatusFailed \/ MsgFailed \/ RecvFailed \/ RecvLogOut \/ RecvLogIn \/ RecvSuperLogIn
        BY <1>1, <2>3, <2>4 DEF StatusFailed, MsgFailed, RecvFailed, RecvLogIn, RecvSuperLogIn,
                                RecvLogOut, queueVars
    <2>5. CASE \/ SetServerLogin \/ SendStatus \/ SendTcpMsg
               \/ \E interface \in Interfaces : SetUdpFd(interface)
               \/ \E fd \in Fds, interface \in Interfaces : AddClient(fd, interface)
        BY <1>1, <2>3, <2>5 DEF SetServerLogin, SetUdpFd, AddClient, SendStatus, SendTcpMsg, queueVars
    <2>6. CASE \/ BeginUpdate \/ BeginTurn \/ EndUpdate \/ SkipStatus \/ StatusSent \/ SkipSend
               \/ MsgSent \/ RecvNothing
        BY <1>1, <2>3, <2>6 DEF BeginUpdate, BeginTurn, EndUpdate, SkipStatus, StatusSent, SkipSend,
                                MsgSent, RecvNothing, queueVars
    <2>7. CASE UNCHANGED vars
        BY <1>1, <2>3, <2>7 DEF vars, queueVars
    <2>8. QED
        BY <1>1, <2>1, <2>2, <2>4, <2>5, <2>6, <2>7 DEF Next, OwnerCall, UpdateStep
<1>2. IInv /\ [Next]_vars =>
        [rx_frames_buffer' > rx_frames_buffer /\ ~opt_status_data => client_idx \in Holders]_vars
    BY <1>1
<1>3. QED
    BY <1>2, Invariance, PTL DEF Spec, CommandsFromHolder

-----------------------------------------------------------------------------
(* The list implements Sessions.                                           *)

\* The session of a descriptor is the state of the slot that has it.
LEMMA SessionOfListed ==
    ListSound => \A i \in Listed : SessionOf(m_clients[i].m_socket) = m_clients[i].m_state
PROOF
<1>. SUFFICES ASSUME ListSound, NEW i \in Listed
              PROVE  SessionOf(m_clients[i].m_socket) = m_clients[i].m_state
    OBVIOUS
<1>1. (CHOOSE j \in Listed : m_clients[j].m_socket = m_clients[i].m_socket) = i
    BY DEF ListSound
<1>2. QED
    BY <1>1 DEF SessionOf

\* A descriptor that is not open has no session.
LEMMA SessionOfClosed ==
    ListSound => \A fd \in Fds \ open_fds : SessionOf(fd) = "None"
PROOF
    BY DEF ListSound, SessionOf

\* If every listed client but the one behind fd keeps its descriptor and its
\* state in some slot, and no other client comes or goes, only the session of
\* fd can have changed.
LEMMA OneSessionChanges ==
    ASSUME ListSound, ListSound', NEW fd, open_fds' \ {fd} = open_fds \ {fd},
           \A i \in Listed : m_clients[i].m_socket # fd =>
                \E j \in Listed' : /\ m_clients'[j].m_socket = m_clients[i].m_socket
                                   /\ m_clients'[j].m_state = m_clients[i].m_state
    PROVE  \A g \in Fds \ {fd} : SessionOf(g)' = SessionOf(g)
PROOF
<1>. TAKE g \in Fds \ {fd}
<1>1. CASE g \in open_fds
    <2>1. PICK i \in Listed : m_clients[i].m_socket = g
        BY <1>1 DEF ListSound
    <2>2. PICK j \in Listed' : /\ m_clients'[j].m_socket = g
                               /\ m_clients'[j].m_state = m_clients[i].m_state
        BY <2>1
    <2>3. SessionOf(g) = m_clients[i].m_state
        BY <2>1, SessionOfListed
    <2>4. (CHOOSE k \in Listed' : m_clients'[k].m_socket = g) = j
        BY <2>2 DEF ListSound
    <2>5. SessionOf(g)' = m_clients'[j].m_state
        BY <2>2, <2>4 DEF SessionOf
    <2>6. QED
        BY <2>2, <2>3, <2>5
<1>2. CASE g \notin open_fds
    <2>1. SessionOf(g)' = "None"
        BY <1>2 DEF ListSound, SessionOf
    <2>2. QED
        BY <1>2, <2>1, SessionOfClosed
<1>3. QED
    BY <1>1, <1>2

\* A slot of the list after a step is what that step wrote.
LEMMA SessionOfListedNext ==
    ASSUME ListSound', NEW i \in Listed'
    PROVE  SessionOf(m_clients[i].m_socket)' = m_clients'[i].m_state
PROOF
<1>1. (CHOOSE j \in Listed' : m_clients'[j].m_socket = m_clients'[i].m_socket) = i
    BY DEF ListSound
<1>2. QED
    BY <1>1 DEF SessionOf

\* The sessions change as Abstract says, if only that of fd changes.
LEMMA SessionChange ==
    ASSUME NEW fd \in Fds, NEW to, SessionOf(fd)' = to,
           \A g \in Fds \ {fd} : SessionOf(g)' = SessionOf(g)
    PROVE  [g \in Fds |-> SessionOf(g)]' = [[g \in Fds |-> SessionOf(g)] EXCEPT ![fd] = to]
PROOF
<1>1. \A g \in Fds : SessionOf(g)' = IF g = fd THEN to ELSE SessionOf(g)
    OBVIOUS
<1>2. [g \in Fds |-> SessionOf(g)]' = [g \in Fds |-> SessionOf(g)']
    OBVIOUS
<1>. DEFINE s == [g \in Fds |-> SessionOf(g)]
<1>3. [s EXCEPT ![fd] = to] = [g \in Fds |-> IF g = fd THEN to ELSE SessionOf(g)]
    OBVIOUS
<1>4. QED
    BY <1>1, <1>2, <1>3

\* addClient() begins a session.
LEMMA AddConnects ==
    ASSUME IInv, IInv', NEW fd \in Fds, NEW interface \in Interfaces, AddClient(fd, interface)
    PROVE  Abstract!Connect(fd)
PROOF
<1>1. fd \notin open_fds /\ open_fds' = open_fds \cup {fd}
    BY DEF AddClient
<1>2. m_nb_connected_clients \in Slots /\ Listed' = Listed \cup {m_nb_connected_clients}
      /\ Listed \subseteq Slots \ {m_nb_connected_clients}
    BY ClientsAssumption DEF AddClient, IInv, TypeOK, Listed, Slots
<1>3. m_clients'[m_nb_connected_clients].m_socket = fd
      /\ m_clients'[m_nb_connected_clients].m_state = "Connected"
      /\ \A i \in Listed : m_clients'[i] = m_clients[i]
    BY <1>2 DEF AddClient, IInv, TypeOK
<1>4. \A g \in Fds \ {fd} : SessionOf(g)' = SessionOf(g)
    BY <1>1, <1>2, <1>3, OneSessionChanges DEF IInv
<1>5. SessionOf(fd) = "None"
    BY <1>1, SessionOfClosed DEF IInv
<1>6. SessionOf(fd)' = "Connected"
    <2>1. (CHOOSE j \in Listed' : m_clients'[j].m_socket = fd) = m_nb_connected_clients
        BY <1>2, <1>3 DEF IInv, ListSound
    <2>2. QED
        BY <1>2, <1>3, <2>1 DEF SessionOf
<1>7. QED
    BY <1>4, <1>5, <1>6, SessionChange DEF Abstract!Connect, Abstract!Becomes

\* deleteClient() ends the session of the client it deletes.
LEMMA DeleteDrops ==
    ASSUME IInv, IInv', NEW idx \in Listed, DeleteClient(idx)
    PROVE  \E fd \in Fds : Abstract!Drop(fd)
PROOF
<1>1. PICK fd \in open_fds \cap Fds : fd = m_clients[idx].m_socket
    BY DEF IInv, TypeOK, ListSound
<1>2. m_nb_connected_clients \in 1 .. NbAllowedClients
      /\ m_nb_connected_clients' = m_nb_connected_clients - 1
      /\ \A i \in Listed' : m_clients'[i] = IF i < idx THEN m_clients[i] ELSE m_clients[i + 1]
    BY DeleteShifts DEF IInv
<1>3. open_fds' = open_fds \ {fd}
    BY <1>1, <1>2 DEF DeleteClient, Listed
<1>4. ASSUME NEW i \in Listed, m_clients[i].m_socket # fd
      PROVE  \E j \in Listed' : m_clients'[j] = m_clients[i]
    <2>1. CASE i < idx
        <3>1. i \in Listed' /\ m_clients'[i] = m_clients[i]
            BY <1>2, <2>1 DEF Listed
        <3>2. QED
            BY <3>1
    <2>2. CASE i > idx
        <3>1. i - 1 \in Listed' /\ m_clients'[i - 1] = m_clients[i]
            BY <1>2, <2>2 DEF Listed
        <3>2. QED
            BY <3>1
    <2>3. i # idx
        BY <1>1, <1>4
    <2>4. QED
        BY <2>1, <2>2, <2>3 DEF Listed
<1>5. \A g \in Fds \ {fd} : SessionOf(g)' = SessionOf(g)
    BY <1>3, <1>4, OneSessionChanges DEF IInv
<1>6. SessionOf(fd) \in ListedStates
    BY <1>1, SessionOfListed DEF IInv, ListSound
<1>7. SessionOf(fd)' = "None"
    BY <1>3 DEF IInv, ListSound, SessionOf
<1>8. Abstract!Drop(fd)
    BY <1>1, <1>5, <1>6, <1>7, SessionChange
       DEF Abstract!Drop, Abstract!Becomes, Abstract!SessionStates
<1>9. QED
    BY <1>1, <1>8

\* A write to the state of a slot changes the session of its client, or, past
\* the list, no session.
LEMMA SetStateChanges ==
    ASSUME IInv, IInv', NEW state \in ListedStates, client_idx \in Slots, SetState(state),
           UNCHANGED <<m_nb_connected_clients, open_fds>>
    PROVE  /\ client_idx \in Listed =>
                \E fd \in Fds :
                    /\ SessionOf(fd) = m_clients[client_idx].m_state
                    /\ [g \in Fds |-> SessionOf(g)]' = [[g \in Fds |-> SessionOf(g)] EXCEPT ![fd] = state]
           /\ client_idx \notin Listed =>
                [g \in Fds |-> SessionOf(g)]' = [g \in Fds |-> SessionOf(g)]
PROOF
<1>1. /\ \A i \in Slots : /\ m_clients'[i].m_socket = m_clients[i].m_socket
                          /\ m_clients'[i].m_state =
                               IF i = client_idx THEN state ELSE m_clients[i].m_state
      /\ Listed' = Listed /\ Listed \subseteq Slots
    BY SetStateKeepsList DEF IInv
<1>2. CASE client_idx \in Listed
    <2>1. PICK fd \in Fds : fd = m_clients[client_idx].m_socket
        BY <1>2 DEF IInv, TypeOK, ListSound
    <2>2. SessionOf(fd) = m_clients[client_idx].m_state
        BY <1>2, <2>1, SessionOfListed DEF IInv
    <2>3. SessionOf(fd)' = state
        <3>1. (CHOOSE j \in Listed' : m_clients'[j].m_socket = fd) = client_idx
            BY <1>1, <1>2, <2>1 DEF IInv, ListSound
        <3>2. QED
            BY <1>1, <1>2, <2>1, <3>1 DEF SessionOf
    <2>4. ASSUME NEW i \in Listed, m_clients[i].m_socket # fd
          PROVE  \E j \in Listed' : /\ m_clients'[j].m_socket = m_clients[i].m_socket
                                    /\ m_clients'[j].m_state = m_clients[i].m_state
        BY <1>1, <2>1, <2>4
    <2>5. \A g \in Fds \ {fd} : SessionOf(g)' = SessionOf(g)
        BY <2>4, OneSessionChanges DEF IInv
    <2>6. QED
        BY <1>2, <2>2, <2>3, <2>5, SessionChange
<1>3. CASE client_idx \notin Listed
    <2>1. ASSUME NEW g \in Fds
          PROVE  SessionOf(g)' = SessionOf(g)
        <3>1. ASSUME NEW i \in Listed
              PROVE  \E j \in Listed' : /\ m_clients'[j].m_socket = m_clients[i].m_socket
                                        /\ m_clients'[j].m_state = m_clients[i].m_state
            BY <1>1, <1>3
        <3>2. NoFd \notin Fds /\ open_fds' \ {NoFd} = open_fds \ {NoFd}
            BY ClientsAssumption
        <3>3. \A h \in Fds \ {NoFd} : SessionOf(h)' = SessionOf(h)
            BY <3>1, <3>2, OneSessionChanges DEF IInv
        <3>4. QED
            BY <3>2, <3>3
    <2>2. QED
        BY <1>3, <2>1
<1>4. QED
    BY <1>2, <1>3

\* A log in or log out changes one session as Abstract says.
LEMMA LogChangesOneSession ==
    ASSUME IInv, IInv', RecvLogIn \/ RecvSuperLogIn \/ RecvLogOut
    PROVE  \/ \E fd \in Fds : Abstract!LogIn(fd) \/ Abstract!TakeControl(fd) \/ Abstract!LogOut(fd)
           \/ [g \in Fds |-> SessionOf(g)]' = [g \in Fds |-> SessionOf(g)]
PROOF
<1>1. client_idx \in Slots /\ UNCHANGED <<m_nb_connected_clients, open_fds>>
    BY TurnInArray DEF IInv, RecvLogIn, RecvSuperLogIn, RecvLogOut
<1>2. CASE RecvLogIn
    <2>1. client_idx \in Listed /\ m_clients[client_idx].m_state = "Connected"
          /\ SetState("Authenticated")
        BY <1>2 DEF IInv, TurnSound, RecvLogIn
    <2>2. PICK fd \in Fds :
            /\ SessionOf(fd) = "Connected"
            /\ [g \in Fds |-> SessionOf(g)]' = [[g \in Fds |-> SessionOf(g)] EXCEPT ![fd] = "Authenticated"]
        BY <1>1, <2>1, SetStateChanges
    <2>3. Abstract!LogIn(fd)
        BY <2>2 DEF Abstract!LogIn, Abstract!Becomes
    <2>4. QED
        BY <2>3
<1>3. CASE RecvSuperLogIn
    <2>1. client_idx \in Listed /\ m_clients[client_idx].m_state = "Connected"
          /\ SetState("TakingControl") /\ m_client_taking_control = NoIndex
        BY <1>3 DEF IInv, TurnSound, RecvSuperLogIn
    <2>2. PICK fd \in Fds :
            /\ SessionOf(fd) = "Connected"
            /\ [g \in Fds |-> SessionOf(g)]' = [[g \in Fds |-> SessionOf(g)] EXCEPT ![fd] = "TakingControl"]
        BY <1>1, <2>1, SetStateChanges
    <2>3. ASSUME NEW g \in Fds
          PROVE  SessionOf(g) # "TakingControl"
        <3>1. Holders = {}
            BY <2>1, NoIndexNoHolder DEF IInv
        <3>2. CASE g \in open_fds
            <4>1. PICK i \in Listed : m_clients[i].m_socket = g
                BY <3>2 DEF IInv, ListSound
            <4>2. QED
                BY <3>1, <4>1, SessionOfListed DEF IInv, Holders
        <3>3. CASE g \notin open_fds
            BY <3>3, SessionOfClosed DEF IInv
        <3>4. QED
            BY <3>2, <3>3
    <2>4. Abstract!TakeControl(fd)
        BY <2>2, <2>3 DEF Abstract!TakeControl, Abstract!Becomes, Abstract!NoOneControls
    <2>5. QED
        BY <2>4
<1>4. CASE RecvLogOut
    <2>1. SetState("Connected")
        BY <1>4 DEF RecvLogOut
    <2>2. CASE client_idx \notin Listed
        BY <1>1, <2>1, <2>2, SetStateChanges
    <2>3. CASE client_idx \in Listed
        <3>1. PICK fd \in Fds :
                /\ SessionOf(fd) = m_clients[client_idx].m_state
                /\ [g \in Fds |-> SessionOf(g)]' = [[g \in Fds |-> SessionOf(g)] EXCEPT ![fd] = "Connected"]
            BY <1>1, <2>1, <2>3, SetStateChanges
        <3>2. SessionOf(fd) \in ListedStates
            BY <2>3, <3>1 DEF IInv, ListSound
        <3>3. CASE SessionOf(fd) = "Connected"
            BY <3>1, <3>3
        <3>4. CASE SessionOf(fd) \in Logged
            <4>1. Abstract!LogOut(fd)
                BY <3>1, <3>4 DEF Abstract!LogOut, Abstract!Becomes
            <4>2. QED
                BY <4>1
        <3>5. QED
            BY <3>2, <3>3, <3>4
    <2>4. QED
        BY <2>2, <2>3
<1>5. QED
    BY <1>2, <1>3, <1>4

\* The list of clients implements Sessions: whatever the shifting of the list
\* and the order of the turns, every step changes at most one session, in a way
\* that session may change.
THEOREM ClientsImplementSessions == Spec => SessionsHold
PROOF
<1>. DEFINE sessions == [fd \in Fds |-> SessionOf(fd)]
<1>1. ASSUME Init
      PROVE  Abstract!SessionInit
    BY <1>1 DEF Init, Listed, SessionOf, Abstract!SessionInit
<1>2. ASSUME IInv, [Next]_vars
      PROVE  [Abstract!SessionNext]_sessions
    <2>1. IInv'
        BY <1>2, NextPreserves
    <2>2. CASE \E fd \in Fds, interface \in Interfaces : AddClient(fd, interface)
        BY <1>2, <2>1, <2>2, AddConnects DEF Abstract!SessionNext
    <2>3. CASE StatusFailed \/ MsgFailed \/ RecvFailed
        <3>1. DeleteClient(client_idx)
            BY <2>3 DEF StatusFailed, MsgFailed, RecvFailed
        <3>2. CASE client_idx \in Listed
            BY <1>2, <2>1, <3>1, <3>2, DeleteDrops DEF Abstract!SessionNext
        <3>3. CASE client_idx \notin Listed
            <4>1. UNCHANGED listVars
                BY <1>2, <3>1, <3>3 DEF DeleteClient, IInv, TypeOK, Listed
            <4>2. QED
                BY <4>1 DEF listVars, SessionOf, Listed
        <3>4. QED
            BY <3>2, <3>3
    <2>4. CASE RecvLogIn \/ RecvSuperLogIn \/ RecvLogOut
        BY <1>2, <2>1, <2>4, LogChangesOneSession DEF Abstract!SessionNext
    <2>5. CASE UNCHANGED listVars
        BY <2>5 DEF listVars, SessionOf, Listed
    <2>6. CASE \/ BeginUpdate \/ BeginTurn \/ EndUpdate \/ SkipStatus \/ StatusSent
               \/ SkipSend \/ MsgSent \/ RecvNothing \/ RecvCommand
        BY <2>5, <2>6 DEF BeginUpdate, BeginTurn, EndUpdate, SkipStatus, StatusSent, SkipSend,
                          MsgSent, RecvNothing, RecvCommand
    <2>7. CASE \/ SetServerLogin \/ SendStatus \/ SendTcpMsg \/ GetRecvTcpMsg
               \/ \E interface \in Interfaces : SetUdpFd(interface)
        BY <2>5, <2>7 DEF SetServerLogin, SetUdpFd, SendStatus, SendTcpMsg, GetRecvTcpMsg
    <2>8. CASE UNCHANGED vars
        BY <2>5, <2>8 DEF vars
    <2>9. QED
        BY <1>2, <2>2, <2>3, <2>4, <2>6, <2>7, <2>8 DEF Next, OwnerCall, UpdateStep
<1>3. QED
    BY <1>1, <1>2, Invariance, PTL DEF Spec, SessionsHold, Abstract!SessionSpec

-----------------------------------------------------------------------------
(* A pass comes to its end, and nobody is skipped in it                    *)

\* How far a pass can have come: two past the last client at most, when the
\* status message of the last has failed.
InPass ==
    /\ pc = "loop" => client_idx <= m_nb_connected_clients + 1
    /\ pc = "status" => client_idx < m_nb_connected_clients
    /\ pc \in {"send", "recv"} => client_idx <= m_nb_connected_clients

\* The steps that update() can still take.
StepsLeft ==
    IF pc = "idle" THEN 0
    ELSE 4 * (m_nb_connected_clients + 1 - client_idx)
            + (CASE pc = "loop" -> 1 [] pc = "status" -> 0 [] pc = "send" -> -1 [] OTHER -> -2)

\* What an index outside the list makes of deleteClient().
LEMMA DeleteCounts ==
    ASSUME TypeOK, DeleteClient(client_idx)
    PROVE  m_nb_connected_clients' =
                IF client_idx \in Listed THEN m_nb_connected_clients - 1 ELSE m_nb_connected_clients
PROOF
    BY DEF DeleteClient, TypeOK, Listed, listVars

LEMMA PassStep ==
    ASSUME TypeOK, InPass, Next
    PROVE  /\ InPass'
           /\ UpdateStep /\ pc # "idle" => StepsLeft' < StepsLeft
PROOF
<1>. USE DEF InPass, StepsLeft, Return, NextClient, Goto, listVars, localVars
<1>1. m_nb_connected_clients \in 0 .. NbAllowedClients /\ client_idx \in 0 .. NbAllowedClients
      /\ pc \in {"idle", "loop", "status", "send", "recv"} /\ NbAllowedClients \in Nat
    BY ClientsAssumption DEF TypeOK
<1>2. CASE OwnerCall
    <2>1. pc = "idle" /\ pc' = "idle"
        BY <1>2 DEF OwnerCall, SetServerLogin, SetUdpFd, AddClient, SendStatus, SendTcpMsg, GetRecvTcpMsg
    <2>2. UpdateStep => BeginUpdate
        BY <2>1 DEF UpdateStep, BeginTurn, EndUpdate, SkipStatus, StatusSent, StatusFailed, SkipSend,
            MsgSent, MsgFailed, RecvNothing, RecvFailed, RecvLogIn, RecvSuperLogIn, RecvLogOut, RecvCommand
    <2>3. QED
        BY <2>1
<1>3. CASE BeginUpdate
    BY <1>1, <1>3 DEF BeginUpdate
<1>4. CASE BeginTurn \/ EndUpdate
    BY <1>1, <1>4 DEF BeginTurn, EndUpdate
<1>5. CASE SkipStatus \/ StatusSent
    BY <1>1, <1>5 DEF SkipStatus, StatusSent
<1>6. CASE StatusFailed
    <2>1. m_nb_connected_clients' = m_nb_connected_clients - 1
        BY <1>1, <1>6, DeleteCounts DEF StatusFailed, Listed
    <2>2. QED
        BY <1>1, <1>6, <2>1 DEF StatusFailed
<1>7. CASE SkipSend \/ MsgSent
    BY <1>1, <1>7 DEF SkipSend, MsgSent
<1>8. CASE MsgFailed \/ RecvFailed
    BY <1>1, <1>8 DEF MsgFailed, RecvFailed
<1>9. CASE RecvNothing \/ RecvLogIn \/ RecvSuperLogIn \/ RecvLogOut \/ RecvCommand
    <2>1. pc = "recv" /\ NextClient /\ UNCHANGED m_nb_connected_clients
        BY <1>9 DEF RecvNothing, RecvLogIn, RecvSuperLogIn, RecvLogOut, RecvCommand
    <2>2. QED
        BY <1>1, <2>1
<1>10. QED
    BY <1>2, <1>3, <1>4, <1>5, <1>6, <1>7, <1>8, <1>9 DEF Next, UpdateStep

LEMMA PassInvariance == Spec => []InPass
PROOF
<1>1. Init => InPass
    BY DEF Init, InPass
<1>2. IInv /\ InPass /\ [Next]_vars => InPass'
    BY PassStep DEF IInv, vars, listVars, localVars, InPass
<1>3. QED
    BY <1>1, <1>2, Invariance, PTL DEF Spec

\* update() (clients.h:277) returns, though it deletes clients from the list it
\* goes over and may then use an index past its end: each of its steps brings the
\* end nearer, and there are never more than four for each place in the list.
THEOREM UpdateReturns ==
    Spec => /\ [](StepsLeft \in 0 .. 4 * NbAllowedClients + 5)
            /\ [][UpdateStep /\ pc # "idle" => StepsLeft' < StepsLeft]_vars
PROOF
<1>1. TypeOK /\ InPass => StepsLeft \in 0 .. 4 * NbAllowedClients + 5
    BY ClientsAssumption DEF TypeOK, InPass, StepsLeft
<1>2. TypeOK /\ InPass /\ [Next]_vars => [UpdateStep /\ pc # "idle" => StepsLeft' < StepsLeft]_vars
    BY PassStep
<1>3. IInv => TypeOK
    BY DEF IInv
<1>4. QED
    BY <1>1, <1>2, <1>3, PassInvariance, Invariance, PTL DEF Spec

\* The pass has not come past the client behind a descriptor.
Unread(fd) == \E i \in Listed : i >= client_idx /\ m_clients[i].m_socket = fd

\* Where the pass goes from a client that it has not read.
GoesOn(fd) ==
    \/ ReadFrom(fd)
    \/ fd \notin open_fds'
    \/ pc' # "idle" /\ Unread(fd)'
    \/ pc' = "idle" /\ m_nb_connected_clients' < m_nb_connected_clients

LEMMA UnreadStep ==
    ASSUME IInv, InPass, pc # "idle", UpdateStep, NEW fd \in open_fds, Unread(fd)
    PROVE  GoesOn(fd)
PROOF
<1>. USE DEF Return, NextClient, Goto
<1>1. PICK i \in Listed : i >= client_idx /\ m_clients[i].m_socket = fd
    BY DEF Unread
<1>2. /\ TypeOK /\ ListSound /\ TurnSound /\ client_idx \in Listed
      /\ i \in Nat /\ client_idx \in Nat /\ i < NbAllowedClients /\ client_idx < NbAllowedClients
      /\ m_nb_connected_clients \in Nat
    BY <1>1, ClientsAssumption DEF IInv, TypeOK, Listed
<1>3. CASE BeginTurn \/ SkipStatus \/ StatusSent \/ SkipSend \/ MsgSent
    <2>1. pc' # "idle" /\ UNCHANGED <<m_clients, m_nb_connected_clients, client_idx>>
        BY <1>3 DEF BeginTurn, SkipStatus, StatusSent, SkipSend, MsgSent, listVars
    <2>2. QED
        BY <2>1 DEF GoesOn, Unread, Listed
<1>4. CASE StatusFailed
    <2>1. DeleteClient(client_idx) /\ pc' = "send" /\ client_idx' = client_idx
        BY <1>4 DEF StatusFailed
    <2>2. CASE i = client_idx
        <3>1. open_fds' = open_fds \ {fd}
            BY <1>1, <1>2, <2>1, <2>2 DEF DeleteClient, Listed
        <3>2. QED
            BY <3>1 DEF GoesOn
    <2>3. CASE i > client_idx
        <3>1. i - 1 \in Listed' /\ i - 1 >= client_idx'
            BY <1>1, <1>2, <2>1, <2>3, DeleteShifts DEF Listed
        <3>2. m_clients'[i - 1] = m_clients[i]
            BY <1>2, <2>1, <2>3, <3>1, DeleteShifts
        <3>3. Unread(fd)'
            BY <1>1, <3>1, <3>2 DEF Unread
        <3>4. QED
            BY <2>1, <3>3 DEF GoesOn
    <2>4. QED
        BY <1>1, <1>2, <2>2, <2>3
<1>5. CASE MsgFailed \/ RecvFailed
    <2>1. DeleteClient(client_idx) /\ pc' = "idle"
        BY <1>5 DEF MsgFailed, RecvFailed
    <2>2. m_nb_connected_clients' < m_nb_connected_clients
        BY <1>2, <2>1, DeleteCounts
    <2>3. QED
        BY <2>1, <2>2 DEF GoesOn
<1>6. CASE RecvNothing \/ RecvLogIn \/ RecvSuperLogIn \/ RecvLogOut \/ RecvCommand
    <2>1. pc = "recv" /\ pc' = "loop" /\ client_idx' = client_idx + 1 /\ UNCHANGED m_nb_connected_clients
        BY <1>6 DEF RecvNothing, RecvLogIn, RecvSuperLogIn, RecvLogOut, RecvCommand, listVars
    <2>2. UNCHANGED m_clients \/ \E state : SetState(state)
        BY <1>6 DEF RecvNothing, RecvLogIn, RecvSuperLogIn, RecvLogOut, RecvCommand, listVars
    <2>3. i \in Listed' /\ m_clients'[i].m_socket = m_clients[i].m_socket
        <3>1. m_clients \in [Slots -> Client] /\ i \in Slots /\ client_idx \in Slots
            BY <1>2, ClientsAssumption DEF TypeOK, Slots
        <3>2. m_clients'[i].m_socket = m_clients[i].m_socket
            BY <2>2, <3>1 DEF SetState, Client
        <3>3. QED
            BY <2>1, <3>2 DEF Listed
    <2>4. CASE i = client_idx
        BY <1>1, <1>2, <2>1, <2>4 DEF GoesOn, ReadFrom
    <2>5. CASE i > client_idx
        <3>1. i >= client_idx'
            BY <1>2, <2>1, <2>5
        <3>2. Unread(fd)'
            BY <1>1, <2>3, <3>1 DEF Unread
        <3>3. QED
            BY <2>1, <3>2 DEF GoesOn
    <2>6. QED
        BY <1>1, <1>2, <2>4, <2>5
<1>7. ~BeginUpdate /\ ~EndUpdate
    BY <1>2 DEF BeginUpdate, EndUpdate, Listed
<1>8. QED
    BY <1>3, <1>4, <1>5, <1>6, <1>7 DEF UpdateStep

\* A pass over the list skips nobody, whatever it deletes on its way (clients.h:314):
\* a client that it has not read yet is read by the next step, or is gone after it,
\* or is still to be read; or the pass ends there, at a client that has failed and
\* leaves the list for good.  With fairness, and as many failures as there are
\* clients, this is EveryClientRead.
THEOREM NobodyIsSkipped ==
    Spec => /\ [][pc = "idle" /\ pc' # "idle" => \A fd \in open_fds : Unread(fd)']_vars
            /\ [][pc # "idle" /\ UpdateStep => \A fd \in open_fds : Unread(fd) => GoesOn(fd)]_vars
PROOF
<1>1. ASSUME IInv, [Next]_vars
      PROVE  [pc = "idle" /\ pc' # "idle" => \A fd \in open_fds : Unread(fd)']_vars
    <2>. SUFFICES ASSUME Next, pc = "idle", pc' # "idle", NEW fd \in open_fds
                  PROVE  Unread(fd)'
        BY <1>1
    <2>1. BeginUpdate
        BY DEF Next, OwnerCall, UpdateStep, SetServerLogin, SetUdpFd, AddClient, SendStatus, SendTcpMsg,
            GetRecvTcpMsg, BeginTurn, EndUpdate, SkipStatus, StatusSent, StatusFailed, SkipSend, MsgSent,
            MsgFailed, RecvNothing, RecvFailed, RecvLogIn, RecvSuperLogIn, RecvLogOut, RecvCommand, localVars
    <2>2. PICK i \in Listed : m_clients[i].m_socket = fd
        BY <1>1 DEF IInv, ListSound
    <2>3. client_idx' = 0 /\ UNCHANGED <<m_clients, m_nb_connected_clients>>
        BY <2>1 DEF BeginUpdate, listVars
    <2>4. i \in Listed' /\ i >= 0 /\ m_clients'[i].m_socket = fd
        BY <1>1, <2>2, <2>3, ClientsAssumption DEF IInv, TypeOK, Listed
    <2>5. QED
        BY <2>3, <2>4 DEF Unread
<1>2. ASSUME IInv, InPass, [Next]_vars
      PROVE  [pc # "idle" /\ UpdateStep => \A fd \in open_fds : Unread(fd) => GoesOn(fd)]_vars
    BY <1>2, UnreadStep
<1>3. QED
    BY <1>1, <1>2, PassInvariance, Invariance, PTL DEF Spec

=============================================================================
