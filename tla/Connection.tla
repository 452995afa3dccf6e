----------------------------- MODULE Connection -----------------------------
(***************************************************************************)
(* One client (application/network/clients/client.h) and its TCP           *)
(* connection: what tryToRecvTcpMsg() takes for a frame, and what the turn *)
(* of the client in Clients::update() does with it.                        *)
(*                                                                         *)
(* TCP keeps the bytes in order and nothing else: one read() may return    *)
(* part of a frame, several frames, or the end of one and the beginning of *)
(* the next, and each is taken for one frame.  Clients.tla, which has the  *)
(* list, has a whole frame for every read; here are the bytes.             *)
(***************************************************************************)
EXTENDS Frames

CONSTANTS
    PeerFrames,     \* what a peer may send: sequences of bytes
    MaxSent,        \* bound on the frames a peer sends in one connection
    OutOfBounds     \* the buffers that reading m_clients[NbAllowedClients] can yield

\* Past the array are counters, pointers and the last status frame: where the
\* last character of a login would be, none of them has that character.
ASSUME ConnectionAssumption ==
    /\ PeerFrames \subseteq Seq(Byte)
    /\ MaxSent \in Nat
    /\ OutOfBounds \subseteq Buffers
    /\ \A buffer \in OutOfBounds, login \in {ConnectionLogin, SudoLogin} :
            buffer[LoginOffset + Len(login) - 1] # login[Len(login)]

Logged == {"Authenticated", "TakingControl"}
ClientStates == {"Uninitialized", "Connected"} \cup Logged

VARIABLES
    m_state,
    m_bytes_buffer,
    msg,            \* the frame that update() has in hand; Zeros: none
    pc,             \* "idle", or "handle": between read() and the end of the turn
    stream,         \* the bytes the peer has sent and read() has not returned
    sent,           \* how many frames the peer has sent
    piece           \* not in the code: what the read() of this turn returned

vars == <<m_state, m_bytes_buffer, msg, pc, stream, sent, piece>>

Init ==
    /\ m_state = "Uninitialized"
    /\ m_bytes_buffer = Zeros
    /\ msg = Zeros
    /\ pc = "idle"
    /\ stream = <<>>
    /\ sent = 0
    /\ piece = <<>>

\* connect().  A client gets the first slot that is not in use, and its buffer
\* with what is in it: nothing, what the client before it left there, or what the
\* shift of deleteClient() copied from past the end of a full list.
Connect ==
    /\ m_state = "Uninitialized"
    /\ m_state' = "Connected"
    /\ m_bytes_buffer' \in {Zeros, m_bytes_buffer} \cup OutOfBounds
    /\ UNCHANGED <<msg, pc, stream, sent, piece>>

\* The peer sends a frame: TCP makes bytes of it.
Send ==
    /\ m_state # "Uninitialized"
    /\ sent < MaxSent
    /\ \E frame \in PeerFrames : stream' = stream \o frame
    /\ sent' = sent + 1
    /\ UNCHANGED <<m_state, m_bytes_buffer, msg, pc, piece>>

\* read() returns n bytes, as many as have arrived and there is room for.
Filled(n) ==
    [i \in Offsets |-> IF i < n THEN stream[i + 1] ELSE m_bytes_buffer[i]]

\* Mutant: read() is not told how much room there is.
LengthsUnbounded == 1 .. Len(stream)

Lengths == {n \in 1 .. MaxFrameLen : n <= Len(stream)}

\* Mutant: the buffer is not cleared.
ReadNotClearing ==
    /\ pc = "idle" /\ m_state # "Uninitialized"
    /\ \E n \in Lengths :
        /\ msg' = Filled(n)
        /\ m_bytes_buffer' = Filled(n)
        /\ piece' = SubSeq(stream, 1, n)
        /\ stream' = SubSeq(stream, n + 1, Len(stream))
    /\ pc' = "handle"
    /\ UNCHANGED <<m_state, sent>>

\* tryToRecvTcpMsg(), with r > 0: the whole buffer is the frame, and the bytes
\* that were read, no others, are cleared.
Read ==
    /\ pc = "idle" /\ m_state # "Uninitialized"
    /\ \E n \in Lengths :
        /\ msg' = Filled(n)
        /\ m_bytes_buffer' = [i \in Offsets |-> IF i < n THEN 0 ELSE Filled(n)[i]]
        /\ piece' = SubSeq(stream, 1, n)
        /\ stream' = SubSeq(stream, n + 1, Len(stream))
    /\ pc' = "handle"
    /\ UNCHANGED <<m_state, sent>>

\* r is 0 or an error, or a message could not be sent: the client is deleted,
\* and its slot with it.
Delete ==
    /\ pc = "idle" /\ m_state # "Uninitialized"
    /\ m_state' = "Uninitialized"
    /\ stream' = <<>>
    /\ sent' = 0
    /\ UNCHANGED <<m_bytes_buffer, msg, pc, piece>>

\* The frame has been handled.
Handled ==
    /\ msg' = Zeros
    /\ piece' = <<>>
    /\ pc' = "idle"
    /\ UNCHANGED <<m_bytes_buffer, stream, sent>>

\* The state after a frame; someone_controls: m_client_taking_control isSome().
StateAfter(someone_controls, nul_behind) ==
    CASE m_state = "Connected" /\ GetId(msg) = Authentification /\ AuthReq(msg) = LogIn ->
            LET result == LoginResult(msg, nul_behind)
            IN  CASE result = "Client" -> "Authenticated"
                  [] result = "SuperClient" /\ ~someone_controls -> "TakingControl"
                  [] OTHER -> m_state
      [] m_state \in Logged /\ GetId(msg) = Authentification /\ AuthReq(msg) = LogOut -> "Connected"
      [] OTHER -> m_state

\* The turn after the read, while another client has control, or none has.
Handle(someone_controls) ==
    /\ pc = "handle"
    /\ \E nul_behind \in BOOLEAN : m_state' = StateAfter(someone_controls, nul_behind)
    /\ Handled

Next ==
    \/ Connect \/ Send \/ Read \/ Delete
    \/ \E someone_controls \in BOOLEAN : Handle(someone_controls)

Spec == Init /\ [][Next]_vars

-----------------------------------------------------------------------------
(* Properties                                                              *)

\* Every variable has a value of its kind.
TypeOK ==
    /\ m_state \in ClientStates
    /\ m_bytes_buffer \in Buffers
    /\ msg \in Buffers
    /\ pc \in {"idle", "handle"}
    /\ stream \in Seq(Byte)
    /\ sent \in 0 .. MaxSent
    /\ piece \in Seq(Byte)
    /\ Len(piece) <= MaxFrameLen

\* What the read() of the turn returned is the beginning of the frame in hand;
\* behind it are zeros, or what a slot had from past the end of the array,
\* and never bytes of an earlier read (client.h:66), of this client or another.
FrameIsPiece ==
    pc = "handle" =>
        /\ piece # <<>>
        /\ \A i \in Offsets :
                \/ i < Len(piece) /\ msg[i] = piece[i + 1]
                \/ i >= Len(piece) /\ (msg[i] = 0 \/ \E buffer \in OutOfBounds : msg[i] = buffer[i])

\* The bytes of a login request, as they have to be in one piece.
HasLogin(bytes, login) ==
    /\ Len(bytes) >= LoginOffset + Len(login)
    /\ bytes[1] = Authentification
    /\ bytes[LoginOffset] = LogIn
    /\ \A i \in DOMAIN login : bytes[LoginOffset + i] = login[i]

\* A client is logged in by one read() that returned the request and the whole
\* login, at the beginning of what it returned: never by parts of two reads, by
\* bytes left over from an earlier one, or by a login without the request
\* before it (client.h:59, clients.h:363).  So a login that TCP delivers in
\* parts is lost, and so is every frame behind another in one read.
LoginInOnePiece ==
    [][m_state = "Connected" /\ m_state' \in Logged =>
            HasLogin(piece, IF m_state' = "TakingControl" THEN SudoLogin ELSE ConnectionLogin)]_vars

=============================================================================
