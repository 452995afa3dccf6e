-------------------------- MODULE ConnectionProofs --------------------------
(***************************************************************************)
(* Proofs about Connection, for every frame length, all logins that fit in *)
(* a frame, whatever peers send, and whatever is past the array of clients.*)
(***************************************************************************)
EXTENDS Connection, TLAPS

\* What the slot had past what has been read: zeros, or what was past the array.
Clean(i) == m_bytes_buffer[i] = 0 \/ \E buffer \in OutOfBounds : m_bytes_buffer[i] = buffer[i]

\* FrameIsPiece holds because clearing what was read leaves the buffer as clean
\* as it was.
ConnInv ==
    /\ TypeOK
    /\ FrameIsPiece
    /\ \A i \in Offsets : Clean(i)

LEMMA ConnInit == Init => ConnInv
PROOF
<1>. SUFFICES ASSUME Init PROVE ConnInv
    OBVIOUS
<1>1. Zeros \in Buffers
    BY DEF Zeros, Buffers, Byte
<1>2. TypeOK
    <2>1. <<>> \in Seq(Byte) /\ Len(<<>>) = 0 /\ MaxFrameLen >= 0
        BY FramesAssumption DEF LoginOffset, FRAME_HEADER_LEN
    <2>2. QED
        BY <1>1, <2>1, ConnectionAssumption DEF Init, TypeOK, ClientStates
<1>3. QED
    BY <1>2 DEF Init, ConnInv, FrameIsPiece, Clean, Zeros

\* What a read() returns, what is left of the stream, and what is in the buffer.
LEMMA ReadTakes ==
    ASSUME TypeOK, NEW n \in Lengths
    PROVE  /\ Filled(n) \in Buffers
           /\ SubSeq(stream, 1, n) \in Seq(Byte)
           /\ SubSeq(stream, n + 1, Len(stream)) \in Seq(Byte)
           /\ Len(SubSeq(stream, 1, n)) = n
           /\ n <= MaxFrameLen /\ n >= 1
           /\ \A i \in Offsets : i < n => Filled(n)[i] = SubSeq(stream, 1, n)[i + 1]
PROOF
<1>1. n \in Nat /\ n >= 1 /\ n <= Len(stream) /\ n <= MaxFrameLen /\ stream \in Seq(Byte)
    BY FramesAssumption DEF Lengths, TypeOK
<1>2. ASSUME NEW i \in Offsets
      PROVE  Filled(n)[i] \in Byte /\ (i < n => Filled(n)[i] = SubSeq(stream, 1, n)[i + 1])
    <2>1. i \in Int /\ i >= 0
        BY DEF Offsets
    <2>2. CASE i < n
        <3>1. i + 1 \in 1 .. Len(stream) /\ i + 1 \in 1 .. n
            BY <1>1, <2>1, <2>2
        <3>2. SubSeq(stream, 1, n)[i + 1] = stream[i + 1] /\ stream[i + 1] \in Byte
            BY <1>1, <3>1
        <3>3. QED
            BY <2>2, <3>2 DEF Filled
    <2>3. CASE ~(i < n)
        BY <2>3 DEF Filled, TypeOK, Buffers
    <2>4. QED
        BY <2>2, <2>3
<1>3. Filled(n) \in Buffers
    BY <1>2 DEF Buffers, Filled
<1>4. SubSeq(stream, 1, n) \in Seq(Byte) /\ Len(SubSeq(stream, 1, n)) = n
    BY <1>1
<1>5. SubSeq(stream, n + 1, Len(stream)) \in Seq(Byte)
    BY <1>1
<1>6. QED
    BY <1>1, <1>2, <1>3, <1>4, <1>5

LEMMA ConnNext ==
    ASSUME ConnInv, [Next]_vars
    PROVE  ConnInv'
PROOF
<1>. USE DEF ConnInv
<1>1. CASE Connect
    <2>1. Zeros \in Buffers
        BY DEF Zeros, Buffers, Byte
    <2>2. m_bytes_buffer' \in Buffers
        BY <1>1, <2>1, ConnectionAssumption DEF Connect, TypeOK
    <2>3. TypeOK'
        BY <1>1, <2>2 DEF Connect, TypeOK, ClientStates
    <2>4. ASSUME NEW i \in Offsets
          PROVE  Clean(i)'
        <3>1. CASE m_bytes_buffer' = Zeros
            BY <3>1 DEF Clean, Zeros
        <3>2. CASE m_bytes_buffer' = m_bytes_buffer
            BY <3>2 DEF Clean
        <3>3. CASE m_bytes_buffer' \in OutOfBounds
            BY <3>3 DEF Clean
        <3>4. QED
            BY <1>1, <3>1, <3>2, <3>3 DEF Connect
    <2>5. FrameIsPiece'
        BY <1>1 DEF Connect, FrameIsPiece
    <2>6. QED
        BY <2>3, <2>4, <2>5
<1>2. CASE Send
    <2>1. stream' \in Seq(Byte)
        BY <1>2, ConnectionAssumption DEF Send, TypeOK
    <2>2. TypeOK'
        BY <1>2, <2>1, ConnectionAssumption DEF Send, TypeOK
    <2>3. QED
        BY <1>2, <2>2 DEF Send, FrameIsPiece, Clean
<1>3. CASE Read
    <2>1. PICK n \in Lengths :
            /\ msg' = Filled(n)
            /\ m_bytes_buffer' = [i \in Offsets |-> IF i < n THEN 0 ELSE Filled(n)[i]]
            /\ piece' = SubSeq(stream, 1, n)
            /\ stream' = SubSeq(stream, n + 1, Len(stream))
        BY <1>3 DEF Read
    <2>2. /\ Filled(n) \in Buffers
          /\ piece' \in Seq(Byte) /\ stream' \in Seq(Byte)
          /\ Len(piece') = n /\ n <= MaxFrameLen /\ n >= 1
          /\ \A i \in Offsets : i < n => msg'[i] = piece'[i + 1]
        BY <2>1, ReadTakes
    <2>3. m_bytes_buffer' \in Buffers
        BY <2>1, <2>2 DEF Buffers, Byte
    <2>4. TypeOK'
        BY <1>3, <2>1, <2>2, <2>3 DEF Read, TypeOK
    <2>5. \A i \in Offsets : i >= n => msg'[i] = m_bytes_buffer[i] /\ m_bytes_buffer'[i] = m_bytes_buffer[i]
        BY <2>1, FramesAssumption DEF Filled, Offsets, Lengths
    <2>6. \A i \in Offsets : i < n => m_bytes_buffer'[i] = 0
        BY <2>1
    <2>7. \A i \in Offsets : i < n \/ i >= n
        BY <2>2, FramesAssumption DEF Offsets, Lengths
    <2>8. \A i \in Offsets : Clean(i)'
        BY <2>5, <2>6, <2>7 DEF Clean
    <2>9. FrameIsPiece'
        BY <2>2, <2>5, <2>7 DEF FrameIsPiece, Clean
    <2>10. QED
        BY <2>4, <2>8, <2>9
<1>4. CASE Delete
    BY <1>4, ConnectionAssumption DEF Delete, TypeOK, FrameIsPiece, Clean, ClientStates
<1>5. CASE \E someone_controls \in BOOLEAN : Handle(someone_controls)
    <2>1. m_state' \in ClientStates
        BY <1>5 DEF Handle, StateAfter, TypeOK, ClientStates, Logged
    <2>2. Zeros \in Buffers
        BY DEF Zeros, Buffers, Byte
    <2>3. <<>> \in Seq(Byte) /\ Len(<<>>) = 0 /\ 0 <= MaxFrameLen
        BY FramesAssumption DEF LoginOffset, FRAME_HEADER_LEN
    <2>4. msg' = Zeros /\ piece' = <<>> /\ pc' = "idle" /\ UNCHANGED <<m_bytes_buffer, stream, sent>>
        BY <1>5 DEF Handle, Handled
    <2>5. TypeOK'
        BY <2>1, <2>2, <2>3, <2>4 DEF TypeOK
    <2>6. QED
        BY <2>4, <2>5 DEF FrameIsPiece, Clean
<1>6. CASE UNCHANGED vars
    BY <1>6 DEF vars, TypeOK, FrameIsPiece, Clean
<1>7. QED
    BY <1>1, <1>2, <1>3, <1>4, <1>5, <1>6 DEF Next

THEOREM ConnInvariance == Spec => []ConnInv
PROOF
    BY ConnInit, ConnNext, PTL DEF Spec

\* For all frame lengths and peers the connection is type correct, and no read
\* returns more than the buffer holds (client.h:59).
THEOREM ConnTypeCorrect == Spec => []TypeOK
PROOF
<1>1. ConnInv => TypeOK
    BY DEF ConnInv
<1>2. QED
    BY <1>1, ConnInvariance, PTL

\* For all frame lengths and peers, no frame has bytes of an earlier read behind
\* those of its own: clearing the r bytes of each read is enough (client.h:66).
THEOREM FrameAlwaysPiece == Spec => []FrameIsPiece
PROOF
<1>1. ConnInv => FrameIsPiece
    BY DEF ConnInv
<1>2. QED
    BY <1>1, ConnInvariance, PTL

-----------------------------------------------------------------------------

\* A frame in hand that check() accepts came whole in the read of this turn: its
\* last character is not a zero, and not what was past the array.
LEMMA AcceptedCameWhole ==
    ASSUME ConnInv, pc = "handle", NEW login \in {ConnectionLogin, SudoLogin}, NEW nul_behind,
           GetId(msg) = Authentification, AuthReq(msg) = LogIn, Check(login, msg, nul_behind)
    PROVE  HasLogin(piece, login)
PROOF
<1>. DEFINE last == LoginOffset + Len(login) - 1
<1>1. /\ login \in Seq(Byte \ {0}) /\ login # <<>> /\ Len(login) \in Nat \ {0}
      /\ Len(login) <= MaxFrameLen - LoginOffset
      /\ MaxFrameLen \in Nat /\ LoginOffset = 5 /\ LoginOffset <= MaxFrameLen
    BY FramesAssumption DEF LoginOffset, FRAME_HEADER_LEN
<1>2. last \in Offsets /\ msg[last] = login[Len(login)] /\ login[Len(login)] \in Byte \ {0}
    <2>1. Len(login) \in DOMAIN login /\ login[Len(login)] \in Byte \ {0}
        BY <1>1
    <2>2. msg[LoginOffset + Len(login) - 1] = login[Len(login)]
        BY <2>1 DEF Check
    <2>3. QED
        BY <1>1, <2>1, <2>2 DEF Offsets
<1>3. Len(piece) \in Nat
    BY DEF ConnInv, TypeOK
<1>4. last < Len(piece)
    <2>1. msg[last] # 0 /\ \A buffer \in OutOfBounds : msg[last] # buffer[last]
        BY <1>2, ConnectionAssumption
    <2>2. QED
        BY <1>2, <2>1 DEF ConnInv, FrameIsPiece
<1>5. \A i \in Offsets : i < Len(piece) => msg[i] = piece[i + 1]
    BY <1>3 DEF ConnInv, FrameIsPiece, Offsets
<1>6. Len(piece) >= LoginOffset + Len(login)
    BY <1>1, <1>3, <1>4
<1>7. piece[1] = Authentification /\ piece[LoginOffset] = LogIn
    <2>1. 0 \in Offsets /\ 4 \in Offsets /\ 0 < Len(piece) /\ 4 < Len(piece)
        BY <1>1, <1>3, <1>6 DEF Offsets
    <2>2. msg[0] = piece[1] /\ msg[4] = piece[5]
        BY <1>5, <2>1
    <2>3. QED
        BY <1>1, <2>2 DEF GetId, AuthReq, FRAME_HEADER_LEN
<1>8. ASSUME NEW i \in DOMAIN login
      PROVE  piece[LoginOffset + i] = login[i]
    <2>1. i \in 1 .. Len(login) /\ LoginOffset + i - 1 \in Offsets /\ LoginOffset + i - 1 < Len(piece)
          /\ (LoginOffset + i - 1) + 1 = LoginOffset + i
        BY <1>1, <1>3, <1>6 DEF Offsets
    <2>2. msg[LoginOffset + i - 1] = piece[LoginOffset + i]
        BY <1>5, <2>1
    <2>3. msg[LoginOffset + i - 1] = login[i]
        BY <1>8 DEF Check
    <2>4. QED
        BY <2>2, <2>3
<1>9. QED
    BY <1>6, <1>7, <1>8 DEF HasLogin

\* For all logins and all ways in which TCP cuts the stream, a client is logged in
\* by one read that returned the whole request, and by nothing else.
THEOREM LoginAlwaysInOnePiece == Spec => LoginInOnePiece
PROOF
<1>1. ASSUME ConnInv, [Next]_vars, m_state = "Connected", m_state' \in Logged
      PROVE  HasLogin(piece, IF m_state' = "TakingControl" THEN SudoLogin ELSE ConnectionLogin)
    <2>1. \E someone_controls \in BOOLEAN : Handle(someone_controls)
        BY <1>1 DEF Next, vars, Connect, Send, Read, Delete, Logged
    <2>2. PICK someone_controls \in BOOLEAN, nul_behind \in BOOLEAN :
                m_state' = StateAfter(someone_controls, nul_behind)
        BY <2>1 DEF Handle
    <2>3. GetId(msg) = Authentification /\ AuthReq(msg) = LogIn
        BY <1>1, <2>2 DEF StateAfter, Logged
    <2>4. \/ m_state' = "Authenticated" /\ LoginResult(msg, nul_behind) = "Client"
          \/ m_state' = "TakingControl" /\ LoginResult(msg, nul_behind) = "SuperClient"
        BY <1>1, <2>2, <2>3 DEF StateAfter, Logged
    <2>5. CASE m_state' = "Authenticated" /\ LoginResult(msg, nul_behind) = "Client"
        <3>1. Check(ConnectionLogin, msg, nul_behind)
            BY <2>5 DEF LoginResult
        <3>2. QED
            BY <1>1, <2>1, <2>3, <2>5, <3>1, AcceptedCameWhole DEF Handle
    <2>6. CASE m_state' = "TakingControl" /\ LoginResult(msg, nul_behind) = "SuperClient"
        <3>1. Check(SudoLogin, msg, nul_behind)
            BY <2>6 DEF LoginResult
        <3>2. QED
            BY <1>1, <2>1, <2>3, <2>6, <3>1, AcceptedCameWhole DEF Handle
    <2>7. QED
        BY <2>4, <2>5, <2>6
<1>2. QED
    BY <1>1, ConnInvariance, PTL DEF Spec, LoginInOnePiece

-----------------------------------------------------------------------------
(* Frames and logins                                                       *)

\* What is put into a frame is read back from it, for every length of a frame and
\* of the data: the two bytes of the length lose nothing (frame.h:57, 89), and the
\* data never reaches the header or the end of the buffer (frame.h:76).
THEOREM FrameReadsBack ==
    ASSUME NEW frame \in Buffers, NEW id \in Byte, NEW number \in Byte, NEW data \in Seq(Byte),
           NEW len \in Nat, len < 65536,
           NEW made, made = SetData(SetHeader(frame, id, len, number), data)
    PROVE  /\ made \in Buffers
           /\ GetId(made) = id /\ GetLen(made) = len /\ GetNumber(made) = number
           /\ \A i \in DOMAIN data : FRAME_HEADER_LEN + i - 1 \in Offsets =>
                    made[FRAME_HEADER_LEN + i - 1] = data[i]
PROOF
<1>. DEFINE header == SetHeader(frame, id, len, number)
<1>1. MaxFrameLen \in Nat /\ MaxFrameLen > 5
    BY FramesAssumption DEF LoginOffset, FRAME_HEADER_LEN
<1>2. 0 \in Offsets /\ 1 \in Offsets /\ 2 \in Offsets /\ 3 \in Offsets
    BY <1>1 DEF Offsets
<1>3. /\ (len \div 256) % 256 \in Byte /\ len % 256 \in Byte
      /\ (((len \div 256) % 256) * 256) + (len % 256) = len
    BY DEF Byte
<1>4. /\ header \in Buffers
      /\ header[0] = id /\ header[1] = (len \div 256) % 256 /\ header[2] = len % 256 /\ header[3] = number
    BY <1>2, <1>3 DEF SetHeader, Buffers
<1>. HIDE DEF header
<1>0. made = SetData(header, data)
    BY DEF header
<1>5. ASSUME NEW i \in Offsets
      PROVE  /\ made[i] \in Byte
             /\ i < FRAME_HEADER_LEN => made[i] = header[i]
             /\ i >= FRAME_HEADER_LEN /\ i - FRAME_HEADER_LEN < Len(data) => made[i] = data[i - FRAME_HEADER_LEN + 1]
    BY <1>0, <1>1, <1>4 DEF SetData, Offsets, Buffers, FRAME_HEADER_LEN
<1>6. made \in Buffers
    BY <1>0, <1>5 DEF SetData, Buffers
<1>7. made[0] = id /\ made[1] = (len \div 256) % 256 /\ made[2] = len % 256 /\ made[3] = number
    BY <1>2, <1>4, <1>5 DEF FRAME_HEADER_LEN
<1>8. ASSUME NEW i \in DOMAIN data, FRAME_HEADER_LEN + i - 1 \in Offsets
      PROVE  made[FRAME_HEADER_LEN + i - 1] = data[i]
    <2>1. i \in Nat /\ i >= 1 /\ i <= Len(data) /\ (FRAME_HEADER_LEN + i - 1) - FRAME_HEADER_LEN + 1 = i
        BY DEF FRAME_HEADER_LEN
    <2>2. FRAME_HEADER_LEN + i - 1 >= FRAME_HEADER_LEN /\ (FRAME_HEADER_LEN + i - 1) - FRAME_HEADER_LEN < Len(data)
        BY <2>1 DEF FRAME_HEADER_LEN
    <2>3. QED
        BY <1>5, <1>8, <2>1, <2>2
<1>9. QED
    BY <1>3, <1>6, <1>7, <1>8 DEF GetId, GetLen, GetNumber

\* check() takes a frame for one login at most (login.h:20): not for one that begins
\* with the other, as it compares the '\0' too.
THEOREM OneLoginFits ==
    ASSUME NEW frame, NEW nul_behind,
           Check(ConnectionLogin, frame, nul_behind), Check(SudoLogin, frame, nul_behind)
    PROVE  ConnectionLogin = SudoLogin
PROOF
<1>. DEFINE Fits(login) == /\ login \in Seq(Byte \ {0}) /\ Len(login) \in Nat
                           /\ Len(login) <= MaxFrameLen - LoginOffset
                           /\ Check(login, frame, nul_behind)
<1>1. MaxFrameLen \in Nat /\ LoginOffset = 5
    BY FramesAssumption DEF LoginOffset, FRAME_HEADER_LEN
<1>2. Fits(ConnectionLogin) /\ Fits(SudoLogin)
    BY FramesAssumption
\* The '\0' of the shorter is no character of the longer.
<1>3. ASSUME NEW a, NEW b, Fits(a), Fits(b)
      PROVE  ~(Len(a) < Len(b))
    <2>1. SUFFICES ASSUME Len(a) < Len(b) PROVE FALSE
        OBVIOUS
    <2>2. Len(a) + 1 \in DOMAIN b /\ LoginOffset + (Len(a) + 1) - 1 = LoginOffset + Len(a)
        BY <1>1, <1>3, <2>1
    <2>3. frame[LoginOffset + Len(a)] = b[Len(a) + 1] /\ b[Len(a) + 1] # 0
        BY <1>3, <2>2 DEF Check
    <2>4. LoginOffset + Len(a) \in Offsets
        BY <1>1, <1>3, <2>1 DEF Offsets
    <2>5. frame[LoginOffset + Len(a)] = 0
        BY <1>3, <2>4 DEF Check
    <2>6. QED
        BY <2>3, <2>5
<1>4. Len(ConnectionLogin) = Len(SudoLogin)
    BY <1>2, <1>3
<1>5. \A i \in 1 .. Len(SudoLogin) : ConnectionLogin[i] = SudoLogin[i]
    BY <1>2, <1>4 DEF Check
<1>6. QED
    BY <1>2, <1>4, <1>5

\* The request for a login, as a client makes it of a fresh frame.
Request(login, number) ==
    SetData(SetHeader(Zeros, Authentification, 1 + Len(login), number), <<LogIn>> \o login)

\* A whole request is recognised, whatever the logins are: the one of the visitor
\* logs the visitor in, the one of the administrator gives control.  If a login
\* fills the frame to its end, so that there is no room for its '\0', this is left
\* to what is behind the frame (frame.h:158).
THEOREM RequestIsRecognised ==
    ASSUME NEW login \in {ConnectionLogin, SudoLogin}, NEW number \in Byte, NEW nul_behind \in BOOLEAN,
           LoginOffset + Len(login) \in Offsets \/ nul_behind,
           ConnectionLogin # SudoLogin
    PROVE  LET frame == Request(login, number)
           IN  /\ GetId(frame) = Authentification /\ AuthReq(frame) = LogIn
               /\ LoginResult(frame, nul_behind) = IF login = SudoLogin THEN "SuperClient" ELSE "Client"
PROOF
<1>. DEFINE data == <<LogIn>> \o login
            header == SetHeader(Zeros, Authentification, 1 + Len(login), number)
            frame == SetData(header, data)
<1>1. /\ login \in Seq(Byte \ {0}) /\ login \in Seq(Byte) /\ Len(login) \in Nat
      /\ Len(login) <= MaxFrameLen - LoginOffset /\ Len(login) < 126
      /\ MaxFrameLen \in Nat /\ MaxFrameLen > 5
    BY FramesAssumption DEF LoginOffset, FRAME_HEADER_LEN, MAX_LOGIN_PASS_LEN
<1>2. /\ data \in Seq(Byte) /\ Len(data) = Len(login) + 1 /\ data[1] = LogIn
      /\ DOMAIN data = 1 .. Len(login) + 1
      /\ \A i \in DOMAIN login : i + 1 \in DOMAIN data /\ data[i + 1] = login[i]
    BY <1>1 DEF LogIn, Byte
<1>3. Zeros \in Buffers /\ Authentification \in Byte /\ 1 + Len(login) \in Nat /\ 1 + Len(login) < 65536
    BY <1>1 DEF Zeros, Buffers, Byte, Authentification
<1>. HIDE DEF data
<1>0. frame = SetData(SetHeader(Zeros, Authentification, 1 + Len(login), number), data)
    OBVIOUS
<1>. HIDE DEF frame, header
<1>4. /\ GetId(frame) = Authentification
      /\ \A i \in DOMAIN data : FRAME_HEADER_LEN + i - 1 \in Offsets =>
                frame[FRAME_HEADER_LEN + i - 1] = data[i]
    BY <1>2, <1>3, <1>0, FrameReadsBack
<1>5. AuthReq(frame) = LogIn
    <2>1. 1 \in DOMAIN data /\ FRAME_HEADER_LEN + 1 - 1 \in Offsets /\ FRAME_HEADER_LEN + 1 - 1 = FRAME_HEADER_LEN
        BY <1>1, <1>2 DEF Offsets, FRAME_HEADER_LEN
    <2>2. frame[FRAME_HEADER_LEN] = LogIn
        BY <1>2, <1>4, <2>1
    <2>3. QED
        BY <2>2 DEF AuthReq
<1>6. ASSUME NEW i \in DOMAIN login
      PROVE  frame[LoginOffset + i - 1] = login[i]
    <2>1. i \in 1 .. Len(login)
        BY <1>1
    <2>2. i + 1 \in DOMAIN data /\ FRAME_HEADER_LEN + (i + 1) - 1 \in Offsets
          /\ FRAME_HEADER_LEN + (i + 1) - 1 = LoginOffset + i - 1
        BY <1>1, <1>2, <2>1 DEF Offsets, LoginOffset, FRAME_HEADER_LEN
    <2>3. QED
        BY <1>2, <1>4, <2>2
<1>7. LoginOffset + Len(login) \in Offsets => frame[LoginOffset + Len(login)] = 0
    <2>1. SUFFICES ASSUME LoginOffset + Len(login) \in Offsets PROVE frame[LoginOffset + Len(login)] = 0
        OBVIOUS
    <2>2. /\ LoginOffset + Len(login) >= FRAME_HEADER_LEN
          /\ ~(LoginOffset + Len(login) - FRAME_HEADER_LEN < Len(data))
          /\ LoginOffset + Len(login) \notin {0, 1, 2, 3}
        BY <1>1, <1>2 DEF LoginOffset, FRAME_HEADER_LEN
    <2>3. frame[LoginOffset + Len(login)] = header[LoginOffset + Len(login)]
        BY <1>1, <1>2, <2>1 DEF frame, SetData, Offsets, LoginOffset, FRAME_HEADER_LEN
    <2>4. header[LoginOffset + Len(login)] = Zeros[LoginOffset + Len(login)]
        BY <2>1, <2>2 DEF header, SetHeader, Zeros
    <2>5. QED
        BY <2>1, <2>3, <2>4 DEF Zeros
<1>8. Check(login, frame, nul_behind)
    BY <1>6, <1>7 DEF Check
<1>9. LoginResult(frame, nul_behind) = IF login = SudoLogin THEN "SuperClient" ELSE "Client"
    BY <1>8, OneLoginFits DEF LoginResult
<1>10. QED
    BY <1>4, <1>5, <1>9 DEF Request, data, header, frame

\* The piece in hand is a whole request for a login, with its '\0'.
WholeRequest(login) ==
    LET end == LoginOffset + Len(login)
    IN  HasLogin(piece, login) /\ end \in Offsets /\ msg[end] = 0

\* The converse of LoginInOnePiece: one read() that returned a whole request is
\* enough.  It always logs a visitor in, whoever has control; it always gives an
\* administrator control when no other client has it, and leaves him connected
\* when one has (clients.h:380, 385).
WholeRequestServed ==
    [][\A someone_controls \in BOOLEAN : Handle(someone_controls) /\ m_state = "Connected" =>
            /\ WholeRequest(ConnectionLogin) => m_state' = "Authenticated"
            /\ WholeRequest(SudoLogin) =>
                    m_state' = IF someone_controls THEN "Connected" ELSE "TakingControl"]_vars

LEMMA RequestInHand ==
    ASSUME ConnInv, pc = "handle", NEW login \in {ConnectionLogin, SudoLogin}, WholeRequest(login), NEW nul_behind
    PROVE  GetId(msg) = Authentification /\ AuthReq(msg) = LogIn /\ Check(login, msg, nul_behind)
PROOF
<1>1. /\ login \in Seq(Byte \ {0}) /\ Len(login) \in Nat
      /\ MaxFrameLen \in Nat /\ LoginOffset = 5 /\ FRAME_HEADER_LEN = 4
    BY FramesAssumption DEF LoginOffset, FRAME_HEADER_LEN
<1>2. /\ Len(piece) \in Nat /\ Len(piece) >= 5 + Len(login)
      /\ piece[1] = Authentification /\ piece[5] = LogIn
      /\ \A i \in DOMAIN login : piece[5 + i] = login[i]
      /\ 5 + Len(login) \in Offsets /\ msg[5 + Len(login)] = 0
    BY <1>1 DEF WholeRequest, HasLogin, ConnInv, TypeOK
<1>3. \A i \in Offsets : i < Len(piece) => msg[i] = piece[i + 1]
    BY <1>2 DEF ConnInv, FrameIsPiece, Offsets
<1>4. msg[0] = Authentification /\ msg[4] = LogIn
    <2>1. 0 \in Offsets /\ 4 \in Offsets
        BY <1>1, <1>2 DEF Offsets
    <2>2. QED
        BY <1>1, <1>2, <1>3, <2>1
<1>5. \A i \in DOMAIN login : msg[5 + i - 1] = login[i]
    <2>1. ASSUME NEW i \in DOMAIN login
          PROVE  5 + i - 1 \in Offsets /\ 5 + i - 1 < Len(piece) /\ (5 + i - 1) + 1 = 5 + i
        BY <1>1, <1>2 DEF Offsets
    <2>2. QED
        BY <1>2, <1>3, <2>1
<1>6. QED
    BY <1>1, <1>2, <1>4, <1>5 DEF GetId, AuthReq, Check

\* For all logins that differ and all ways in which TCP cuts the stream.
THEOREM WholeRequestIsServed == ConnectionLogin # SudoLogin => (Spec => WholeRequestServed)
PROOF
<1>. SUFFICES ASSUME ConnectionLogin # SudoLogin PROVE Spec => WholeRequestServed
    OBVIOUS
<1>1. ASSUME ConnInv, NEW someone_controls \in BOOLEAN, Handle(someone_controls), m_state = "Connected"
      PROVE  /\ WholeRequest(ConnectionLogin) => m_state' = "Authenticated"
             /\ WholeRequest(SudoLogin) =>
                    m_state' = IF someone_controls THEN "Connected" ELSE "TakingControl"
    <2>1. PICK nul_behind \in BOOLEAN : m_state' = StateAfter(someone_controls, nul_behind)
        BY <1>1 DEF Handle
    <2>2. pc = "handle"
        BY <1>1 DEF Handle
    <2>3. ASSUME WholeRequest(ConnectionLogin) PROVE m_state' = "Authenticated"
        <3>1. GetId(msg) = Authentification /\ AuthReq(msg) = LogIn /\ Check(ConnectionLogin, msg, nul_behind)
            BY <1>1, <2>2, <2>3, RequestInHand
        <3>2. LoginResult(msg, nul_behind) = "Client"
            BY <3>1, OneLoginFits DEF LoginResult
        <3>3. QED
            BY <1>1, <2>1, <3>1, <3>2 DEF StateAfter, Logged
    <2>4. ASSUME WholeRequest(SudoLogin)
          PROVE  m_state' = IF someone_controls THEN "Connected" ELSE "TakingControl"
        <3>1. GetId(msg) = Authentification /\ AuthReq(msg) = LogIn /\ Check(SudoLogin, msg, nul_behind)
            BY <1>1, <2>2, <2>4, RequestInHand
        <3>2. LoginResult(msg, nul_behind) = "SuperClient"
            BY <3>1 DEF LoginResult
        <3>3. QED
            BY <1>1, <2>1, <3>1, <3>2 DEF StateAfter, Logged
    <2>5. QED
        BY <2>3, <2>4
<1>2. ConnInv /\ [Next]_vars =>
        [\A someone_controls \in BOOLEAN : Handle(someone_controls) /\ m_state = "Connected" =>
            /\ WholeRequest(ConnectionLogin) => m_state' = "Authenticated"
            /\ WholeRequest(SudoLogin) =>
                    m_state' = IF someone_controls THEN "Connected" ELSE "TakingControl"]_vars
    BY <1>1
<1>3. QED
    BY <1>2, ConnInvariance, PTL DEF Spec, WholeRequestServed

-----------------------------------------------------------------------------
(* The refinement                                                          *)

\* The session of this one client, the only one of its kind.
Alone == INSTANCE Sessions WITH
            Fds <- {1}, NbAllowedClients <- 1,
            session <- [fd \in {1} |-> IF m_state = "Uninitialized" THEN "None" ELSE m_state]

\* However TCP cuts what the peer sends, all that becomes of it are steps of a
\* session (Sessions.tla): nothing a peer can send gives it a session without the
\* step of logging in, or any other state.
THEOREM ConnectionIsASession == Spec => Alone!SessionSpec
PROOF
<1>. DEFINE one == IF m_state = "Uninitialized" THEN "None" ELSE m_state
            session == [fd \in {1} |-> one]
<1>1. Init => Alone!SessionInit
    BY DEF Init, Alone!SessionInit
<1>2. ASSUME ConnInv, [Next]_vars
      PROVE  [Alone!SessionNext]_session
    <2>1. m_state \in ClientStates
        BY <1>2 DEF ConnInv, TypeOK
    <2>2. session[1] = one /\ session' = [session EXCEPT ![1] = one']
        OBVIOUS
    <2>3. CASE Connect
        <3>1. one = "None" /\ one' = "Connected"
            BY <2>3 DEF Connect
        <3>2. Alone!Connect(1)
            BY <2>2, <3>1 DEF Alone!Connect, Alone!Becomes
        <3>3. QED
            BY <3>2 DEF Alone!SessionNext
    <2>4. CASE Delete
        <3>1. one \in Alone!SessionStates \ {"None"} /\ one' = "None"
            BY <2>1, <2>4 DEF Delete, ClientStates, Logged, Alone!SessionStates
        <3>2. Alone!Drop(1)
            BY <2>2, <3>1 DEF Alone!Drop, Alone!Becomes
        <3>3. QED
            BY <3>2 DEF Alone!SessionNext
    <2>5. CASE \E someone_controls \in BOOLEAN : Handle(someone_controls)
        <3>1. \/ m_state' = m_state
              \/ m_state = "Connected" /\ m_state' \in Logged
              \/ m_state \in Logged /\ m_state' = "Connected"
            BY <2>5 DEF Handle, StateAfter, Logged
        <3>2. CASE m_state' = m_state
            BY <3>2
        <3>3. CASE m_state = "Connected" /\ m_state' = "Authenticated"
            <4>1. Alone!LogIn(1)
                BY <2>2, <3>3 DEF Alone!LogIn, Alone!Becomes
            <4>2. QED
                BY <4>1 DEF Alone!SessionNext
        <3>4. CASE m_state = "Connected" /\ m_state' = "TakingControl"
            <4>1. Alone!TakeControl(1)
                BY <2>2, <3>4 DEF Alone!TakeControl, Alone!Becomes, Alone!NoOneControls
            <4>2. QED
                BY <4>1 DEF Alone!SessionNext
        <3>5. CASE m_state \in Logged /\ m_state' = "Connected"
            <4>1. one \in {"Authenticated", "TakingControl"} /\ one' = "Connected"
                BY <3>5 DEF Logged
            <4>2. Alone!LogOut(1)
                BY <2>2, <4>1 DEF Alone!LogOut, Alone!Becomes
            <4>3. QED
                BY <4>2 DEF Alone!SessionNext
        <3>6. QED
            BY <3>1, <3>2, <3>3, <3>4, <3>5 DEF Logged
    <2>6. CASE Send \/ Read \/ UNCHANGED vars
        BY <2>6 DEF Send, Read, vars
    <2>7. QED
        BY <1>2, <2>3, <2>4, <2>5, <2>6 DEF Next
<1>3. QED
    BY <1>1, <1>2, ConnInvariance, PTL DEF Spec, Alone!SessionSpec

=============================================================================
