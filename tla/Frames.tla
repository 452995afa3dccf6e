------------------------------- MODULE Frames -------------------------------
(***************************************************************************)
(* ServerFrame and AuthFrameData (application/network/server/frame.h) and  *)
(* Login, ServerLogin (login.h): the bytes of a frame, of the request that *)
(* a client logs in or out with, and the comparison with the logins that   *)
(* the server has been given.                                              *)
(*                                                                         *)
(* A buffer is a function from its offsets to bytes.  A login is what      *)
(* sprintf() made of it, without the '\0' behind it.                       *)
(***************************************************************************)
EXTENDS Integers, Sequences

CONSTANTS
    MaxFrameLen,        \* length of every buffer
    ConnectionLogin,    \* m_connection_login, the visitor's
    SudoLogin           \* m_sudo_login, the administrator's

Byte == 0 .. 255

FRAME_HEADER_LEN == 4

\* Offset of the first character of a login, behind the header and the request.
LoginOffset == FRAME_HEADER_LEN + 1

\* What AuthFrameData has room for, with the '\0'.
MAX_LOGIN_PASS_LEN == 126

\* A login of the server fits in a frame, and in an AuthFrameData: program.cpp:20
\* has the logins, and nothing else would keep check() from comparing with what
\* is behind a frame, or was never copied.
ASSUME FramesAssumption ==
    /\ MaxFrameLen \in Nat /\ LoginOffset < MaxFrameLen /\ MaxFrameLen < 65536
    /\ \A login \in {ConnectionLogin, SudoLogin} :
            /\ login \in Seq(Byte \ {0})
            /\ login # <<>>
            /\ Len(login) <= MaxFrameLen - LoginOffset
            /\ Len(login) < MAX_LOGIN_PASS_LEN

Offsets == 0 .. MaxFrameLen - 1
Buffers == [Offsets -> Byte]
Zeros == [i \in Offsets |-> 0]

\* ServerFrameId and AuthentificationRequest, as far as a client sends them.
Authentification == 1
Debug == 15
LogIn == 1
LogOut == 2

\* setHeader(), setLen(): the length in two bytes, the high one first.
SetHeader(frame, id, len, number) ==
    [frame EXCEPT ![0] = id, ![1] = (len \div 256) % 256, ![2] = len % 256, ![3] = number]

\* setData() copies as much as there is room for.
SetData(frame, data) ==
    [i \in Offsets |-> IF i >= FRAME_HEADER_LEN /\ i - FRAME_HEADER_LEN < Len(data)
                       THEN data[i - FRAME_HEADER_LEN + 1] ELSE frame[i]]

GetId(frame) == frame[0]
GetLen(frame) == (frame[1] * 256) + frame[2]
GetNumber(frame) == frame[3]

\* AuthFrameData(): the request is the first byte of the data.
AuthReq(frame) == frame[FRAME_HEADER_LEN]

\* Mutant: no more characters are compared than have been received.
CheckReceived(login, frame, nul_behind) ==
    \A i \in DOMAIN login : frame[LoginOffset + i - 1] \in {login[i], 0}

\* Login::check() of the characters that AuthFrameData() has copied, up to and
\* with their '\0'.  If the frame has no '\0', strlen() finds one behind it:
\* nul_behind says whether the first byte there is one.
Check(login, frame, nul_behind) ==
    LET end == LoginOffset + Len(login)
    IN  /\ \A i \in DOMAIN login : frame[LoginOffset + i - 1] = login[i]
        /\ IF end \in Offsets THEN frame[end] = 0 ELSE nul_behind

\* ServerLogin::check()
LoginResult(frame, nul_behind) ==
    CASE Check(SudoLogin, frame, nul_behind) -> "SuperClient"
      [] ~Check(SudoLogin, frame, nul_behind) /\ Check(ConnectionLogin, frame, nul_behind) -> "Client"
      [] OTHER -> "WrongLogin"

=============================================================================
