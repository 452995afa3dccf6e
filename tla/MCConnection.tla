---------------------------- MODULE MCConnection ----------------------------
(* Values for the constants of Connection: a visitor's login that is       *)
(* shorter than a frame, and an administrator's that fills one.            *)
EXTENDS Connection

MCConnectionLogin == <<123, 97, 58, 98, 125>>       \* "{a:b}"
MCSudoLogin == <<123, 97, 58, 98, 98, 125>>         \* "{a:bb}"

\* What a peer makes of a request: a frame of full length, or no more of it
\* than there is data.
FrameOf(id, data) == SetData(SetHeader(Zeros, id, Len(data), 0), data)
Full(id, data) == [i \in 1 .. MaxFrameLen |-> FrameOf(id, data)[i - 1]]
Short(id, data) == SubSeq(Full(id, data), 1, FRAME_HEADER_LEN + Len(data))

MCPeerFrames ==
    {Full(Authentification, <<LogIn>> \o MCConnectionLogin),
     Full(Authentification, <<LogIn>> \o MCSudoLogin),
     Short(Authentification, <<LogIn>> \o MCConnectionLogin),
     Short(Authentification, <<LogOut>>),
     Full(Debug, <<LogIn>>)}

\* The last status frame, or what is left of it.
MCOutOfBounds == {[i \in Offsets |-> 2]}

=============================================================================
