-------------------------------- MODULE Camera --------------------------------
(***************************************************************************)
(* The pictures: CamPicture (application/cam/picture.h), which the timer   *)
(* of the camera fills and the main task empties, MainProgram::updateCam() *)
(* and Clients::sendUdpMsgToAll(), which sends one frame to all clients.   *)
(*                                                                         *)
(* The two tasks share the picture and m_state, a plain variable, without  *)
(* a mutex.  A step is one access to what they share.  The calls between   *)
(* the accesses (memcpy, sendto) keep the compiler from reordering them,   *)
(* and the processor does not reorder; m_processed_frames is accessed by   *)
(* the main task only.                                                     *)
(*                                                                         *)
(* Between two updateCam() the main task runs Wifi::update(), which        *)
(* changes the list of clients: by the steps of Sessions.tla, which        *)
(* Clients.tla implements, as long as it likes.                            *)
(***************************************************************************)
EXTENDS Sessions, Sequences, SequencesExt

CONSTANTS
    FrameDataSize,      \* FRAME_DATA_SIZE
    MaxPicLen,          \* MAX_PIC_LEN
    Lens,               \* the lengths of the pictures that the driver takes
    MaxPics             \* bound on the number of pictures since the last restart

\* MAX_FRAMES_NB
MaxFrames == (MaxPicLen \div FrameDataSize) % 256

\* The buffer of the driver holds 15360 bytes for a QVGA picture, which is
\* far less than 255 frames, and a JPEG picture is not empty.
ASSUME CameraAssumption ==
    /\ FrameDataSize \in Nat \ {0}
    /\ MaxPicLen \in Nat
    /\ MaxFrames > 0
    /\ Lens \subseteq 1 .. 255 * FrameDataSize
    /\ MaxPics \in Nat
    /\ NbAllowedClients \in Nat

VARIABLES
    m_state,            \* PictureState
    m_pic_frames,       \* the frames: header and data
    m_stored_frames,
    m_processed_frames,
    cam_pc,             \* where the timer is in CamPicture::update()
    pic,                \* its picture: how many there were before, and its length
    i,                  \* its loop variable
    main_pc,            \* where the main task is
    msg_len,            \* the length that getNextFrameBuff() has returned
    client_idx,         \* the position in the list of sendUdpMsgToAll()
    clients,            \* the descriptors of the clients, in the order of the list
    sent                \* the last message lwIP has accepted for each client

picVars == <<m_state, m_pic_frames, m_stored_frames, m_processed_frames>>
timerVars == <<cam_pc, pic, i>>
mainVars == <<main_pc, msg_len, client_idx>>
clientVars == <<session, clients, sent>>
camVars == <<picVars, timerVars, mainVars, clientVars>>

FrameIndices == 0 .. MaxFrames - 1
Frames == [pic : Nat, from : Nat, len : Nat, number : Nat]
EmptyFrame == [pic |-> 0, from |-> 0, len |-> 0, number |-> 0]

CamInit ==
    /\ SessionInit
    /\ m_state = "Unavailable"
    /\ m_pic_frames = [j \in FrameIndices |-> EmptyFrame]
    /\ m_stored_frames = 0
    /\ m_processed_frames = 0
    /\ cam_pc = "idle"
    /\ pic = [nb |-> 0, len |-> 0]
    /\ i = 0
    /\ main_pc = "idle"
    /\ msg_len = 0
    /\ client_idx = 1
    /\ clients = << >>
    /\ sent = << >>

-----------------------------------------------------------------------------
(* The timer: takePic100ms() and CamPicture::update()                      *)

TimerGoto(loc) == cam_pc' = loc /\ UNCHANGED <<m_processed_frames, mainVars, clientVars>>

\* Mutant: the state is not looked at.
TakePicAnyway ==
    /\ cam_pc = "idle"
    /\ pic.nb < MaxPics
    /\ \E len \in Lens : pic' = [nb |-> pic.nb + 1, len |-> len]
    /\ TimerGoto("count")
    /\ UNCHANGED <<m_state, m_pic_frames, m_stored_frames, i>>

\* A picture is taken, and there is nothing to send of the one before.
TakePic ==
    /\ cam_pc = "idle"
    /\ pic.nb < MaxPics
    /\ m_state \in {"Processed", "Unavailable"}
    /\ \E len \in Lens : pic' = [nb |-> pic.nb + 1, len |-> len]
    /\ TimerGoto("count")
    /\ UNCHANGED <<m_state, m_pic_frames, m_stored_frames, i>>

\* A picture, or none, while the one before is being sent: it is dropped.
DropPic ==
    /\ cam_pc = "idle"
    /\ m_state \notin {"Processed", "Unavailable"}
    /\ UNCHANGED camVars

\* Mutant: the rest of the division is left out.
FramesOfTruncated(len) == (len \div FrameDataSize) % 256

\* pic_frames_nb, a uint8_t.
FramesOf(len) ==
    LET nb == (len \div FrameDataSize) % 256
    IN  IF nb * FrameDataSize < len THEN (nb + 1) % 256 ELSE nb

StoreCount ==
    /\ cam_pc = "count"
    /\ m_stored_frames' = IF FramesOf(pic.len) < MaxFrames THEN FramesOf(pic.len) ELSE MaxFrames
    /\ i' = 0
    /\ TimerGoto(IF m_stored_frames' = 0 THEN "finish" ELSE "header")
    /\ UNCHANGED <<m_state, m_pic_frames, pic>>

\* remaining_bytes at the head of the loop.
Remaining == pic.len - i * FrameDataSize

StoreHeader ==
    /\ cam_pc = "header"
    /\ m_pic_frames' = [m_pic_frames EXCEPT
            ![i].len = IF Remaining < FrameDataSize THEN Remaining ELSE FrameDataSize,
            ![i].number = m_stored_frames - i - 1]
    /\ TimerGoto("data")
    /\ UNCHANGED <<m_state, m_stored_frames, pic, i>>

StoreData ==
    /\ cam_pc = "data"
    /\ m_pic_frames' = [m_pic_frames EXCEPT ![i].pic = pic.nb, ![i].from = pic.len - Remaining]
    /\ i' = i + 1
    /\ TimerGoto(IF i' = m_stored_frames THEN "finish" ELSE "header")
    /\ UNCHANGED <<m_state, m_stored_frames, pic>>

SetAvailable ==
    /\ cam_pc = "finish"
    /\ m_state' = "Available"
    /\ TimerGoto("idle")
    /\ UNCHANGED <<m_pic_frames, m_stored_frames, pic, i>>

\* The driver has no picture, and update() uses the NULL it returned
\* (picture.h:58): the processor restarts.
TakeNull ==
    /\ cam_pc = "idle"
    /\ m_state \in {"Processed", "Unavailable"}
    /\ session' = [fd \in Fds |-> "None"]
    /\ m_state' = "Unavailable"
    /\ m_pic_frames' = [j \in FrameIndices |-> EmptyFrame]
    /\ m_stored_frames' = 0 /\ m_processed_frames' = 0
    /\ cam_pc' = "idle" /\ pic' = [nb |-> 0, len |-> 0] /\ i' = 0
    /\ main_pc' = "idle" /\ msg_len' = 0 /\ client_idx' = 1
    /\ clients' = << >> /\ sent' = << >>

TimerTask == TakePic \/ DropPic \/ StoreCount \/ StoreHeader \/ StoreData \/ SetAvailable \/ TakeNull

-----------------------------------------------------------------------------
(* The main task: MainProgram::update()                                    *)

MainGoto(loc) == main_pc' = loc /\ UNCHANGED timerVars

\* updateCam(), isPicAvailable()
UpdateCam ==
    /\ main_pc = "idle"
    /\ MainGoto(IF m_state = "Available" THEN "next" ELSE "rest")
    /\ UNCHANGED <<picVars, msg_len, client_idx, clientVars>>

\* getNextFrameBuff(): the loop of updateCam() ends when there is no picture.
GetNextFrameBuff ==
    /\ main_pc = "next"
    /\ m_state = "Available"
    /\ msg_len' = m_pic_frames[m_processed_frames].len
    /\ client_idx' = 1
    /\ MainGoto("send")
    /\ UNCHANGED <<picVars, clientVars>>

NoNextFrame ==
    /\ main_pc = "next"
    /\ m_state # "Available"
    /\ MainGoto("rest")
    /\ UNCHANGED <<picVars, msg_len, client_idx, clientVars>>

\* What sendto() copies: the buffer as it is, in the length asked before.
Message == [m_pic_frames[m_processed_frames] EXCEPT !.len = msg_len]

\* sendUdpMsg() to a client that has logged in.  All descriptors are set
\* before there is a client (RunningServer.tla).
SendTo(fd) ==
    /\ main_pc = "send"
    /\ client_idx \in DOMAIN clients /\ clients[client_idx] = fd
    /\ session[fd] \in {"Authenticated", "TakingControl"}
    /\ sent' = [c \in DOMAIN sent \cup {fd} |-> IF c = fd THEN Message ELSE sent[c]]
    /\ client_idx' = client_idx + 1
    /\ MainGoto(IF client_idx = Len(clients) THEN "sent" ELSE "send")
    /\ UNCHANGED <<picVars, msg_len, session, clients>>

\* Mutants: the loop goes on after a client that fails; the picture starts again.
SendFailsGoingOn ==
    /\ main_pc = "send"
    /\ client_idx \in DOMAIN clients
    /\ client_idx' = client_idx + 1
    /\ MainGoto(IF client_idx = Len(clients) THEN "sent" ELSE "send")
    /\ UNCHANGED <<picVars, msg_len, clientVars>>

SendFailsStartingAgain ==
    /\ main_pc = "send"
    /\ m_processed_frames' = 0
    /\ MainGoto("rest")
    /\ UNCHANGED <<m_state, m_pic_frames, m_stored_frames, msg_len, client_idx, clientVars>>

\* There is no client, the next one has not logged in, or lwIP has no memory:
\* tryToSendUdpMsg() returns false, and updateCam() returns.
SendFails ==
    /\ main_pc = "send"
    /\ MainGoto("rest")
    /\ UNCHANGED <<picVars, msg_len, client_idx, clientVars>>

\* setCurrentFrameProcessed(), the check and the rest of it.
CheckProcessed ==
    /\ main_pc = "sent"
    /\ MainGoto(IF m_state = "Available" THEN "processed" ELSE "next")
    /\ UNCHANGED <<picVars, msg_len, client_idx, clientVars>>

\* Mutant: m_processed_frames is not set back.
SetCurrentFrameProcessedOnly ==
    /\ main_pc = "processed"
    /\ m_processed_frames' = m_processed_frames + 1
    /\ m_state' = IF m_processed_frames' = m_stored_frames THEN "Processed" ELSE m_state
    /\ MainGoto("next")
    /\ UNCHANGED <<m_pic_frames, m_stored_frames, msg_len, client_idx, clientVars>>

SetCurrentFrameProcessed ==
    LET last == m_processed_frames + 1 = m_stored_frames
    IN  /\ main_pc = "processed"
        /\ m_processed_frames' = IF last THEN 0 ELSE m_processed_frames + 1
        /\ m_state' = IF last THEN "Processed" ELSE m_state
        /\ MainGoto("next")
        /\ UNCHANGED <<m_pic_frames, m_stored_frames, msg_len, client_idx, clientVars>>

\* Wifi::update(): any number of clients come, go, log in and log out.
ChangeClients ==
    /\ main_pc = "rest"
    /\ \E fd \in Fds :
        \/ /\ Len(clients) < NbAllowedClients
           /\ Connect(fd)
           /\ clients' = Append(clients, fd)
           /\ UNCHANGED sent
        \/ /\ LogIn(fd) \/ TakeControl(fd) \/ LogOut(fd)
           /\ UNCHANGED <<clients, sent>>
        \/ /\ Drop(fd)
           /\ \E n \in DOMAIN clients : clients[n] = fd /\ clients' = RemoveAt(clients, n)
           /\ sent' = Restrict(sent, DOMAIN sent \ {fd})
    /\ UNCHANGED <<picVars, timerVars, mainVars>>

\* It returns, or returns an error, after which run() calls no update() any more.
EndUpdate ==
    /\ main_pc = "rest"
    /\ \E loc \in {"idle", "error"} : MainGoto(loc)
    /\ UNCHANGED <<picVars, msg_len, client_idx, clientVars>>

MainTask ==
    \/ UpdateCam \/ GetNextFrameBuff \/ NoNextFrame
    \/ \E fd \in Fds : SendTo(fd)
    \/ SendFails \/ CheckProcessed \/ SetCurrentFrameProcessed
    \/ ChangeClients \/ EndUpdate

CamNext == TimerTask \/ MainTask

CamSpec == CamInit /\ [][CamNext]_camVars

\* The main task is scheduled, and lwIP, asked again and again for the same
\* client, has memory some time: its send queue drains.
FairCamSpec ==
    /\ CamSpec
    /\ WF_camVars(MainTask)
    /\ \A fd \in Fds : SF_camVars(SendTo(fd))

-----------------------------------------------------------------------------
(* Properties                                                              *)

\* Every variable has a value of its kind; a frame index is one of the array.
CamTypeOK ==
    /\ SessionTypeOK
    /\ m_state \in {"Unavailable", "Available", "Processed"}
    /\ m_pic_frames \in [FrameIndices -> Frames]
    /\ m_stored_frames \in 0 .. MaxFrames
    /\ m_processed_frames \in FrameIndices
    /\ cam_pc \in {"idle", "count", "header", "data", "finish"}
    /\ pic \in [nb : 0 .. MaxPics, len : Lens \cup {0}]
    /\ i \in 0 .. MaxFrames
    /\ main_pc \in {"idle", "next", "send", "sent", "processed", "rest", "error"}
    /\ msg_len \in Nat
    /\ client_idx \in Nat
    /\ clients \in Seq(Fds)
    /\ DOMAIN sent \subseteq Fds
    /\ \A fd \in DOMAIN sent : sent[fd] \in Frames

\* While a picture can be sent, its frames are those of the last picture
\* alone, one after another from its first byte to its last, or to the last
\* that fits in; the number of each is what is still to come, and the length
\* that was asked for is that of the frame (picture.h:66-81, program.cpp:136).
PictureWhole ==
    m_state = "Available" =>
        /\ m_processed_frames < m_stored_frames
        /\ \A j \in 0 .. m_stored_frames - 1 :
            /\ m_pic_frames[j].pic = pic.nb
            /\ m_pic_frames[j].number = m_stored_frames - 1 - j
            /\ m_pic_frames[j].len > 0
            /\ m_pic_frames[j].from =
                    IF j = 0 THEN 0 ELSE m_pic_frames[j - 1].from + m_pic_frames[j - 1].len
        /\ LET last == m_pic_frames[m_stored_frames - 1]
               fits == MaxFrames * FrameDataSize
           IN  last.from + last.len = IF pic.len < fits THEN pic.len ELSE fits
        /\ main_pc = "send" => msg_len = m_pic_frames[m_processed_frames].len

\* The timer does not write while the main task sends, though nothing but
\* m_state keeps them apart (picture.h:56).
NotWrittenWhileSent ==
    /\ cam_pc # "idle" => m_state # "Available"
    /\ main_pc \in {"send", "sent", "processed"} => m_state = "Available" /\ cam_pc = "idle"

\* A frame is taken off only when every client in the list has been handed it
\* since it was last sent to no one: no client is passed over (program.cpp:138).
ProcessedWasSent ==
    [][m_processed_frames' # m_processed_frames \/ (m_state = "Available" /\ m_state' = "Processed")
        => /\ clients # << >>
           /\ \A fd \in ToSet(clients) :
                fd \in DOMAIN sent /\ sent[fd] = m_pic_frames[m_processed_frames]]_camVars

\* Camera implements PictureStream: whoever stays in the list gets every
\* message of every picture in order, though a frame may be sent several times
\* and the list changes between two attempts.
Stream == INSTANCE PictureStream WITH received <- sent

IsPictureStream == Stream!StreamSpec

\* If from some time on there are clients and all of them are logged in, no
\* picture is the last: each is sent some time, and room made for the next.
EveryPictureSent ==
    <>[](/\ clients # << >> /\ main_pc # "error"
         /\ \A fd \in ToSet(clients) : session[fd] \in {"Authenticated", "TakingControl"})
        => []<>(m_state # "Available")

=============================================================================
