----------------------------- MODULE CameraProofs -----------------------------
(***************************************************************************)
(* Proofs about Camera, for every size of a frame, every length of the     *)
(* pictures and every set of clients.                                      *)
(***************************************************************************)
EXTENDS Camera, SequenceTheorems, TLAPS

-----------------------------------------------------------------------------
(* The inductive invariant                                                 *)

\* How many frames of the picture are kept.
Kept == IF FramesOf(pic.len) < MaxFrames THEN FramesOf(pic.len) ELSE MaxFrames

\* Frame j has its header, and its data.
HeaderStored(j) ==
    /\ m_pic_frames[j].len =
            IF pic.len - j * FrameDataSize < FrameDataSize THEN pic.len - j * FrameDataSize
            ELSE FrameDataSize
    /\ m_pic_frames[j].number = m_stored_frames - j - 1

DataStored(j) ==
    /\ m_pic_frames[j].pic = pic.nb
    /\ m_pic_frames[j].from = j * FrameDataSize

FramesStored(n) == \A j \in 0 .. n - 1 : HeaderStored(j) /\ DataStored(j)

\* What the timer has stored so far, and that all of it is there in the end.
WriteInv ==
    /\ pic.len = 0 => m_state = "Unavailable" /\ cam_pc = "idle"
    /\ cam_pc \in {"header", "data", "finish"} \/ m_state = "Available" => m_stored_frames = Kept
    /\ cam_pc \in {"header", "data"} => i < m_stored_frames /\ FramesStored(i)
    /\ cam_pc = "data" => HeaderStored(i)
    /\ cam_pc = "finish" \/ m_state = "Available" => FramesStored(m_stored_frames)

\* What the main task has sent of it.
Handed(k) ==
    clients[k] \in DOMAIN sent /\ sent[clients[k]] = m_pic_frames[m_processed_frames]

SendInv ==
    /\ IF m_state = "Available" THEN m_processed_frames < m_stored_frames ELSE m_processed_frames = 0
    /\ main_pc = "send" =>
            /\ msg_len = m_pic_frames[m_processed_frames].len
            /\ \A k \in DOMAIN clients : k < client_idx => Handed(k)
    /\ main_pc \in {"sent", "processed"} =>
            clients # << >> /\ \A k \in DOMAIN clients : Handed(k)

\* Where each client is in the stream.
StreamInv ==
    /\ DOMAIN sent \subseteq ToSet(clients)
    /\ \A fd \in DOMAIN sent :
        IF m_state = "Available"
        THEN \/ sent[fd] = m_pic_frames[m_processed_frames]
             \/ m_processed_frames > 0 /\ sent[fd] = m_pic_frames[m_processed_frames - 1]
             \/ m_processed_frames = 0 /\ sent[fd].number = 0 /\ sent[fd].pic < pic.nb
        ELSE /\ sent[fd].number = 0
             /\ sent[fd].pic < pic.nb \/ (sent[fd].pic = pic.nb /\ cam_pc = "idle")

CamInv == CamTypeOK /\ NotWrittenWhileSent /\ WriteInv /\ SendInv /\ StreamInv

-----------------------------------------------------------------------------
(* Frames and bytes                                                        *)

LEMMA Constants ==
    /\ FrameDataSize \in Nat \ {0}
    /\ MaxFrames \in 1 .. 255
    /\ \A len \in Lens : len \in Nat /\ 0 < len /\ len <= 255 * FrameDataSize
PROOF
<1>1. MaxPicLen \div FrameDataSize \in Nat
    BY CameraAssumption
<1>2. QED
    BY <1>1, CameraAssumption DEF MaxFrames

\* The frame after frame j begins where frame j, if it is full, ends.
LEMMA NextFrame ==
    ASSUME NEW j \in Nat
    PROVE  /\ j * FrameDataSize \in Nat
           /\ (j + 1) * FrameDataSize = j * FrameDataSize + FrameDataSize
PROOF
    BY Constants

LEMMA Before ==
    ASSUME NEW j \in Nat, NEW k \in Nat, j < k
    PROVE  j * FrameDataSize + FrameDataSize <= k * FrameDataSize
PROOF
<1>1. PICK d \in Nat : k = (j + 1) + d
    <2>1. k - (j + 1) \in Nat /\ k = (j + 1) + (k - (j + 1))
        OBVIOUS
    <2>2. QED
        BY <2>1
<1>2. k * FrameDataSize = (j + 1) * FrameDataSize + d * FrameDataSize
    BY <1>1, Constants
<1>3. d * FrameDataSize \in Nat
    BY Constants
<1>4. QED
    BY <1>2, <1>3, NextFrame, Constants

\* FramesOf() rounds up, and fits in its uint8_t.
LEMMA FramesOfLen ==
    ASSUME NEW len \in Lens
    PROVE  /\ FramesOf(len) \in 1 .. 255
           /\ len <= FramesOf(len) * FrameDataSize
           /\ (FramesOf(len) - 1) * FrameDataSize < len
PROOF
<1>. DEFINE q == len \div FrameDataSize
<1>1. q \in Nat /\ q * FrameDataSize <= len /\ len < q * FrameDataSize + FrameDataSize
    BY Constants
<1>2. q <= 255
    <2>1. SUFFICES ASSUME 255 < q PROVE FALSE
        BY <1>1
    <2>2. 255 * FrameDataSize + FrameDataSize <= q * FrameDataSize
        BY <1>1, <2>1, Before
    <2>3. QED
        BY <1>1, <2>2, Constants
<1>3. q % 256 = q
    BY <1>1, <1>2
<1>. HIDE DEF q
<1>4. CASE q * FrameDataSize < len
    <2>1. q # 255
        BY <1>4, Constants
    <2>2. FramesOf(len) = q + 1
        BY <1>1, <1>2, <1>3, <1>4, <2>1 DEF FramesOf, q
    <2>3. (q + 1) * FrameDataSize = q * FrameDataSize + FrameDataSize
        BY <1>1, NextFrame
    <2>4. QED
        BY <1>1, <1>2, <1>4, <2>1, <2>2, <2>3, Constants
<1>5. CASE q * FrameDataSize = len
    <2>1. FramesOf(len) = q
        BY <1>3, <1>5, Constants DEF FramesOf, q
    <2>2. q # 0
        BY <1>5, Constants
    <2>3. q - 1 \in Nat /\ (q - 1) + 1 = q
        BY <1>1, <2>2
    <2>4. q * FrameDataSize = (q - 1) * FrameDataSize + FrameDataSize
        BY <2>3, NextFrame
    <2>5. (q - 1) * FrameDataSize \in Nat
        BY <2>3, NextFrame
    <2>6. QED
        BY <1>1, <1>2, <1>5, <2>1, <2>2, <2>4, <2>5, Constants
<1>6. QED
    BY <1>1, <1>4, <1>5, Constants

\* Every kept frame has bytes of the picture, and only the last one of the
\* picture is not full.
LEMMA KeptFrames ==
    ASSUME pic.len \in Lens, m_stored_frames = Kept
    PROVE  /\ m_stored_frames \in 1 .. MaxFrames
           /\ \A j \in 0 .. m_stored_frames - 1 : j * FrameDataSize < pic.len
           /\ \A j \in 0 .. m_stored_frames - 2 : (j + 1) * FrameDataSize < pic.len
           /\ m_stored_frames < MaxFrames => pic.len <= m_stored_frames * FrameDataSize
PROOF
<1>. DEFINE n == FramesOf(pic.len)
<1>1. n \in 1 .. 255 /\ pic.len <= n * FrameDataSize /\ (n - 1) * FrameDataSize < pic.len
    BY FramesOfLen
<1>2. m_stored_frames = IF n < MaxFrames THEN n ELSE MaxFrames
    BY DEF Kept
<1>. HIDE DEF n
<1>3. m_stored_frames \in 1 .. MaxFrames /\ m_stored_frames <= n
    BY <1>1, <1>2, Constants
<1>4. pic.len \in Nat
    BY Constants
<1>5. ASSUME NEW j \in 0 .. n - 1
      PROVE  j * FrameDataSize < pic.len
    <2>1. CASE j = n - 1
        BY <1>1, <2>1
    <2>2. CASE j < n - 1
        <3>1. j \in Nat /\ n - 1 \in Nat
            BY <1>1, <1>5
        <3>2. j * FrameDataSize + FrameDataSize <= (n - 1) * FrameDataSize
            BY <3>1, <2>2, Before
        <3>3. j * FrameDataSize \in Nat /\ (n - 1) * FrameDataSize \in Nat
            BY <3>1, NextFrame
        <3>4. QED
            BY <1>1, <1>4, <3>2, <3>3, Constants
    <2>3. QED
        BY <2>1, <2>2, <1>1, <1>5
<1>6. \A j \in 0 .. m_stored_frames - 1 : j \in 0 .. n - 1
    BY <1>1, <1>3, Constants
<1>7. \A j \in 0 .. m_stored_frames - 2 : j + 1 \in 0 .. n - 1
    BY <1>1, <1>3, Constants
<1>8. QED
    BY <1>1, <1>2, <1>3, <1>5, <1>6, <1>7, Constants

-----------------------------------------------------------------------------
(* What follows from the invariant                                         *)

LEMMA PictureWholeFollows ==
    ASSUME CamInv
    PROVE  PictureWhole
PROOF
<1>1. SUFFICES ASSUME m_state = "Available" PROVE PictureWhole
    BY DEF PictureWhole
<1>2. /\ pic.len \in Lens /\ pic.len \in Nat /\ m_stored_frames = Kept
      /\ FramesStored(m_stored_frames)
      /\ m_processed_frames < m_stored_frames
      /\ main_pc = "send" => msg_len = m_pic_frames[m_processed_frames].len
    BY <1>1, Constants DEF CamInv, CamTypeOK, WriteInv, SendInv
<1>3. /\ m_stored_frames \in 1 .. MaxFrames
      /\ \A j \in 0 .. m_stored_frames - 1 : j * FrameDataSize < pic.len
      /\ \A j \in 0 .. m_stored_frames - 2 : (j + 1) * FrameDataSize < pic.len
      /\ m_stored_frames < MaxFrames => pic.len <= m_stored_frames * FrameDataSize
    BY <1>2, KeptFrames
<1>4. ASSUME NEW j \in 0 .. m_stored_frames - 1
      PROVE  /\ HeaderStored(j) /\ DataStored(j)
             /\ j \in Nat /\ j * FrameDataSize \in Nat /\ j * FrameDataSize < pic.len
             /\ (j + 1) * FrameDataSize = j * FrameDataSize + FrameDataSize
    BY <1>2, <1>3, NextFrame DEF FramesStored
<1>5. ASSUME NEW j \in 0 .. m_stored_frames - 1
      PROVE  /\ m_pic_frames[j].pic = pic.nb
             /\ m_pic_frames[j].number = m_stored_frames - 1 - j
             /\ m_pic_frames[j].len > 0
    BY <1>2, <1>3, <1>4, Constants DEF HeaderStored, DataStored
<1>6. ASSUME NEW j \in 0 .. m_stored_frames - 1
      PROVE  m_pic_frames[j].from =
                    IF j = 0 THEN 0 ELSE m_pic_frames[j - 1].from + m_pic_frames[j - 1].len
    <2>1. CASE j = 0
        <3>1. 0 * FrameDataSize = 0
            BY Constants
        <3>2. m_pic_frames[j].from = j * FrameDataSize
            BY <1>4 DEF DataStored
        <3>3. QED
            BY <2>1, <3>1, <3>2
    <2>2. CASE j # 0
        <3>. DEFINE k == j - 1
        <3>1. k \in 0 .. m_stored_frames - 1 /\ k \in 0 .. m_stored_frames - 2 /\ j = k + 1
            BY <1>3, <2>2, Constants
        <3>. HIDE DEF k
        <3>2. m_pic_frames[k].from = k * FrameDataSize
            BY <1>4, <3>1 DEF DataStored
        <3>3. k * FrameDataSize + FrameDataSize < pic.len /\ k * FrameDataSize \in Nat
            BY <1>3, <1>4, <3>1
        <3>4. m_pic_frames[k].len = FrameDataSize
            <4>1. ~(pic.len - k * FrameDataSize < FrameDataSize)
                BY <1>2, <3>3, Constants
            <4>2. QED
                BY <1>4, <3>1, <4>1 DEF HeaderStored
        <3>5. m_pic_frames[j].from = k * FrameDataSize + FrameDataSize
            BY <1>4, <3>1 DEF DataStored
        <3>6. QED
            BY <2>2, <3>2, <3>4, <3>5 DEF k
    <2>3. QED
        BY <2>1, <2>2
<1>7. LET last == m_pic_frames[m_stored_frames - 1]
          fits == MaxFrames * FrameDataSize
      IN  last.from + last.len = IF pic.len < fits THEN pic.len ELSE fits
    <2>. DEFINE k == m_stored_frames - 1
                fits == MaxFrames * FrameDataSize
    <2>1. k \in 0 .. m_stored_frames - 1 /\ m_stored_frames = k + 1
        BY <1>3, Constants
    <2>2. fits \in Nat
        BY Constants
    <2>. HIDE DEF k, fits
    <2>3. /\ m_pic_frames[k].from = k * FrameDataSize /\ k * FrameDataSize \in Nat
          /\ k * FrameDataSize < pic.len
          /\ m_pic_frames[k].len = IF pic.len - k * FrameDataSize < FrameDataSize
                                  THEN pic.len - k * FrameDataSize ELSE FrameDataSize
        BY <1>4, <2>1 DEF HeaderStored, DataStored
    <2>4. m_stored_frames * FrameDataSize = k * FrameDataSize + FrameDataSize
        BY <1>4, <2>1
    <2>5. CASE m_stored_frames = MaxFrames
        BY <1>2, <2>2, <2>3, <2>4, <2>5, Constants DEF fits, k
    <2>6. CASE m_stored_frames < MaxFrames
        <3>1. m_stored_frames * FrameDataSize + FrameDataSize <= fits
            BY <1>3, <2>6, Before, Constants DEF fits
        <3>2. pic.len <= m_stored_frames * FrameDataSize
            BY <1>3, <2>6
        <3>3. m_pic_frames[k].from + m_pic_frames[k].len = pic.len
            BY <1>2, <2>3, <2>4, <3>2, Constants
        <3>4. pic.len < fits
            BY <1>2, <2>2, <2>3, <2>4, <3>1, <3>2, Constants
        <3>5. QED
            BY <3>3, <3>4 DEF fits, k
    <2>7. QED
        BY <1>3, <2>5, <2>6, Constants
<1>8. QED
    BY <1>2, <1>5, <1>6, <1>7 DEF PictureWhole

-----------------------------------------------------------------------------
(* Initial states, and the restart                                         *)

LEMMA CamInitEstablishes ==
    ASSUME CamInit
    PROVE  CamInv
PROOF
<1>1. CamTypeOK
    <2>1. EmptyFrame \in Frames /\ 0 \in 0 .. MaxFrames /\ 0 \in FrameIndices
        BY Constants DEF EmptyFrame, Frames, FrameIndices
    <2>2. DOMAIN sent = {}
        BY DEF CamInit
    <2>3. QED
        BY <2>1, <2>2, CameraAssumption
        DEF CamInit, CamTypeOK, SessionInit, SessionTypeOK, SessionStates
<1>2. DOMAIN sent = {}
    BY DEF CamInit
<1>3. QED
    BY <1>1, <1>2 DEF CamInit, CamInv, NotWrittenWhileSent, WriteInv, SendInv, StreamInv

LEMMA TakeNullPreserves ==
    ASSUME CamInv, TakeNull
    PROVE  CamInv'
PROOF
<1>1. CamTypeOK'
    <2>1. EmptyFrame \in Frames /\ 0 \in 0 .. MaxFrames /\ 0 \in FrameIndices
        BY Constants DEF EmptyFrame, Frames, FrameIndices
    <2>2. DOMAIN sent' = {}
        BY DEF TakeNull
    <2>3. QED
        BY <2>1, <2>2, CameraAssumption DEF TakeNull, CamTypeOK, SessionTypeOK, SessionStates
<1>2. DOMAIN sent' = {}
    BY DEF TakeNull
<1>3. QED
    BY <1>1, <1>2 DEF TakeNull, CamInv, NotWrittenWhileSent, WriteInv, SendInv, StreamInv

-----------------------------------------------------------------------------
(* The timer                                                               *)

LEMMA TakePicPreserves ==
    ASSUME CamInv, TakePic
    PROVE  CamInv'
PROOF
<1>. USE DEF TakePic, TimerGoto, mainVars, clientVars
<1>1. PICK len \in Lens : pic' = [nb |-> pic.nb + 1, len |-> len]
    OBVIOUS
<1>2. CamTypeOK'
    BY <1>1, CameraAssumption DEF CamInv, CamTypeOK, SessionTypeOK
<1>3. NotWrittenWhileSent'
    BY DEF CamInv, NotWrittenWhileSent
<1>4. WriteInv'
    BY <1>1, Constants DEF CamInv, WriteInv
<1>5. SendInv'
    BY DEF CamInv, SendInv, NotWrittenWhileSent
<1>6. StreamInv'
    <2>1. ASSUME NEW fd \in DOMAIN sent PROVE sent[fd].pic \in Nat /\ pic.nb \in Nat
        BY <2>1 DEF CamInv, CamTypeOK, Frames
    <2>2. QED
        BY <1>1, <2>1 DEF CamInv, StreamInv
<1>7. QED
    BY <1>2, <1>3, <1>4, <1>5, <1>6 DEF CamInv

LEMMA StoreCountPreserves ==
    ASSUME CamInv, StoreCount
    PROVE  CamInv'
PROOF
<1>. USE DEF StoreCount, TimerGoto, mainVars, clientVars
<1>1. m_state # "Available" /\ pic.len \in Lens
    BY DEF CamInv, CamTypeOK, NotWrittenWhileSent, WriteInv
<1>2. m_stored_frames' = Kept /\ Kept' = Kept
    BY DEF Kept, FramesOf
<1>3. m_stored_frames' \in 1 .. MaxFrames
    BY <1>1, <1>2, FramesOfLen, Constants DEF Kept
<1>4. CamTypeOK'
    BY <1>3, Constants DEF CamInv, CamTypeOK, SessionTypeOK
<1>5. NotWrittenWhileSent'
    BY <1>1 DEF CamInv, NotWrittenWhileSent
<1>6. WriteInv'
    BY <1>1, <1>2, <1>3, Constants DEF CamInv, WriteInv, FramesStored
<1>7. SendInv'
    BY <1>1 DEF CamInv, SendInv, NotWrittenWhileSent
<1>8. StreamInv'
    BY <1>1 DEF CamInv, StreamInv
<1>9. QED
    BY <1>4, <1>5, <1>6, <1>7, <1>8 DEF CamInv

\* A loop variable below m_stored_frames is an index of the array.
LEMMA StoringIndex ==
    ASSUME CamTypeOK, i < m_stored_frames
    PROVE  /\ i \in Nat /\ i \in 0 .. m_stored_frames - 1 /\ i \in FrameIndices
           /\ m_stored_frames \in 0 .. MaxFrames /\ i + 1 \in 0 .. MaxFrames
PROOF
<1>1. i \in 0 .. MaxFrames /\ m_stored_frames \in 0 .. MaxFrames
    BY DEF CamTypeOK
<1>2. QED
    BY <1>1, Constants DEF FrameIndices

LEMMA StoreHeaderPreserves ==
    ASSUME CamInv, StoreHeader
    PROVE  CamInv'
PROOF
<1>. USE DEF StoreHeader, TimerGoto, mainVars, clientVars
<1>1. /\ m_state # "Available" /\ pic.len \in Lens /\ pic.len \in Nat
      /\ m_stored_frames = Kept /\ i < m_stored_frames /\ FramesStored(i)
    BY Constants DEF CamInv, CamTypeOK, NotWrittenWhileSent, WriteInv
<1>2. i \in Nat /\ i \in 0 .. m_stored_frames - 1 /\ m_stored_frames \in 0 .. MaxFrames
      /\ i \in FrameIndices
    BY <1>1, StoringIndex DEF CamInv
<1>3. i * FrameDataSize < pic.len /\ i * FrameDataSize \in Nat
    BY <1>1, <1>2, KeptFrames, NextFrame
<1>4. m_pic_frames \in [FrameIndices -> Frames]
    BY DEF CamInv, CamTypeOK
<1>5. /\ m_pic_frames'[i].len = IF Remaining < FrameDataSize THEN Remaining ELSE FrameDataSize
      /\ m_pic_frames'[i].number = m_stored_frames - i - 1
      /\ m_pic_frames'[i].pic = m_pic_frames[i].pic
      /\ m_pic_frames'[i].from = m_pic_frames[i].from
      /\ \A j \in FrameIndices : j # i => m_pic_frames'[j] = m_pic_frames[j]
    BY <1>2, <1>4 DEF Frames
<1>6. m_pic_frames' \in [FrameIndices -> Frames]
    <2>1. Remaining \in Nat
        BY <1>1, <1>3 DEF Remaining
    <2>2. (IF Remaining < FrameDataSize THEN Remaining ELSE FrameDataSize) \in Nat
        BY <2>1, Constants
    <2>3. m_stored_frames - i - 1 \in Nat
        BY <1>2, Constants
    <2>4. QED
        BY <1>2, <1>4, <2>2, <2>3 DEF Frames
<1>7. CamTypeOK'
    BY <1>6 DEF CamInv, CamTypeOK, SessionTypeOK
<1>8. NotWrittenWhileSent'
    BY <1>1 DEF CamInv, NotWrittenWhileSent
<1>9. WriteInv'
    <2>1. HeaderStored(i)'
        BY <1>5 DEF HeaderStored, Remaining
    <2>2. ASSUME NEW j \in 0 .. i - 1
          PROVE  HeaderStored(j)' /\ DataStored(j)'
        <3>1. j \in FrameIndices /\ j # i
            BY <1>2, <2>2, Constants DEF FrameIndices
        <3>2. QED
            BY <1>1, <1>5, <3>1 DEF FramesStored, HeaderStored, DataStored
    <2>3. FramesStored(i)'
        BY <2>2 DEF FramesStored
    <2>4. QED
        BY <1>1, <2>1, <2>3, Constants DEF CamInv, WriteInv, Kept, FramesOf
<1>10. SendInv'
    BY <1>1 DEF CamInv, SendInv, NotWrittenWhileSent
<1>11. StreamInv'
    BY <1>1 DEF CamInv, StreamInv
<1>12. QED
    BY <1>7, <1>8, <1>9, <1>10, <1>11 DEF CamInv

LEMMA StoreDataPreserves ==
    ASSUME CamInv, StoreData
    PROVE  CamInv'
PROOF
<1>. USE DEF StoreData, TimerGoto, mainVars, clientVars
<1>1. /\ m_state # "Available" /\ pic.len \in Lens /\ pic.len \in Nat
      /\ m_stored_frames = Kept /\ i < m_stored_frames /\ FramesStored(i) /\ HeaderStored(i)
    BY Constants DEF CamInv, CamTypeOK, NotWrittenWhileSent, WriteInv
<1>2. i \in Nat /\ i \in 0 .. m_stored_frames - 1 /\ m_stored_frames \in 0 .. MaxFrames
      /\ i \in FrameIndices /\ i + 1 \in 0 .. MaxFrames
    BY <1>1, StoringIndex DEF CamInv
<1>3. i * FrameDataSize \in Nat /\ pic.len - Remaining = i * FrameDataSize
    BY <1>1, <1>2, NextFrame DEF Remaining
<1>4. m_pic_frames \in [FrameIndices -> Frames] /\ pic.nb \in Nat
    BY DEF CamInv, CamTypeOK
<1>5. /\ m_pic_frames'[i].pic = pic.nb
      /\ m_pic_frames'[i].from = i * FrameDataSize
      /\ m_pic_frames'[i].len = m_pic_frames[i].len
      /\ m_pic_frames'[i].number = m_pic_frames[i].number
      /\ \A j \in FrameIndices : j # i => m_pic_frames'[j] = m_pic_frames[j]
    BY <1>2, <1>3, <1>4 DEF Frames
<1>6. m_pic_frames' \in [FrameIndices -> Frames]
    BY <1>2, <1>3, <1>4 DEF Frames
<1>7. CamTypeOK'
    BY <1>2, <1>6 DEF CamInv, CamTypeOK, SessionTypeOK
<1>8. NotWrittenWhileSent'
    BY <1>1 DEF CamInv, NotWrittenWhileSent
<1>9. WriteInv'
    <2>1. ASSUME NEW j \in 0 .. i
          PROVE  HeaderStored(j)' /\ DataStored(j)'
        <3>1. CASE j = i
            BY <1>1, <1>5, <3>1 DEF HeaderStored, DataStored
        <3>2. CASE j # i
            <4>1. j \in FrameIndices /\ j \in 0 .. i - 1
                BY <1>2, <2>1, <3>2, Constants DEF FrameIndices
            <4>2. QED
                BY <1>1, <1>5, <4>1, <3>2 DEF FramesStored, HeaderStored, DataStored
        <3>3. QED
            BY <3>1, <3>2
    <2>2. i' = i + 1 /\ \A j \in 0 .. i' - 1 : j \in 0 .. i
        BY <1>2
    <2>3. FramesStored(i)'
        BY <2>1, <2>2 DEF FramesStored
    <2>4. m_stored_frames' = Kept'
        BY <1>1 DEF Kept, FramesOf
    <2>5. i' = m_stored_frames \/ i' < m_stored_frames
        BY <1>2
    <2>6. i' = m_stored_frames => FramesStored(m_stored_frames)'
        BY <2>3
    <2>7. QED
        BY <1>1, <2>3, <2>4, <2>5, <2>6, Constants DEF CamInv, WriteInv
<1>10. SendInv'
    BY <1>1 DEF CamInv, SendInv, NotWrittenWhileSent
<1>11. StreamInv'
    BY <1>1 DEF CamInv, StreamInv
<1>12. QED
    BY <1>7, <1>8, <1>9, <1>10, <1>11 DEF CamInv

LEMMA SetAvailablePreserves ==
    ASSUME CamInv, SetAvailable
    PROVE  CamInv'
PROOF
<1>. USE DEF SetAvailable, TimerGoto, mainVars, clientVars
<1>1. m_state # "Available" /\ pic.len \in Lens /\ m_stored_frames = Kept
      /\ FramesStored(m_stored_frames) /\ m_processed_frames = 0
    BY DEF CamInv, CamTypeOK, NotWrittenWhileSent, WriteInv, SendInv
<1>2. CamTypeOK'
    BY DEF CamInv, CamTypeOK, SessionTypeOK
<1>3. NotWrittenWhileSent'
    BY <1>1 DEF CamInv, NotWrittenWhileSent
<1>4. WriteInv'
    BY <1>1, Constants
    DEF CamInv, WriteInv, Kept, FramesOf, FramesStored, HeaderStored, DataStored
<1>5. SendInv'
    <2>1. 0 < m_stored_frames
        BY <1>1, KeptFrames, Constants
    <2>2. QED
        BY <1>1, <2>1 DEF CamInv, SendInv, NotWrittenWhileSent
<1>6. StreamInv'
    BY <1>1 DEF CamInv, StreamInv
<1>7. QED
    BY <1>2, <1>3, <1>4, <1>5, <1>6 DEF CamInv

-----------------------------------------------------------------------------
(* The main task                                                           *)

\* Steps that only move on: to a place where nothing is being sent, or with
\* all clients served to the next place where that is so.
LEMMA MovingOnPreserves ==
    ASSUME CamInv, UNCHANGED <<picVars, timerVars, msg_len, client_idx, clientVars>>,
           \/ main_pc' \in {"idle", "next", "rest", "error"}
           \/ main_pc = "sent" /\ main_pc' = "processed"
    PROVE  CamInv'
PROOF
<1>. USE DEF picVars, timerVars, clientVars
<1>1. CamTypeOK'
    BY DEF CamInv, CamTypeOK, SessionTypeOK
<1>2. NotWrittenWhileSent'
    BY DEF CamInv, NotWrittenWhileSent
<1>3. WriteInv'
    BY DEF CamInv, WriteInv, Kept, FramesOf, FramesStored, HeaderStored, DataStored
<1>4. SendInv'
    BY DEF CamInv, SendInv, Handed
<1>5. StreamInv'
    BY DEF CamInv, StreamInv
<1>6. QED
    BY <1>1, <1>2, <1>3, <1>4, <1>5 DEF CamInv

LEMMA GetNextFrameBuffPreserves ==
    ASSUME CamInv, GetNextFrameBuff
    PROVE  CamInv'
PROOF
<1>. USE DEF GetNextFrameBuff, MainGoto, picVars, timerVars, clientVars
<1>1. m_state = "Available" /\ cam_pc = "idle"
    BY DEF CamInv, NotWrittenWhileSent, CamTypeOK
<1>2. CamTypeOK'
    <2>1. m_pic_frames[m_processed_frames] \in Frames
        BY DEF CamInv, CamTypeOK
    <2>2. QED
        BY <2>1 DEF CamInv, CamTypeOK, SessionTypeOK, Frames
<1>3. NotWrittenWhileSent'
    BY <1>1 DEF CamInv, NotWrittenWhileSent
<1>4. WriteInv'
    BY DEF CamInv, WriteInv, Kept, FramesOf, FramesStored, HeaderStored, DataStored
<1>5. SendInv'
    <2>1. \A k \in DOMAIN clients : ~(k < 1)
        BY DEF CamInv, CamTypeOK
    <2>2. QED
        BY <2>1 DEF CamInv, SendInv, Handed
<1>6. StreamInv'
    BY DEF CamInv, StreamInv
<1>7. QED
    BY <1>2, <1>3, <1>4, <1>5, <1>6 DEF CamInv

\* What is handed to lwIP is the frame.
LEMMA MessageIsFrame ==
    ASSUME CamInv, main_pc = "send"
    PROVE  /\ m_state = "Available" /\ cam_pc = "idle"
           /\ m_pic_frames[m_processed_frames] \in Frames
           /\ Message = m_pic_frames[m_processed_frames]
PROOF
<1>1. m_state = "Available" /\ cam_pc = "idle"
    BY DEF CamInv, NotWrittenWhileSent
<1>2. m_pic_frames[m_processed_frames] \in Frames
    BY DEF CamInv, CamTypeOK
<1>3. msg_len = m_pic_frames[m_processed_frames].len
    BY DEF CamInv, SendInv
<1>4. QED
    BY <1>1, <1>2, <1>3 DEF Message, Frames

LEMMA SendToPreserves ==
    ASSUME CamInv, NEW fd \in Fds, SendTo(fd)
    PROVE  CamInv'
PROOF
<1>. USE DEF SendTo, MainGoto, picVars, timerVars
<1>1. /\ m_state = "Available" /\ cam_pc = "idle"
      /\ m_pic_frames[m_processed_frames] \in Frames
      /\ Message = m_pic_frames[m_processed_frames]
    BY MessageIsFrame
<1>2. /\ DOMAIN sent' = DOMAIN sent \cup {fd}
      /\ sent'[fd] = m_pic_frames[m_processed_frames]
      /\ \A c \in DOMAIN sent : c # fd => sent'[c] = sent[c]
    BY <1>1
<1>. HIDE DEF Message
<1>3. client_idx \in Nat /\ client_idx \in 1 .. Len(clients) /\ clients \in Seq(Fds)
      /\ DOMAIN clients = 1 .. Len(clients) /\ clients' = clients
    BY DEF CamInv, CamTypeOK
<1>4. CamTypeOK'
    <2>1. DOMAIN sent' \subseteq Fds /\ \A c \in DOMAIN sent' : sent'[c] \in Frames
        BY <1>1, <1>2 DEF CamInv, CamTypeOK
    <2>2. client_idx' \in Nat /\ main_pc' \in {"send", "sent"}
        BY <1>3
    <2>3. UNCHANGED <<picVars, timerVars, msg_len, session, clients>>
        OBVIOUS
    <2>. HIDE DEF SendTo
    <2>4. QED
        BY <2>1, <2>2, <2>3 DEF CamInv, CamTypeOK, SessionTypeOK
<1>5. NotWrittenWhileSent'
    BY <1>1 DEF CamInv, NotWrittenWhileSent
<1>6. WriteInv'
    BY DEF CamInv, WriteInv, Kept, FramesOf, FramesStored, HeaderStored, DataStored
<1>7. SendInv'
    <2>1. ASSUME NEW k \in DOMAIN clients, k < client_idx + 1
          PROVE  Handed(k)'
        <3>1. CASE clients[k] = fd
            BY <1>2, <1>3, <3>1 DEF Handed
        <3>2. CASE clients[k] # fd
            <4>1. k < client_idx
                BY <1>3, <2>1, <3>2
            <4>2. Handed(k)
                BY <4>1 DEF CamInv, SendInv
            <4>3. QED
                BY <1>2, <1>3, <3>2, <4>2 DEF Handed
        <3>3. QED
            BY <3>1, <3>2
    <2>2. client_idx = Len(clients) => \A k \in DOMAIN clients : k < client_idx + 1
        BY <1>3
    <2>3. clients # << >>
        BY <1>3
    <2>4. QED
        BY <1>1, <1>3, <2>1, <2>2, <2>3 DEF CamInv, SendInv
<1>8. StreamInv'
    <2>1. fd \in ToSet(clients)
        BY <1>3 DEF ToSet
    <2>2. QED
        BY <1>1, <1>2, <1>3, <2>1 DEF CamInv, StreamInv
<1>9. QED
    BY <1>4, <1>5, <1>6, <1>7, <1>8 DEF CamInv

\* When a frame is taken off, everyone in the stream has it.
LEMMA AllHaveFrame ==
    ASSUME CamInv, main_pc = "processed"
    PROVE  /\ m_state = "Available" /\ cam_pc = "idle" /\ clients # << >>
           /\ \A fd \in ToSet(clients) :
                fd \in DOMAIN sent /\ sent[fd] = m_pic_frames[m_processed_frames]
           /\ DOMAIN sent \subseteq ToSet(clients)
PROOF
    BY DEF CamInv, NotWrittenWhileSent, SendInv, StreamInv, Handed, ToSet

LEMMA SetCurrentFrameProcessedPreserves ==
    ASSUME CamInv, SetCurrentFrameProcessed
    PROVE  CamInv'
PROOF
<1>. USE DEF SetCurrentFrameProcessed, MainGoto, timerVars, clientVars
<1>1. /\ m_state = "Available" /\ cam_pc = "idle"
      /\ \A fd \in DOMAIN sent : sent[fd] = m_pic_frames[m_processed_frames]
    BY AllHaveFrame
<1>2. /\ m_stored_frames \in 0 .. MaxFrames /\ m_processed_frames \in FrameIndices
      /\ m_processed_frames < m_stored_frames
    BY <1>1 DEF CamInv, CamTypeOK, SendInv
<1>3. m_processed_frames \in Nat /\ m_processed_frames \in 0 .. m_stored_frames - 1
      /\ 0 \in FrameIndices
    BY <1>2, Constants DEF FrameIndices
<1>4. m_processed_frames + 1 # m_stored_frames =>
            /\ m_processed_frames + 1 \in FrameIndices
            /\ m_processed_frames + 1 < m_stored_frames
    BY <1>2, <1>3, Constants DEF FrameIndices
<1>5. CamTypeOK'
    BY <1>3, <1>4 DEF CamInv, CamTypeOK, SessionTypeOK
<1>6. NotWrittenWhileSent'
    BY <1>1 DEF CamInv, NotWrittenWhileSent
<1>7. WriteInv'
    BY <1>1 DEF CamInv, WriteInv, Kept, FramesOf, FramesStored, HeaderStored, DataStored
<1>8. SendInv'
    BY <1>1, <1>4 DEF CamInv, SendInv
<1>9. StreamInv'
    <2>1. DOMAIN sent' \subseteq ToSet(clients')
        BY DEF CamInv, StreamInv
    <2>2. CASE m_processed_frames + 1 = m_stored_frames
        <3>1. HeaderStored(m_processed_frames) /\ DataStored(m_processed_frames)
            BY <1>1, <1>3 DEF CamInv, WriteInv, FramesStored
        <3>2. m_stored_frames - m_processed_frames - 1 = 0
            BY <1>3, <2>2
        <3>3. /\ m_pic_frames[m_processed_frames].number = 0
              /\ m_pic_frames[m_processed_frames].pic = pic.nb
            BY <3>1, <3>2 DEF HeaderStored, DataStored
        <3>4. QED
            BY <1>1, <2>1, <2>2, <3>3 DEF StreamInv
    <2>3. CASE m_processed_frames + 1 # m_stored_frames
        <3>1. m_processed_frames' > 0 /\ m_processed_frames' - 1 = m_processed_frames
            BY <1>3, <2>3
        <3>2. QED
            BY <1>1, <2>1, <2>3, <3>1 DEF StreamInv
    <2>4. QED
        BY <2>2, <2>3
<1>10. QED
    BY <1>5, <1>6, <1>7, <1>8, <1>9 DEF CamInv

\* A client taken out of the list: the others stay.
LEMMA RemovedAt ==
    ASSUME NEW s \in Seq(Fds), NEW n \in DOMAIN s
    PROVE  RemoveAt(s, n) \in Seq(Fds) /\ ToSet(s) \ {s[n]} \subseteq ToSet(RemoveAt(s, n))
PROOF
<1>. DEFINE front == SubSeq(s, 1, n - 1)
            back == SubSeq(s, n + 1, Len(s))
<1>1. n \in Nat /\ n \in 1 .. Len(s) /\ Len(s) \in Nat
    OBVIOUS
<1>2. /\ front \in Seq(Fds) /\ Len(front) = n - 1
      /\ \A k \in 1 .. n - 1 : front[k] = s[k]
    BY <1>1
<1>3. /\ back \in Seq(Fds) /\ Len(back) = Len(s) - n
      /\ \A k \in 1 .. Len(s) - n : back[k] = s[k + n]
    BY <1>1
<1>. HIDE DEF front, back
<1>4. /\ front \o back \in Seq(Fds) /\ Len(front \o back) = Len(s) - 1
      /\ \A k \in 1 .. Len(s) - 1 :
            (front \o back)[k] = IF k <= n - 1 THEN front[k] ELSE back[k - (n - 1)]
    <2>1. Len(front) + Len(back) = Len(s) - 1
        BY <1>1, <1>2, <1>3
    <2>2. /\ front \o back \in Seq(Fds) /\ Len(front \o back) = Len(front) + Len(back)
          /\ \A k \in 1 .. Len(front) + Len(back) :
                (front \o back)[k] = IF k <= Len(front) THEN front[k] ELSE back[k - Len(front)]
        BY <1>2, <1>3, ConcatProperties
    <2>3. QED
        BY <1>2, <2>1, <2>2
<1>5. ASSUME NEW k \in DOMAIN s, s[k] # s[n]
      PROVE  \E l \in DOMAIN (front \o back) : (front \o back)[l] = s[k]
    <2>1. CASE k < n
        <3>1. k \in 1 .. Len(s) - 1 /\ k <= n - 1 /\ k \in 1 .. n - 1
            BY <1>1, <2>1
        <3>2. QED
            BY <1>2, <1>4, <3>1
    <2>2. CASE k > n
        <3>1. k - 1 \in 1 .. Len(s) - 1 /\ ~(k - 1 <= n - 1) /\ k - n \in 1 .. Len(s) - n
              /\ (k - 1) - (n - 1) = k - n /\ (k - n) + n = k
            BY <1>1, <2>2
        <3>2. (front \o back)[k - 1] = s[k]
            BY <1>3, <1>4, <3>1
        <3>3. QED
            BY <1>4, <3>1, <3>2
    <2>3. k \in Nat /\ k # n
        BY <1>5
    <2>4. QED
        BY <1>1, <2>1, <2>2, <2>3
<1>6. RemoveAt(s, n) = front \o back
    BY DEF RemoveAt, front, back
<1>7. ToSet(s) \ {s[n]} \subseteq ToSet(front \o back)
    BY <1>5 DEF ToSet
<1>8. QED
    BY <1>4, <1>6, <1>7

\* While the list changes nothing is being sent, and nobody who stays in the
\* list loses a place in the stream.
LEMMA ChangeClientsPreserves ==
    ASSUME CamInv, ChangeClients
    PROVE  CamInv'
PROOF
<1>. USE DEF picVars, timerVars, mainVars
<1>1. main_pc = "rest" /\ UNCHANGED <<picVars, timerVars, mainVars>>
    BY DEF ChangeClients
<1>2. SessionTypeOK'
    BY DEF ChangeClients, Connect, LogIn, TakeControl, LogOut, Drop, Becomes, CamInv, CamTypeOK,
           SessionTypeOK, SessionStates
<1>3. clients \in Seq(Fds) /\ DOMAIN sent \subseteq ToSet(clients) /\ DOMAIN sent \subseteq Fds
    BY DEF CamInv, CamTypeOK, StreamInv
<1>4. /\ clients' \in Seq(Fds) /\ DOMAIN sent' \subseteq ToSet(clients')
      /\ DOMAIN sent' \subseteq DOMAIN sent
      /\ \A c \in DOMAIN sent' : sent'[c] = sent[c]
    <2>1. CASE \E fd \in Fds : clients' = Append(clients, fd) /\ UNCHANGED sent
        <3>1. PICK fd \in Fds : clients' = Append(clients, fd)
            BY <2>1
        <3>2. clients' \in Seq(Fds) /\ ToSet(clients) \subseteq ToSet(clients')
            BY <1>3, <3>1 DEF ToSet
        <3>3. QED
            BY <1>3, <2>1, <3>2
    <2>2. CASE UNCHANGED <<clients, sent>>
        BY <1>3, <2>2
    <2>3. CASE \E fd \in Fds :
                /\ \E n \in DOMAIN clients : clients[n] = fd /\ clients' = RemoveAt(clients, n)
                /\ sent' = Restrict(sent, DOMAIN sent \ {fd})
        <3>1. PICK n \in DOMAIN clients :
                /\ clients' = RemoveAt(clients, n)
                /\ sent' = Restrict(sent, DOMAIN sent \ {clients[n]})
            BY <2>3
        <3>2. clients' \in Seq(Fds) /\ ToSet(clients) \ {clients[n]} \subseteq ToSet(clients')
            BY <1>3, <3>1, RemovedAt
        <3>3. DOMAIN sent' = DOMAIN sent \ {clients[n]} /\ \A c \in DOMAIN sent' : sent'[c] = sent[c]
            BY <3>1 DEF Restrict
        <3>4. QED
            BY <1>3, <3>2, <3>3
    <2>4. QED
        BY <2>1, <2>2, <2>3 DEF ChangeClients
<1>5. CamTypeOK'
    BY <1>1, <1>2, <1>4 DEF CamInv, CamTypeOK
<1>6. NotWrittenWhileSent'
    BY <1>1 DEF CamInv, NotWrittenWhileSent
<1>7. WriteInv'
    BY <1>1 DEF CamInv, WriteInv, Kept, FramesOf, FramesStored, HeaderStored, DataStored
<1>8. SendInv'
    BY <1>1 DEF CamInv, SendInv
<1>9. StreamInv'
    BY <1>1, <1>4 DEF CamInv, StreamInv
<1>10. QED
    BY <1>5, <1>6, <1>7, <1>8, <1>9 DEF CamInv

-----------------------------------------------------------------------------
(* Every step                                                              *)

LEMMA CamNextPreserves ==
    ASSUME CamInv, [CamNext]_camVars
    PROVE  CamInv'
PROOF
<1>1. CASE TimerTask
    <2>1. CASE DropPic
        <3>1. UNCHANGED <<picVars, timerVars, msg_len, client_idx, clientVars>> /\ main_pc' = main_pc
            BY <2>1 DEF DropPic, camVars, mainVars
        <3>2. QED
            BY <3>1 DEF CamInv, CamTypeOK, SessionTypeOK, NotWrittenWhileSent, WriteInv, SendInv,
                        StreamInv, Kept, FramesOf, FramesStored, HeaderStored, DataStored, Handed,
                        picVars, timerVars, clientVars
    <2>2. QED
        BY <1>1, <2>1, TakePicPreserves, StoreCountPreserves, StoreHeaderPreserves,
           StoreDataPreserves, SetAvailablePreserves, TakeNullPreserves DEF TimerTask
<1>2. CASE MainTask
    <2>1. CASE UpdateCam \/ NoNextFrame \/ SendFails \/ CheckProcessed \/ EndUpdate
        <3>1. UNCHANGED <<picVars, timerVars, msg_len, client_idx, clientVars>>
            BY <2>1 DEF UpdateCam, NoNextFrame, SendFails, CheckProcessed, EndUpdate, MainGoto
        <3>2. \/ main_pc' \in {"idle", "next", "rest", "error"}
              \/ main_pc = "sent" /\ main_pc' = "processed"
            BY <2>1 DEF UpdateCam, NoNextFrame, SendFails, CheckProcessed, EndUpdate, MainGoto
        <3>3. QED
            BY <3>1, <3>2, MovingOnPreserves
    <2>2. QED
        BY <1>2, <2>1, GetNextFrameBuffPreserves, SendToPreserves,
           SetCurrentFrameProcessedPreserves, ChangeClientsPreserves DEF MainTask
<1>3. CASE UNCHANGED camVars
    BY <1>3 DEF CamInv, CamTypeOK, SessionTypeOK, NotWrittenWhileSent, WriteInv, SendInv, StreamInv,
                Kept, FramesOf, FramesStored, HeaderStored, DataStored, Handed,
                camVars, picVars, timerVars, mainVars, clientVars
<1>4. QED
    BY <1>1, <1>2, <1>3 DEF CamNext

\* A frame is taken off only when every client in the list has it.
LEMMA StepOfProcessed ==
    ASSUME CamInv, [CamNext]_camVars,
           m_processed_frames' # m_processed_frames \/ (m_state = "Available" /\ m_state' = "Processed")
    PROVE  /\ clients # << >>
           /\ \A fd \in ToSet(clients) :
                fd \in DOMAIN sent /\ sent[fd] = m_pic_frames[m_processed_frames]
PROOF
<1>1. ~TakeNull
    BY DEF TakeNull, CamInv, SendInv
<1>2. CASE main_pc = "processed"
    BY <1>2, AllHaveFrame
<1>3. CASE main_pc # "processed"
    <2>1. ~SetCurrentFrameProcessed
        BY <1>3 DEF SetCurrentFrameProcessed
    <2>2. m_processed_frames' = m_processed_frames
        BY <1>1, <2>1 DEF CamNext, TimerTask, MainTask, TakePic, DropPic, StoreCount, StoreHeader,
            StoreData, SetAvailable, TimerGoto, UpdateCam, GetNextFrameBuff, NoNextFrame, SendTo,
            SendFails, CheckProcessed, ChangeClients, EndUpdate, camVars, picVars
    <2>3. m_state' = m_state \/ m_state' = "Available"
        BY <1>1, <2>1 DEF CamNext, TimerTask, MainTask, TakePic, DropPic, StoreCount, StoreHeader,
            StoreData, SetAvailable, UpdateCam, GetNextFrameBuff, NoNextFrame, SendTo,
            SendFails, CheckProcessed, ChangeClients, EndUpdate, camVars, picVars
    <2>4. QED
        BY <2>2, <2>3
<1>4. QED
    BY <1>2, <1>3

-----------------------------------------------------------------------------
(* The stream                                                              *)

\* The next message for a client that has had one follows the last one.
LEMMA MessageFollows ==
    ASSUME CamInv, main_pc = "send", NEW fd \in DOMAIN sent
    PROVE  Stream!MayFollow(sent[fd], m_pic_frames[m_processed_frames])
PROOF
<1>. DEFINE p == m_processed_frames
<1>1. m_state = "Available"
    BY MessageIsFrame
<1>2. /\ p \in Nat /\ p < m_stored_frames /\ m_stored_frames \in Nat /\ p \in 0 .. m_stored_frames - 1
      /\ pic.len \in Lens /\ pic.len \in Nat /\ m_stored_frames = Kept
    <2>1. p \in FrameIndices /\ m_stored_frames \in 0 .. MaxFrames /\ p < m_stored_frames
        BY <1>1 DEF CamInv, CamTypeOK, SendInv
    <2>2. pic.len \in Lens /\ m_stored_frames = Kept
        BY <1>1 DEF CamInv, CamTypeOK, WriteInv
    <2>3. QED
        BY <2>1, <2>2, Constants DEF FrameIndices
<1>3. \A j \in 0 .. m_stored_frames - 1 : HeaderStored(j) /\ DataStored(j)
    BY <1>1 DEF CamInv, WriteInv, FramesStored
<1>4. \/ sent[fd] = m_pic_frames[p]
      \/ p > 0 /\ sent[fd] = m_pic_frames[p - 1]
      \/ p = 0 /\ sent[fd].number = 0 /\ sent[fd].pic < pic.nb
    BY <1>1 DEF CamInv, StreamInv
<1>. HIDE DEF p
<1>5. CASE p > 0 /\ sent[fd] = m_pic_frames[p - 1]
    <2>. DEFINE k == p - 1
    <2>1. k \in Nat /\ k \in 0 .. m_stored_frames - 1 /\ k \in 0 .. m_stored_frames - 2 /\ p = k + 1
        BY <1>2, <1>5
    <2>. HIDE DEF k
    <2>2. /\ m_pic_frames[p].pic = pic.nb /\ m_pic_frames[k].pic = pic.nb
          /\ m_pic_frames[p].from = p * FrameDataSize /\ m_pic_frames[k].from = k * FrameDataSize
          /\ m_pic_frames[p].number = m_stored_frames - p - 1
          /\ m_pic_frames[k].number = m_stored_frames - k - 1
        BY <1>2, <1>3, <2>1 DEF HeaderStored, DataStored
    <2>3. k * FrameDataSize \in Nat /\ p * FrameDataSize = k * FrameDataSize + FrameDataSize
        BY <2>1, NextFrame
    <2>4. p * FrameDataSize < pic.len
        BY <1>2, <2>1, KeptFrames
    <2>5. ~(pic.len - k * FrameDataSize < FrameDataSize)
        BY <1>2, <2>3, <2>4, Constants
    <2>6. m_pic_frames[k].len = FrameDataSize
        BY <1>3, <2>1, <2>5 DEF HeaderStored
    <2>7. m_pic_frames[p].number = m_pic_frames[k].number - 1
        BY <1>2, <2>1, <2>2
    <2>8. QED
        BY <1>5, <2>2, <2>3, <2>6, <2>7 DEF Stream!MayFollow, p, k
<1>6. CASE p = 0 /\ sent[fd].number = 0 /\ sent[fd].pic < pic.nb
    <2>1. m_pic_frames[p].pic = pic.nb /\ m_pic_frames[p].from = p * FrameDataSize
        BY <1>2, <1>3 DEF DataStored
    <2>2. p * FrameDataSize = 0
        BY <1>6, Constants
    <2>3. pic.nb \in Nat /\ sent[fd].pic \in Nat
        BY DEF CamInv, CamTypeOK, Frames
    <2>4. QED
        BY <1>6, <2>1, <2>2, <2>3 DEF Stream!MayFollow, p
<1>7. CASE sent[fd] = m_pic_frames[p]
    BY <1>7 DEF Stream!MayFollow, p
<1>8. QED
    BY <1>4, <1>5, <1>6, <1>7

\* A frame that is sent is not empty, and says how many are to come.
LEMMA FrameNotEmpty ==
    ASSUME CamInv, main_pc = "send"
    PROVE  m_pic_frames[m_processed_frames].len > 0 /\ m_pic_frames[m_processed_frames].number >= 0
PROOF
<1>1. m_state = "Available" /\ m_pic_frames[m_processed_frames] \in Frames
    BY MessageIsFrame
<1>2. PictureWhole /\ m_processed_frames < m_stored_frames
    BY <1>1, PictureWholeFollows DEF PictureWhole
<1>3. m_processed_frames \in 0 .. m_stored_frames - 1
    <2>1. m_processed_frames \in FrameIndices /\ m_stored_frames \in 0 .. MaxFrames
        BY DEF CamInv, CamTypeOK
    <2>2. QED
        BY <1>2, <2>1, Constants DEF FrameIndices
<1>4. QED
    BY <1>1, <1>2, <1>3 DEF PictureWhole, Frames

LEMMA StreamStep ==
    ASSUME CamInv, [CamNext]_camVars
    PROVE  [Stream!StreamNext]_sent
PROOF
<1>1. CASE \E fd \in Fds : SendTo(fd)
    <2>1. PICK fd \in Fds : SendTo(fd)
        BY <1>1
    <2>2. main_pc = "send"
        BY <2>1 DEF SendTo
    <2>3. /\ DOMAIN sent' = DOMAIN sent \cup {fd}
          /\ sent'[fd] = m_pic_frames[m_processed_frames]
          /\ \A c \in DOMAIN sent \ {fd} : sent'[c] = sent[c]
        BY <2>1, <2>2, MessageIsFrame DEF SendTo
    <2>4. fd \in DOMAIN sent => Stream!MayFollow(sent[fd], sent'[fd])
        BY <2>2, <2>3, MessageFollows
    <2>5. sent'[fd].len > 0 /\ sent'[fd].number >= 0
        BY <2>2, <2>3, FrameNotEmpty
    <2>6. Stream!Deliver
        BY <2>3, <2>4, <2>5 DEF Stream!Deliver
    <2>7. QED
        BY <2>6 DEF Stream!StreamNext
<1>2. CASE ChangeClients
    <2>1. CASE \E fd \in Fds : sent' = Restrict(sent, DOMAIN sent \ {fd})
        <3>1. PICK fd \in Fds : sent' = Restrict(sent, DOMAIN sent \ {fd})
            BY <2>1
        <3>2. DOMAIN sent \ {fd} = DOMAIN sent \ (DOMAIN sent \cap {fd})
            OBVIOUS
        <3>3. DOMAIN sent \cap {fd} \in SUBSET DOMAIN sent
            OBVIOUS
        <3>4. Stream!Leave
            BY <3>1, <3>2, <3>3 DEF Stream!Leave, Restrict, Stream!Restrict
        <3>5. QED
            BY <3>4 DEF Stream!StreamNext
    <2>2. QED
        BY <1>2, <2>1 DEF ChangeClients
<1>3. CASE TakeNull
    <2>1. sent' = << >>
        BY <1>3 DEF TakeNull
    <2>2. Stream!Leave
        <3>1. DOMAIN sent \in SUBSET DOMAIN sent /\ DOMAIN sent \ DOMAIN sent = {}
            OBVIOUS
        <3>2. << >> = [c \in {} |-> sent[c]]
            OBVIOUS
        <3>3. sent' = Stream!Restrict(sent, DOMAIN sent \ DOMAIN sent)
            BY <2>1, <3>1, <3>2 DEF Stream!Restrict
        <3>4. QED
            BY <3>1, <3>3 DEF Stream!Leave
    <2>3. QED
        BY <2>2 DEF Stream!StreamNext
<1>4. CASE UNCHANGED sent
    BY <1>4
<1>5. QED
    <2>1. (\E fd \in Fds : SendTo(fd)) \/ ChangeClients \/ TakeNull \/ UNCHANGED sent
        BY DEF CamNext, TimerTask, MainTask, TakePic, DropPic, StoreCount, StoreHeader,
            StoreData, SetAvailable, TimerGoto, UpdateCam, GetNextFrameBuff, NoNextFrame,
            SendFails, CheckProcessed, SetCurrentFrameProcessed, EndUpdate, camVars, clientVars
    <2>2. QED
        BY <1>1, <1>2, <1>3, <1>4, <2>1

-----------------------------------------------------------------------------
(* The theorems                                                            *)

\* The invariant holds: what the timer has stored and what the main task has
\* sent fit together in every state (picture.h:54, program.cpp:114).
THEOREM CamInvariant == CamSpec => []CamInv
PROOF
<1>1. CamInit => CamInv
    BY CamInitEstablishes
<1>2. CamInv /\ [CamNext]_camVars => CamInv'
    BY CamNextPreserves
<1>3. QED
    BY <1>1, <1>2, PTL DEF CamSpec

\* Every variable keeps to its kind, and no frame index leaves the array.
THEOREM CamTypeCorrect == CamSpec => []CamTypeOK
PROOF
<1>1. CamInv => CamTypeOK
    BY DEF CamInv
<1>2. QED
    BY <1>1, CamInvariant, PTL

\* The frames of a picture that can be sent make up the picture, up to its
\* last byte or to the last that fits in, whatever its length.
THEOREM PictureAlwaysWhole == CamSpec => []PictureWhole
PROOF
<1>1. CamInv => PictureWhole
    BY PictureWholeFollows
<1>2. QED
    BY <1>1, CamInvariant, PTL

\* The one variable m_state keeps the timer from writing what is being sent.
THEOREM NeverWrittenWhileSent == CamSpec => []NotWrittenWhileSent
PROOF
<1>1. CamInv => NotWrittenWhileSent
    BY DEF CamInv
<1>2. QED
    BY <1>1, CamInvariant, PTL

\* No client in the list is passed over when a frame is taken off.
THEOREM ProcessedAlwaysSent == CamSpec => ProcessedWasSent
PROOF
<1>1. CamInv /\ [CamNext]_camVars =>
        [m_processed_frames' # m_processed_frames \/ (m_state = "Available" /\ m_state' = "Processed")
            => /\ clients # << >>
               /\ \A fd \in ToSet(clients) :
                    fd \in DOMAIN sent /\ sent[fd] = m_pic_frames[m_processed_frames]]_camVars
    BY StepOfProcessed
<1>2. QED
    BY <1>1, CamInvariant, PTL DEF CamSpec, ProcessedWasSent

\* Camera implements PictureStream, for any number of clients that come and go.
THEOREM ImplementsPictureStream == CamSpec => IsPictureStream
PROOF
<1>1. CamInit => Stream!StreamInit
    BY DEF CamInit, Stream!StreamInit
<1>2. CamInv /\ [CamNext]_camVars => [Stream!StreamNext]_sent
    BY StreamStep
<1>3. QED
    BY <1>1, <1>2, CamInvariant, PTL DEF CamSpec, IsPictureStream, Stream!StreamSpec

-----------------------------------------------------------------------------
(* What EveryPictureSent rests on                                          *)

\* The frames of the picture that the main task has still to take off.
FramesLeft == IF m_state = "Available" THEN m_stored_frames - m_processed_frames ELSE 0

PictureKept ==
    /\ UNCHANGED <<pic, m_pic_frames, m_stored_frames>>
    /\ m_state' \in {"Available", "Processed"}
    /\ FramesLeft' = IF SetCurrentFrameProcessed THEN FramesLeft - 1 ELSE FramesLeft

LEMMA AvailableStep ==
    ASSUME CamInv, [CamNext]_camVars, m_state = "Available"
    PROVE  PictureKept
PROOF
<1>1. /\ cam_pc = "idle" /\ m_processed_frames < m_stored_frames
      /\ m_processed_frames \in Nat /\ m_stored_frames \in Nat
    BY Constants DEF CamInv, CamTypeOK, NotWrittenWhileSent, SendInv, FrameIndices
<1>2. CASE SetCurrentFrameProcessed
    <2>1. /\ UNCHANGED <<pic, m_pic_frames, m_stored_frames>>
          /\ IF m_processed_frames + 1 = m_stored_frames
             THEN m_state' = "Processed"
             ELSE m_state' = "Available" /\ m_processed_frames' = m_processed_frames + 1
        BY <1>2 DEF SetCurrentFrameProcessed, MainGoto, timerVars
    <2>2. FramesLeft' = FramesLeft - 1
        BY <1>1, <2>1 DEF FramesLeft
    <2>3. QED
        BY <1>2, <2>1, <2>2 DEF PictureKept
<1>3. CASE ~SetCurrentFrameProcessed
    <2>1. UNCHANGED <<pic, m_pic_frames, m_stored_frames, m_state, m_processed_frames>>
        BY <1>1, <1>3 DEF CamNext, TimerTask, MainTask, TakePic, DropPic, StoreCount, StoreHeader, StoreData,
            SetAvailable, TakeNull, UpdateCam, GetNextFrameBuff, NoNextFrame, SendTo, SendFails, CheckProcessed,
            ChangeClients, EndUpdate, MainGoto, camVars, picVars, timerVars
    <2>2. QED
        BY <1>3, <2>1 DEF PictureKept, FramesLeft
<1>4. QED
    BY <1>2, <1>3

\* A picture that can be sent is left alone until it is: the timer takes no other,
\* no restart comes between, and it never starts again from an earlier frame
\* (picture.h:56, 116).  The frames left of it only become fewer, one with each that
\* all clients have had.  With the fairness of lwIP, this is EveryPictureSent.
THEOREM PictureKeptUntilSent == CamSpec => [][m_state = "Available" => PictureKept]_camVars
PROOF
<1>1. CamInv /\ [CamNext]_camVars => [m_state = "Available" => PictureKept]_camVars
    BY AvailableStep
<1>2. QED
    BY <1>1, CamInvariant, PTL DEF CamSpec

=============================================================================
