---------------------------- MODULE PictureStream ----------------------------
(***************************************************************************)
(* What a client that listens for pictures is promised, without the camera *)
(* and the loop that sends: it is handed the messages of one picture after *)
(* another, in order and without a gap, though maybe the same one more     *)
(* than once.  A client may join in the middle of a picture.               *)
(*                                                                         *)
(* A message has the len bytes of picture pic from byte from on, and the   *)
(* number of messages of that picture still to come.                       *)
(***************************************************************************)
EXTENDS Integers, Functions

VARIABLE received       \* the last message of each client that has had one

StreamInit == received = << >>

\* May a client that has had message m be handed message n?
MayFollow(m, n) ==
    \/ n = m
    \/ n.pic = m.pic /\ n.from = m.from + m.len /\ n.number = m.number - 1
    \/ n.pic > m.pic /\ n.from = 0 /\ m.number = 0

Deliver ==
    \E c \in DOMAIN received' :
        /\ DOMAIN received' = DOMAIN received \cup {c}
        /\ \A d \in DOMAIN received \ {c} : received'[d] = received[d]
        /\ c \in DOMAIN received => MayFollow(received[c], received'[c])
        /\ received'[c].len > 0 /\ received'[c].number >= 0

\* A client whose connection is gone starts afresh if it comes back.
Leave == \E gone \in SUBSET DOMAIN received : received' = Restrict(received, DOMAIN received \ gone)

StreamNext == Deliver \/ Leave

StreamSpec == StreamInit /\ [][StreamNext]_received

=============================================================================
