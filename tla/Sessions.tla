------------------------------ MODULE Sessions ------------------------------
(***************************************************************************)
(* What the list of connected clients promises, without the list: every    *)
(* accepted descriptor has a session of its own, the session changes only  *)
(* by what that one client does, and at most one session has control.      *)
(* Clients.tla, with its array, its shifting and its loop over the array,  *)
(* implements this specification.                                          *)
(***************************************************************************)
EXTENDS Integers

CONSTANTS
    Fds,                \* descriptors accept() can return
    NbAllowedClients    \* how many sessions may exist at once

VARIABLE session        \* session[fd] : what the client behind fd may do

SessionStates == {"None", "Connected", "Authenticated", "TakingControl"}

SessionTypeOK == session \in [Fds -> SessionStates]

SessionInit == session = [fd \in Fds |-> "None"]

Becomes(fd, from, to) ==
    /\ session[fd] \in from
    /\ session' = [session EXCEPT ![fd] = to]

NoOneControls == \A fd \in Fds : session[fd] # "TakingControl"

\* accept() hands out a descriptor that is not in use.
Connect(fd) == Becomes(fd, {"None"}, "Connected")

LogIn(fd) == Becomes(fd, {"Connected"}, "Authenticated")

\* Control is taken, never taken over.
TakeControl(fd) == NoOneControls /\ Becomes(fd, {"Connected"}, "TakingControl")

LogOut(fd) == Becomes(fd, {"Authenticated", "TakingControl"}, "Connected")

\* The connection is lost, whatever the session was.
Drop(fd) == Becomes(fd, SessionStates \ {"None"}, "None")

SessionNext ==
    \E fd \in Fds :
        Connect(fd) \/ LogIn(fd) \/ TakeControl(fd) \/ LogOut(fd) \/ Drop(fd)

SessionSpec == SessionInit /\ [][SessionNext]_session

=============================================================================
