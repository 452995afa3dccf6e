----------------------------- MODULE ServerLife -----------------------------
(***************************************************************************)
(* What NetServer promises Wifi: a start leads to a running server or to   *)
(* an error, and a server that has run once never runs again after another *)
(* start, because the sockets of the first start keep their addresses.     *)
(* NetServer.tla implements this; Wifi.tla is built on it.                 *)
(***************************************************************************)

VARIABLES
    server,     \* "NotStarted", "Starting", "Running" or "Error"
    has_run     \* has the server been running since the program began?

LifeInit ==
    /\ server = "NotStarted"
    /\ has_run = FALSE

\* start(), in any state.
Start ==
    /\ server' = "Starting"
    /\ UNCHANGED has_run

\* The update() that completes the start.
Run ==
    /\ server = "Starting" /\ ~has_run
    /\ server' = "Running"
    /\ has_run' = TRUE

\* An update() that returns an error: only one of a server that is starting.
Fail ==
    /\ server = "Starting"
    /\ server' = "Error"
    /\ UNCHANGED has_run

LifeNext == Start \/ Run \/ Fail

LifeSpec == LifeInit /\ [][LifeNext]_<<server, has_run>>

=============================================================================
