----------------------------- MODULE MCClients -----------------------------
(* Values for the constants of Clients.                                    *)
EXTENDS Clients

\* In the firmware for the ESP32 the word past the array that would be the
\* state of a client is a heap pointer, so it is none of the states, and the
\* one that would be its descriptor is not a descriptor of lwIP.
MCOutOfBounds ==
    {[m_socket |-> NoFd, m_state |-> "Garbage", m_connected_at |-> "Garbage"]}

=============================================================================
