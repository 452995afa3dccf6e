-------------------------- MODULE MCRunningServer --------------------------
(* Values for the constants of RunningServer, and its symmetry.            *)
EXTENDS RunningServer, TLC

\* As in MCClients: no state, and no descriptor, is past the end of the array.
MCOutOfBounds ==
    {[m_socket |-> NoFd, m_state |-> "Garbage", m_connected_at |-> "Garbage"]}

FdSymmetry == Permutations(Fds)

=============================================================================
