-------------------------- MODULE NetServerProofs --------------------------
(***************************************************************************)
(* Proofs about SocketsHandler and NetServer, for every number of          *)
(* descriptors and of starts.  The first part is true of any owner of the  *)
(* server, the second of Wifi, which never stops it.                       *)
(***************************************************************************)
EXTENDS NetServer, FiniteSetTheorems, TLAPS

\* A handler that is ready has every socket it was started for.
HandlersSound ==
    /\ handler_state["Tcp"].on = handler_state["Udp"].on
    /\ \A s \in Sockets : handler_state[s[1]].phase = "Ready" /\ s[2] \in handler_state[s[1]].on
                            => socket_state[s] = "Ready"

\* A server that has been started has a timer.
HasTimer == m_state # "NotStarted" => m_timer_send_25ms # 0

AnyOwnerInv == ServerTypeOK /\ SocketsSound /\ HandlersSound /\ HasTimer

LEMMA Pairs ==
    /\ \A s \in Sockets : s[1] \in Protocols /\ s[2] \in Interfaces /\ s = <<s[1], s[2]>>
    /\ "Tcp" \in Protocols /\ "Udp" \in Protocols
PROOF
    BY DEF Sockets, Protocols, Interfaces

LEMMA OwnersOf ==
    \A s \in Sockets : s \in Owners <=> socket_state[s] \notin {"NotStarted", "Uninitialized"} /\ m_socket[s] # NoFd
PROOF
    BY DEF Owners, HasToClose

-----------------------------------------------------------------------------
(* update() of the sockets                                                 *)

\* What a pass does to one socket, when new gives the created ones a descriptor.
Creates(s, new) ==
    /\ socket_state[s] = "Uninitialized" /\ socket_state'[s] = "Created"
    /\ m_socket'[s] = new[s] /\ new[s] \in Fds \ open_fds /\ new[s] \in open_fds'

Binds(s) ==
    /\ socket_state[s] = "Created" /\ m_socket'[s] = m_socket[s]
    /\ socket_state'[s] = IF s[1] = "Tcp" THEN "Bound" ELSE "Ready"
    /\ <<m_socket[s], s>> \in bound' /\ ~AddressInUse(s)

Listens(s) ==
    /\ socket_state[s] = "Bound" /\ socket_state'[s] = "Ready"
    /\ m_socket'[s] = m_socket[s] /\ m_socket[s] \in listening'

Fails(s) ==
    /\ socket_state'[s] = "Error"
    /\ \/ m_socket'[s] = NoFd
       \/ m_socket'[s] = m_socket[s] /\ socket_state[s] \notin {"NotStarted", "Uninitialized"}

Rests(s) == socket_state'[s] = socket_state[s] /\ m_socket'[s] = m_socket[s]

Pass(new) ==
    /\ \A s \in Sockets : Creates(s, new) \/ Binds(s) \/ Listens(s) \/ Fails(s) \/ Rests(s)
    /\ \A s, t \in Sockets : Creates(s, new) /\ Creates(t, new) /\ new[s] = new[t] => s = t
    /\ \A b \in bound' : b \in bound \/ \E s \in Sockets : Binds(s) /\ b = <<m_socket[s], s>>
    /\ bound \subseteq bound' /\ listening \subseteq listening' /\ open_fds \subseteq open_fds'

LEMMA PassOfUpdate ==
    ASSUME TypeOK, SocketsSound, NEW failed \in SUBSET Sockets, UpdateSockets(failed)
    PROVE  TypeOK' /\ \E new : Pass(new)
PROOF
<1>. DEFINE udp == IF failed \cap Called("Tcp") = {} THEN Called("Udp") ELSE {}
            calls == {s \in Called("Tcp") \cup udp : HasCall(s)}
            In(state) == {s \in calls \ failed : socket_state[s] = state}
<1>1. calls \subseteq Sockets /\ failed \subseteq calls
    BY DEF UpdateSockets, Called
<1>2. PICK new \in Allocated(In("Uninitialized")) :
        /\ m_socket' = [s \in Sockets |->
                IF s \in In("Uninitialized") THEN new[s]
                ELSE IF s \in failed /\ socket_state[s] = "Uninitialized" THEN NoFd
                ELSE m_socket[s]]
        /\ open_fds' = open_fds \cup {new[s] : s \in In("Uninitialized")}
    BY DEF UpdateSockets
<1>3. /\ \A s \in In("Created") : ~AddressInUse(s)
      /\ bound' = bound \cup {<<m_socket[s], s>> : s \in In("Created")}
      /\ listening' = listening \cup {m_socket[s] : s \in In("Bound")}
      /\ socket_state' = [s \in Sockets |-> IF s \in failed THEN "Error"
                                            ELSE IF s \in calls THEN Advanced(s)
                                            ELSE socket_state[s]]
      /\ handler_state' = [p \in Protocols |->
                HandlerAfter(p, IF p = "Tcp" THEN Called("Tcp") ELSE udp, failed)]
    BY DEF UpdateSockets
<1>4. /\ \A s \in In("Uninitialized") : new[s] \in Fds \ open_fds
      /\ \A s, t \in In("Uninitialized") : new[s] = new[t] => s = t
    BY <1>2 DEF Allocated, FirstFree, Injection, IsInjective
<1>5. \A s \in calls : \/ socket_state[s] \in {"Uninitialized", "Created"}
                       \/ socket_state[s] = "Bound" /\ s[1] = "Tcp"
    BY DEF HasCall
<1>. HIDE DEF calls
<1>6. ASSUME NEW s \in Sockets
      PROVE  Creates(s, new) \/ Binds(s) \/ Listens(s) \/ Fails(s) \/ Rests(s)
    <2>1. CASE s \in In("Uninitialized")
        BY <1>1, <1>2, <1>3, <1>4, <2>1 DEF Creates, Advanced
    <2>2. CASE s \in In("Created")
        BY <1>1, <1>2, <1>3, <2>2 DEF Binds, Advanced
    <2>3. CASE s \in In("Bound")
        BY <1>1, <1>2, <1>3, <1>5, <2>3 DEF Listens, Advanced
    <2>4. CASE s \in failed
        BY <1>1, <1>2, <1>3, <1>5, <2>4 DEF Fails
    <2>5. CASE s \notin calls
        BY <1>1, <1>2, <1>3, <2>5 DEF Rests
    <2>6. QED
        BY <1>5, <2>1, <2>2, <2>3, <2>4, <2>5
<1>7. \A s \in Sockets : Creates(s, new) => s \in In("Uninitialized")
    BY <1>1, <1>3 DEF Creates
<1>8. \A s \in In("Created") : s \in Sockets /\ Binds(s)
    BY <1>1, <1>2, <1>3 DEF Binds, Advanced
<1>9. Pass(new)
    <2>1. \A s, t \in Sockets : Creates(s, new) /\ Creates(t, new) /\ new[s] = new[t] => s = t
        BY <1>4, <1>7
    <2>2. \A b \in bound' : b \in bound \/ \E s \in Sockets : Binds(s) /\ b = <<m_socket[s], s>>
        BY <1>3, <1>8
    <2>3. bound \subseteq bound' /\ listening \subseteq listening' /\ open_fds \subseteq open_fds'
        BY <1>2, <1>3
    <2>4. QED
        BY <1>6, <2>1, <2>2, <2>3 DEF Pass
<1>10. TypeOK'
    <2>1. socket_state' \in [Sockets -> SocketStates]
        BY <1>3, <1>5 DEF TypeOK, SocketStates, Advanced
    <2>2. m_socket' \in [Sockets -> Fds \cup {NoFd}]
        BY <1>2, <1>4 DEF TypeOK
    <2>3. open_fds' \subseteq Fds
        BY <1>2, <1>4 DEF TypeOK
    <2>4. \A s \in In("Created") \cup In("Bound") : s \in Sockets /\ m_socket[s] \in Fds
        <3>1. \A s \in In("Created") \cup In("Bound") : s \in Sockets /\ socket_state[s] \in {"Created", "Bound"}
            BY <1>1
        <3>2. QED
            BY <3>1 DEF SocketsSound, Owners, TypeOK
    <2>5. bound' \subseteq Fds \X Sockets /\ listening' \subseteq Fds
        BY <1>3, <2>4 DEF TypeOK
    <2>6. handler_state' \in [Protocols -> HandlerStates]
        <3>1. ASSUME NEW p \in Protocols, NEW called
              PROVE  HandlerAfter(p, called, failed) \in HandlerStates
            BY DEF TypeOK, HandlerAfter, HandlerStates
        <3>2. QED
            BY <1>3, <3>1
    <2>7. QED
        BY <2>1, <2>2, <2>3, <2>5, <2>6 DEF TypeOK
<1>11. QED
    BY <1>9, <1>10

\* A pass keeps descriptors apart: a new one was free, an address is bound by one
\* socket only, and what has been bound or listens stays so.
LEMMA PassKeepsSockets ==
    ASSUME TypeOK, TypeOK', SocketsSound, NEW new, Pass(new)
    PROVE  SocketsSound'
PROOF
<1>1. \A s \in Sockets : /\ m_socket[s] \in Fds \cup {NoFd} /\ m_socket'[s] \in Fds \cup {NoFd}
                         /\ socket_state[s] \in SocketStates
    BY DEF TypeOK
<1>2. \A s \in Sockets : s \in Owners' <=>
            socket_state'[s] \notin {"NotStarted", "Uninitialized"} /\ m_socket'[s] # NoFd
    BY DEF Owners, HasToClose
<1>3. \A s \in Sockets : Creates(s, new) \/ Binds(s) \/ Listens(s) \/ Fails(s) \/ Rests(s)
    BY DEF Pass
\* A socket that has a descriptor after the pass got it in it, or had it before.
<1>4. \A s \in Owners' : s \in Sockets /\ (Creates(s, new) \/ (s \in Owners /\ m_socket'[s] = m_socket[s]))
    <2>1. \A s \in Owners' : s \in Sockets
        BY DEF Owners
    <2>2. QED
        BY <1>2, <1>3, <2>1, OwnersOf DEF Binds, Listens, Fails, Rests
<1>5. \A s \in Owners : m_socket[s] \in open_fds
    BY DEF SocketsSound
<1>6. \A s \in Owners' : m_socket'[s] \in open_fds'
    BY <1>4, <1>5 DEF Pass, Creates
<1>7. \A s, t \in Owners' : m_socket'[s] = m_socket'[t] => s = t
    <2>. SUFFICES ASSUME NEW s \in Owners', NEW t \in Owners', m_socket'[s] = m_socket'[t]
                  PROVE  s = t
        OBVIOUS
    <2>1. CASE Creates(s, new) /\ Creates(t, new)
        BY <1>4, <2>1 DEF Pass, Creates
    <2>2. CASE s \in Owners /\ t \in Owners /\ m_socket'[s] = m_socket[s] /\ m_socket'[t] = m_socket[t]
        BY <2>2 DEF SocketsSound
    <2>3. CASE Creates(s, new) /\ t \in Owners /\ m_socket'[t] = m_socket[t]
        BY <1>5, <2>3 DEF Creates
    <2>4. CASE Creates(t, new) /\ s \in Owners /\ m_socket'[s] = m_socket[s]
        BY <1>5, <2>4 DEF Creates
    <2>5. QED
        BY <1>4, <2>1, <2>2, <2>3, <2>4
<1>8. \A b \in bound' : b \in bound \/ \E s \in Sockets : Binds(s) /\ b = <<m_socket[s], s>>
    BY DEF Pass
<1>9. \A s \in Sockets : Binds(s) => s \in Owners /\ m_socket[s] \in open_fds
    BY <1>5 DEF Binds, SocketsSound
<1>10. \A s \in Owners' : socket_state'[s] = "Created" => \A t \in Sockets : <<m_socket'[s], t>> \notin bound'
    <2>. SUFFICES ASSUME NEW s \in Owners', socket_state'[s] = "Created", NEW t \in Sockets,
                         <<m_socket'[s], t>> \in bound'
                  PROVE  FALSE
        OBVIOUS
    <2>1. PICK b \in bound' : b = <<m_socket'[s], t>>
        OBVIOUS
    <2>2. b[1] = m_socket'[s] /\ s \in Sockets
        BY <1>4, <2>1
    <2>3. CASE Creates(s, new)
        <3>1. m_socket'[s] \notin open_fds
            BY <2>3 DEF Creates
        <3>2. b \notin bound
            BY <2>2, <3>1 DEF SocketsSound
        <3>3. PICK u \in Sockets : Binds(u) /\ b = <<m_socket[u], u>>
            BY <1>8, <3>2
        <3>4. QED
            BY <1>9, <2>2, <3>1, <3>3
    <2>4. CASE s \in Owners /\ m_socket'[s] = m_socket[s] /\ ~Creates(s, new)
        <3>1. Rests(s)
            BY <1>3, <2>2, <2>4 DEF Binds, Listens, Fails
        <3>2. socket_state[s] = "Created" /\ b \notin bound
            BY <2>1, <2>4, <3>1 DEF Rests, SocketsSound
        <3>3. PICK u \in Sockets : Binds(u) /\ b = <<m_socket[u], u>>
            BY <1>8, <3>2
        <3>4. u = s
            BY <1>9, <2>2, <2>4, <3>3 DEF SocketsSound
        <3>5. QED
            BY <3>1, <3>2, <3>3, <3>4 DEF Binds, Rests
    <2>5. QED
        BY <1>4, <2>3, <2>4
<1>11. \A s \in Sockets : socket_state'[s] \in {"Created", "Bound", "Ready"} => s \in Owners'
    <2>. SUFFICES ASSUME NEW s \in Sockets, socket_state'[s] \in {"Created", "Bound", "Ready"}
                  PROVE  m_socket'[s] # NoFd
        BY <1>2
    <2>1. CASE Creates(s, new)
        BY <2>1, SocketsAssumption DEF Creates
    <2>2. CASE ~Creates(s, new)
        <3>1. socket_state[s] \in {"Created", "Bound", "Ready"} /\ m_socket'[s] = m_socket[s]
            BY <1>3, <2>2 DEF Binds, Listens, Fails, Rests
        <3>2. s \in Owners
            BY <3>1 DEF SocketsSound
        <3>3. QED
            BY <3>1, <3>2, OwnersOf
    <2>3. QED
        BY <2>1, <2>2
<1>12. \A s \in Sockets : socket_state'[s] \in {"Bound", "Ready"} => <<m_socket'[s], s>> \in bound'
    <2>. SUFFICES ASSUME NEW s \in Sockets, socket_state'[s] \in {"Bound", "Ready"}
                  PROVE  <<m_socket'[s], s>> \in bound'
        OBVIOUS
    <2>1. CASE Binds(s)
        BY <2>1 DEF Binds
    <2>2. CASE ~Binds(s)
        <3>1. socket_state[s] \in {"Bound", "Ready"} /\ m_socket'[s] = m_socket[s]
            BY <1>3, <2>2 DEF Creates, Listens, Fails, Rests
        <3>2. <<m_socket[s], s>> \in bound
            BY <3>1 DEF SocketsSound
        <3>3. QED
            BY <3>1, <3>2 DEF Pass
    <2>3. QED
        BY <2>1, <2>2
<1>13. \A s \in Sockets : socket_state'[s] = "Ready" /\ s[1] = "Tcp" => m_socket'[s] \in listening'
    <2>. SUFFICES ASSUME NEW s \in Sockets, socket_state'[s] = "Ready", s[1] = "Tcp"
                  PROVE  m_socket'[s] \in listening'
        OBVIOUS
    <2>1. CASE Listens(s)
        BY <2>1 DEF Listens
    <2>2. CASE Rests(s)
        BY <2>2 DEF Rests, SocketsSound, Pass
    <2>3. QED
        BY <1>3, <2>1, <2>2 DEF Creates, Binds, Fails
<1>14. \A b \in bound' : b[1] \in open_fds'
    <2>. SUFFICES ASSUME NEW b \in bound' PROVE b[1] \in open_fds'
        OBVIOUS
    <2>1. CASE b \in bound
        BY <2>1 DEF SocketsSound, Pass
    <2>2. ASSUME NEW s \in Sockets, Binds(s), b = <<m_socket[s], s>>
          PROVE  b[1] \in open_fds'
        BY <1>9, <2>2 DEF Pass
    <2>3. QED
        BY <1>8, <2>1, <2>2
<1>15. \A b, c \in bound' : b[1] = c[1] \/ b[2] = c[2] => b = c
    <2>1. ASSUME NEW b \in bound, NEW s \in Sockets, Binds(s), NEW c, c = <<m_socket[s], s>>
          PROVE  b[1] # c[1] /\ b[2] # c[2]
        <3>1. b = <<b[1], b[2]>> /\ b[2] \in Sockets /\ b[1] \in open_fds
            BY DEF TypeOK, SocketsSound
        <3>2. socket_state[s] = "Created" /\ s \in Owners
            BY <1>9, <2>1 DEF Binds
        <3>3. <<m_socket[s], b[2]>> \notin bound
            BY <3>1, <3>2 DEF SocketsSound
        <3>4. <<b[1], s>> \notin bound
            BY <2>1, <3>1 DEF Binds, AddressInUse
        <3>5. QED
            BY <2>1, <3>1, <3>3, <3>4
    <2>2. ASSUME NEW s \in Sockets, Binds(s), NEW t \in Sockets, Binds(t),
                 m_socket[s] = m_socket[t] \/ s = t
          PROVE  <<m_socket[s], s>> = <<m_socket[t], t>>
        BY <1>9, <2>2 DEF SocketsSound
    <2>3. \A b, c \in bound : b[1] = c[1] \/ b[2] = c[2] => b = c
        BY DEF SocketsSound
    <2>. SUFFICES ASSUME NEW b \in bound', NEW c \in bound', b[1] = c[1] \/ b[2] = c[2]
                  PROVE  b = c
        OBVIOUS
    <2>4. CASE b \in bound /\ c \in bound
        BY <2>3, <2>4
    <2>5. CASE b \in bound /\ c \notin bound
        BY <1>8, <2>1, <2>5
    <2>6. CASE b \notin bound /\ c \in bound
        BY <1>8, <2>1, <2>6
    <2>7. CASE b \notin bound /\ c \notin bound
        <3>1. PICK s \in Sockets : Binds(s) /\ b = <<m_socket[s], s>>
            BY <1>8, <2>7
        <3>2. PICK t \in Sockets : Binds(t) /\ c = <<m_socket[t], t>>
            BY <1>8, <2>7
        <3>3. m_socket[s] = m_socket[t] \/ s = t
            BY <3>1, <3>2
        <3>4. QED
            BY <2>2, <3>1, <3>2, <3>3
    <2>8. QED
        BY <2>4, <2>5, <2>6, <2>7
<1>16. QED
    BY <1>6, <1>7, <1>10, <1>11, <1>12, <1>13, <1>14, <1>15 DEF SocketsSound

\* A handler becomes ready only when every socket it was started for is.
LEMMA UpdateKeepsHandlers ==
    ASSUME AnyOwnerInv, NEW failed \in SUBSET Sockets, UpdateSockets(failed)
    PROVE  HandlersSound' /\ \A p \in Protocols : handler_state'[p].on = handler_state[p].on
PROOF
<1>. DEFINE udp == IF failed \cap Called("Tcp") = {} THEN Called("Udp") ELSE {}
            called(p) == IF p = "Tcp" THEN Called("Tcp") ELSE udp
<1>1. /\ handler_state' = [p \in Protocols |-> HandlerAfter(p, called(p), failed)]
      /\ failed \subseteq {s \in Called("Tcp") \cup udp : HasCall(s)}
      /\ socket_state' = [s \in Sockets |->
            IF s \in failed THEN "Error"
            ELSE IF s \in {t \in Called("Tcp") \cup udp : HasCall(t)} THEN Advanced(s) ELSE socket_state[s]]
    BY DEF UpdateSockets
<1>2. handler_state \in [Protocols -> HandlerStates]
    BY DEF AnyOwnerInv, ServerTypeOK, TypeOK
<1>3. \A p \in Protocols : called(p) = {} \/ called(p) = Called(p)
    BY DEF Protocols
<1>4. \A p \in Protocols : /\ handler_state'[p].on = handler_state[p].on
                           /\ handler_state'[p].phase = "Ready" /\ handler_state'[p] # handler_state[p] =>
                                called(p) # {} /\ \A s \in called(p) : socket_state'[s] = "Ready"
    BY <1>1, <1>2 DEF HandlerAfter, HandlerStates
<1>5. ASSUME NEW s \in Sockets, handler_state'[s[1]].phase = "Ready", s[2] \in handler_state'[s[1]].on
      PROVE  socket_state'[s] = "Ready"
    <2>1. s[1] \in Protocols /\ s[2] \in handler_state[s[1]].on
        BY <1>4, <1>5, Pairs
    <2>2. CASE handler_state'[s[1]] = handler_state[s[1]]
        <3>1. socket_state[s] = "Ready"
            BY <1>5, <2>1, <2>2 DEF AnyOwnerInv, HandlersSound
        <3>2. ~HasCall(s)
            BY <3>1 DEF HasCall
        <3>3. QED
            BY <1>1, <3>1, <3>2
    <2>3. CASE handler_state'[s[1]] # handler_state[s[1]]
        <3>1. called(s[1]) # {} /\ \A t \in called(s[1]) : socket_state'[t] = "Ready"
            BY <1>4, <1>5, <2>1, <2>3
        <3>2. called(s[1]) = Called(s[1])
            BY <1>3, <2>1, <3>1
        <3>3. handler_state[s[1]].phase = "Initializing"
            BY <3>1, <3>2 DEF Called
        <3>4. s \in Called(s[1])
            BY <2>1, <3>3 DEF Called
        <3>5. QED
            BY <3>1, <3>2, <3>4
    <2>4. QED
        BY <2>2, <2>3
<1>6. handler_state'["Tcp"].on = handler_state'["Udp"].on
    BY <1>4, Pairs DEF AnyOwnerInv, HandlersSound
<1>7. QED
    BY <1>4, <1>5, <1>6 DEF HandlersSound

LEMMA UpdateKeeps ==
    ASSUME AnyOwnerInv, NEW failed \in SUBSET Sockets, UpdateSockets(failed)
    PROVE  TypeOK' /\ SocketsSound' /\ HandlersSound'
PROOF
<1>1. TypeOK /\ SocketsSound
    BY DEF AnyOwnerInv, ServerTypeOK
<1>2. TypeOK' /\ \E new : Pass(new)
    BY <1>1, PassOfUpdate
<1>3. SocketsSound'
    BY <1>1, <1>2, PassKeepsSockets
<1>4. QED
    BY <1>2, <1>3, UpdateKeepsHandlers

\* start(): no socket has a descriptor any more that stop() would close.
LEMMA StartKeeps ==
    ASSUME AnyOwnerInv, NEW interfaces \in SUBSET Interfaces, Start(interfaces)
    PROVE  TypeOK' /\ SocketsSound' /\ HandlersSound'
PROOF
<1>1. TypeOK /\ SocketsSound /\ HandlersSound
    BY DEF AnyOwnerInv, ServerTypeOK
<1>2. \A s \in Sockets : socket_state'[s] = "Uninitialized" \/ socket_state'[s] = socket_state[s]
    BY DEF Start
<1>3. \A p \in Protocols : handler_state'[p] = IF interfaces = {} THEN [phase |-> "Error", on |-> Interfaces]
                                                ELSE [phase |-> "Initializing", on |-> interfaces]
    BY DEF Start
<1>4. TypeOK'
    BY <1>1 DEF Start, TypeOK, SocketStates, HandlerStates
<1>5. \A s \in Owners' : s \in Owners /\ s \in Sockets /\ socket_state'[s] = socket_state[s]
    BY <1>2 DEF Start, Owners, HasToClose
<1>6. \A s \in Sockets : socket_state'[s] \in {"Created", "Bound", "Ready"} =>
            socket_state'[s] = socket_state[s] /\ s \in Owners /\ s \in Owners'
    BY <1>1, <1>2 DEF Start, SocketsSound, Owners, HasToClose
<1>7. SocketsSound'
    BY <1>1, <1>5, <1>6 DEF Start, SocketsSound
<1>8. HandlersSound'
    BY <1>3, Pairs DEF HandlersSound
<1>9. QED
    BY <1>4, <1>7, <1>8

\* stop()
LEMMA StopKeeps ==
    ASSUME AnyOwnerInv, Stop
    PROVE  TypeOK' /\ SocketsSound' /\ HandlersSound'
PROOF
<1>1. TypeOK /\ SocketsSound
    BY DEF AnyOwnerInv, ServerTypeOK
<1>2. \A s \in Sockets : socket_state'[s] = "NotStarted"
    BY DEF Stop
<1>3. \A p \in Protocols : handler_state'[p] = NotStarted
    BY DEF Stop
<1>4. TypeOK'
    BY <1>1 DEF Stop, TypeOK, SocketStates, HandlerStates, NotStarted
<1>5. PICK closed : /\ open_fds' = open_fds \ closed
                    /\ bound' = {b \in bound : b[1] \notin closed}
    BY DEF Stop
<1>6. Owners' = {}
    BY <1>2 DEF Owners, HasToClose
<1>7. /\ \A b \in bound' : b[1] \in open_fds'
      /\ \A b, c \in bound' : b[1] = c[1] \/ b[2] = c[2] => b = c
    BY <1>1, <1>5 DEF SocketsSound
<1>8. SocketsSound'
    BY <1>2, <1>6, <1>7 DEF SocketsSound
<1>9. HandlersSound'
    BY <1>3, Pairs DEF HandlersSound, NotStarted
<1>10. QED
    BY <1>4, <1>8, <1>9

-----------------------------------------------------------------------------
(* The server                                                              *)

LEMMA AnyOwnerInit == ServerInit => AnyOwnerInv
PROOF
<1>. SUFFICES ASSUME ServerInit PROVE AnyOwnerInv
    OBVIOUS
<1>1. ServerTypeOK
    BY DEF ServerInit, Init, ServerTypeOK, TypeOK, SocketStates, HandlerStates, NotStarted
<1>2. SocketsSound /\ HandlersSound
    BY Pairs DEF ServerInit, Init, SocketsSound, HandlersSound, Owners, HasToClose, NotStarted
<1>3. QED
    BY <1>1, <1>2 DEF AnyOwnerInv, HasTimer, ServerInit

LEMMA AnyOwnerNext ==
    ASSUME AnyOwnerInv, [ServerNext]_serverVars
    PROVE  AnyOwnerInv'
PROOF
<1>1. UNCHANGED socketVars => TypeOK' /\ SocketsSound' /\ HandlersSound'
    BY DEF socketVars, AnyOwnerInv, ServerTypeOK, TypeOK, SocketsSound, HandlersSound, Owners, HasToClose
<1>2. CASE StartServer
    <2>1. TypeOK' /\ SocketsSound' /\ HandlersSound'
        BY <1>2, StartKeeps DEF StartServer
    <2>2. m_timer_send_25ms' \in Timers /\ m_timer_send_25ms' # 0
        BY <1>2, NetServerAssumption DEF StartServer, AnyOwnerInv, ServerTypeOK, Timers
    <2>3. QED
        BY <1>2, <2>1, <2>2 DEF StartServer, AnyOwnerInv, ServerTypeOK, HasTimer
<1>3. CASE StopServer
    <2>1. TypeOK' /\ SocketsSound' /\ HandlersSound'
        BY <1>1, <1>3, StopKeeps DEF StopServer
    <2>2. QED
        BY <1>3, <2>1 DEF StopServer, AnyOwnerInv, ServerTypeOK, HasTimer
<1>4. CASE UpdateUninitialized
    <2>1. TypeOK' /\ SocketsSound' /\ HandlersSound'
        BY <1>4, UpdateKeeps DEF UpdateUninitialized
    <2>2. QED
        BY <1>4, <2>1 DEF UpdateUninitialized, AnyOwnerInv, ServerTypeOK, HasTimer
<1>5. CASE StartTimer
    <2>1. m_timer_send_25ms \in Timers
        BY <1>5 DEF StartTimer, AnyOwnerInv, ServerTypeOK, HasTimer
    <2>2. QED
        BY <1>1, <1>5 DEF StartTimer, AnyOwnerInv, ServerTypeOK, HasTimer
<1>6. CASE StartTimerFails
    BY <1>1, <1>6 DEF StartTimerFails, AnyOwnerInv, ServerTypeOK, HasTimer
<1>7. CASE UpdateRunning
    <2>1. \A i \in Interfaces : m_socket[<<"Udp", i>>] \in Fds \cup {NoFd}
        BY DEF AnyOwnerInv, ServerTypeOK, TypeOK, Sockets, Protocols
    <2>2. DOMAIN clients_udp' \subseteq Interfaces /\ \A i \in DOMAIN clients_udp' : clients_udp'[i] \in Fds \cup {NoFd}
        BY <1>7, <2>1 DEF UpdateRunning, AnyOwnerInv, ServerTypeOK, HasTimer
    <2>3. QED
        BY <1>1, <1>7, <2>2 DEF UpdateRunning, AnyOwnerInv, ServerTypeOK, HasTimer
<1>8. CASE UNCHANGED serverVars
    BY <1>1, <1>8 DEF serverVars, AnyOwnerInv, ServerTypeOK, HasTimer
<1>9. QED
    BY <1>2, <1>3, <1>4, <1>5, <1>6, <1>7, <1>8 DEF ServerNext, Update, UpdateOther

LEMMA AnyOwnerInvariance == ServerSpec => []AnyOwnerInv
PROOF
    BY AnyOwnerInit, AnyOwnerNext, PTL DEF ServerSpec

\* For any owner, all descriptors and any number of starts, every variable has a
\* value of its kind.
THEOREM ServerTypeCorrect == ServerSpec => []ServerTypeOK
PROOF
<1>1. AnyOwnerInv => ServerTypeOK
    BY DEF AnyOwnerInv
<1>2. QED
    BY <1>1, AnyOwnerInvariance, PTL

\* For any owner, however calls of lwIP fail and starts and stops are mixed, each
\* socket that has a descriptor has an open one, of its own, and lwIP has bound it
\* as far as its state says: stop() (handler.cpp:43) closes nothing else's.
THEOREM SocketsAlwaysSound == ServerSpec => []SocketsSound
PROOF
<1>1. AnyOwnerInv => SocketsSound
    BY DEF AnyOwnerInv
<1>2. QED
    BY <1>1, AnyOwnerInvariance, PTL

\* For any owner, a handler that says it is ready is.
THEOREM ReadyAlwaysSound == ServerSpec => []ReadyIsSound
PROOF
<1>1. AnyOwnerInv => ReadyIsSound
    <2>. SUFFICES ASSUME AnyOwnerInv, IsReady PROVE ReadyIsSound
        BY DEF ReadyIsSound
    <2>1. \A s \in Sockets : s[2] \in handler_state[s[1]].on => socket_state[s] = "Ready"
        BY Pairs DEF AnyOwnerInv, HandlersSound, IsReady
    <2>2. QED
        BY <2>1 DEF AnyOwnerInv, HandlersSound, ReadyIsSound
<1>2. QED
    BY <1>1, AnyOwnerInvariance, PTL

-----------------------------------------------------------------------------
(* The server of Wifi                                                      *)

\* Once the server has run, its addresses are in use, and the sockets of a later
\* start get no further than bind().
HasRunOnce ==
    running_timers # {} =>
        /\ \A s \in Sockets : AddressInUse(s)
        /\ m_state # "Running" => /\ m_state \in {"Uninitialized", "Error"}
                                  /\ \A s \in Sockets : socket_state[s] \notin {"Bound", "Ready"}

OfWifi ==
    /\ m_state = "NotStarted" => running_timers = {}
    /\ m_state # "NotStarted" => \A p \in Protocols : handler_state[p].on = Interfaces
    /\ m_state \in {"SocketsReady", "Running"} => IsReady
    /\ m_state = "Running" => running_timers = {m_timer_send_25ms}
    /\ \A timer, other \in running_timers : timer = other

WifiInv == AnyOwnerInv /\ HasRunOnce /\ OfWifi /\ ClientsUdpOpen

LEMMA ReadySockets ==
    ASSUME AnyOwnerInv, IsReady, \A p \in Protocols : handler_state[p].on = Interfaces
    PROVE  \A s \in Sockets : socket_state[s] = "Ready" /\ m_socket[s] \in open_fds /\ <<m_socket[s], s>> \in bound
PROOF
<1>1. \A s \in Sockets : socket_state[s] = "Ready"
    BY Pairs DEF AnyOwnerInv, HandlersSound, IsReady
<1>2. QED
    BY <1>1 DEF AnyOwnerInv, SocketsSound

LEMMA WifiInit == ServerInit => WifiInv
PROOF
    BY AnyOwnerInit DEF ServerInit, WifiInv, HasRunOnce, OfWifi, ClientsUdpOpen

\* While every address is in use, a pass leaves no socket bound that was not.
LEMMA PassWhenInUse ==
    ASSUME NEW new, Pass(new), \A s \in Sockets : AddressInUse(s),
           \A s \in Sockets : socket_state[s] \notin {"Bound", "Ready"}
    PROVE  \A s \in Sockets : socket_state'[s] \notin {"Bound", "Ready"}
PROOF
    BY DEF Pass, Creates, Binds, Listens, Fails, Rests

LEMMA WifiNext ==
    ASSUME ~AnyOwner, WifiInv, [ServerNext]_serverVars
    PROVE  WifiInv'
PROOF
<1>1. AnyOwnerInv /\ AnyOwnerInv'
    BY AnyOwnerNext DEF WifiInv
<1>2. HasRunOnce /\ OfWifi /\ ClientsUdpOpen
    BY DEF WifiInv
<1>3. bound \subseteq bound' /\ open_fds \subseteq open_fds' =>
            \A s \in Sockets : AddressInUse(s) => AddressInUse(s)'
    BY DEF AddressInUse
<1>4. CASE StartServer
    <2>1. Start(Interfaces) /\ m_state' = "Uninitialized" /\ UNCHANGED <<running_timers, clients_udp>>
        BY <1>4 DEF StartServer
    <2>2. /\ \A s \in Sockets : socket_state'[s] = "Uninitialized"
          /\ \A p \in Protocols : handler_state'[p].on = Interfaces
          /\ UNCHANGED <<m_socket, open_fds, bound>>
        BY <2>1, Pairs DEF Start, Interfaces
    <2>3. HasRunOnce'
        BY <1>2, <2>1, <2>2 DEF HasRunOnce, AddressInUse
    <2>4. OfWifi' /\ ClientsUdpOpen'
        BY <1>2, <2>1, <2>2 DEF OfWifi, ClientsUdpOpen
    <2>5. QED
        BY <1>1, <2>3, <2>4 DEF WifiInv
<1>5. CASE UpdateUninitialized
    <2>1. PICK failed \in SUBSET Sockets :
            /\ UpdateSockets(failed)
            /\ m_state' = IF failed # {} THEN "Error"
                          ELSE IF IsReady' THEN "SocketsReady" ELSE "Uninitialized"
        BY <1>5 DEF UpdateUninitialized
    <2>2. m_state = "Uninitialized" /\ UNCHANGED <<m_timer_send_25ms, running_timers, clients_udp>>
        BY <1>5 DEF UpdateUninitialized
    <2>3. PICK new : Pass(new)
        BY <1>1, <2>1, PassOfUpdate DEF AnyOwnerInv, ServerTypeOK
    <2>4. bound \subseteq bound' /\ open_fds \subseteq open_fds'
        BY <2>3 DEF Pass
    <2>5. \A p \in Protocols : handler_state'[p].on = Interfaces
        BY <1>1, <1>2, <2>1, <2>2, UpdateKeepsHandlers DEF OfWifi
    <2>6. m_state' \in {"Uninitialized", "Error", "SocketsReady"} /\ (m_state' = "SocketsReady" => IsReady')
        BY <2>1
    <2>7. OfWifi'
        BY <1>2, <2>2, <2>5, <2>6 DEF OfWifi
    <2>8. HasRunOnce'
        <3>. SUFFICES ASSUME running_timers # {} PROVE HasRunOnce'
            BY <2>2 DEF HasRunOnce
        <3>1. \A s \in Sockets : AddressInUse(s) /\ socket_state[s] \notin {"Bound", "Ready"}
            BY <1>2, <2>2 DEF HasRunOnce
        <3>2. \A s \in Sockets : AddressInUse(s)' /\ socket_state'[s] \notin {"Bound", "Ready"}
            BY <1>3, <2>3, <2>4, <3>1, PassWhenInUse
        <3>3. ~IsReady'
            <4>. SUFFICES ASSUME IsReady' PROVE FALSE
                OBVIOUS
            <4>1. <<"Tcp", "Ap">> \in Sockets
                BY DEF Sockets, Protocols, Interfaces
            <4>2. socket_state'[<<"Tcp", "Ap">>] = "Ready"
                BY <1>1, <2>5, <4>1, Pairs DEF AnyOwnerInv, HandlersSound, IsReady
            <4>3. QED
                BY <3>2, <4>1, <4>2
        <3>4. QED
            BY <2>6, <3>2, <3>3 DEF HasRunOnce
    <2>9. ClientsUdpOpen'
        BY <1>2, <2>2, <2>4 DEF ClientsUdpOpen
    <2>10. QED
        BY <1>1, <2>7, <2>8, <2>9 DEF WifiInv
<1>6. CASE StartTimer
    <2>1. running_timers = {} /\ IsReady /\ \A p \in Protocols : handler_state[p].on = Interfaces
        BY <1>2, <1>6 DEF StartTimer, HasRunOnce, OfWifi
    <2>2. running_timers' = {m_timer_send_25ms} /\ m_state' = "Running"
          /\ UNCHANGED <<socketVars, m_timer_send_25ms, clients_udp>>
        BY <1>6, <2>1 DEF StartTimer
    <2>3. \A s \in Sockets : AddressInUse(s)
        BY <1>1, <2>1, ReadySockets DEF AddressInUse
    <2>4. HasRunOnce'
        BY <2>2, <2>3 DEF HasRunOnce, AddressInUse, socketVars
    <2>5. OfWifi'
        BY <2>1, <2>2 DEF OfWifi, IsReady, socketVars
    <2>6. ClientsUdpOpen'
        BY <1>2, <2>2 DEF ClientsUdpOpen, socketVars
    <2>7. QED
        BY <1>1, <2>4, <2>5, <2>6 DEF WifiInv
<1>7. CASE StartTimerFails
    <2>1. running_timers = {}
        BY <1>2, <1>7 DEF StartTimerFails, HasRunOnce
    <2>2. QED
        BY <1>1, <1>2, <1>7, <2>1 DEF StartTimerFails, WifiInv, HasRunOnce, OfWifi, ClientsUdpOpen, IsReady, socketVars
<1>8. CASE UpdateRunning
    <2>1. IsReady /\ \A p \in Protocols : handler_state[p].on = Interfaces
        BY <1>2, <1>8 DEF UpdateRunning, OfWifi
    <2>2. \A i \in Interfaces : /\ m_socket[<<"Udp", i>>] \in open_fds
                                /\ <<m_socket[<<"Udp", i>>], <<"Udp", i>>>> \in bound
        BY <1>1, <2>1, ReadySockets DEF Sockets, Protocols
    <2>3. ClientsUdpOpen'
        BY <1>2, <1>8, <2>2 DEF UpdateRunning, ClientsUdpOpen, socketVars
    <2>4. HasRunOnce' /\ OfWifi'
        BY <1>2, <1>8 DEF UpdateRunning, HasRunOnce, OfWifi, AddressInUse, IsReady, socketVars
    <2>5. QED
        BY <1>1, <2>3, <2>4 DEF WifiInv
<1>9. CASE UNCHANGED serverVars
    BY <1>1, <1>2, <1>9 DEF serverVars, socketVars, WifiInv, HasRunOnce, OfWifi, ClientsUdpOpen, AddressInUse, IsReady
<1>10. QED
    BY <1>4, <1>5, <1>6, <1>7, <1>8, <1>9 DEF ServerNext, Update, UpdateOther, StopServer

LEMMA WifiInvariance ==
    ASSUME ~AnyOwner
    PROVE  ServerSpec => []WifiInv
PROOF
<1>1. ASSUME WifiInv, [ServerNext]_serverVars PROVE WifiInv'
    BY <1>1, WifiNext
<1>2. QED
    BY <1>1, WifiInit, PTL DEF ServerSpec

LEMMA WifiInvImplies == WifiInv => RunningIsReady /\ OneTimer /\ ClientsUdpOpen
PROOF
<1>. SUFFICES ASSUME WifiInv PROVE RunningIsReady /\ OneTimer /\ ClientsUdpOpen
    OBVIOUS
<1>1. RunningIsReady
    BY ReadySockets DEF WifiInv, OfWifi, RunningIsReady
<1>2. CASE running_timers = {}
    <2>1. OneTimer
        BY <1>2, FS_EmptySet DEF OneTimer
    <2>2. QED
        BY <1>1, <2>1 DEF WifiInv
<1>3. CASE running_timers # {}
    <2>1. PICK timer \in running_timers : running_timers = {timer}
        BY <1>3 DEF WifiInv, OfWifi
    <2>2. Cardinality(running_timers) = 1
        BY <2>1, FS_Singleton
    <2>3. QED
        BY <1>1, <2>2 DEF OneTimer, WifiInv
<1>4. QED
    BY <1>2, <1>3

\* A server of Wifi that runs has every socket it was started for, and its own
\* timer runs, none of an earlier start.
THEOREM AlwaysRunningIsReady == ~AnyOwner => (ServerSpec => []RunningIsReady)
PROOF
<1>. SUFFICES ASSUME ~AnyOwner PROVE ServerSpec => []RunningIsReady
    OBVIOUS
<1>1. QED
    BY WifiInvImplies, WifiInvariance, PTL

\* The timers of two starts of Wifi's server never run together.
THEOREM AlwaysOneTimer == ~AnyOwner => (ServerSpec => []OneTimer)
PROOF
<1>. SUFFICES ASSUME ~AnyOwner PROVE ServerSpec => []OneTimer
    OBVIOUS
<1>1. QED
    BY WifiInvImplies, WifiInvariance, PTL

\* The UDP descriptors that the clients are given once stay open, and bound to the
\* address of their interface, through every later start of Wifi.
THEOREM ClientsUdpStayOpen == ~AnyOwner => (ServerSpec => []ClientsUdpOpen)
PROOF
<1>. SUFFICES ASSUME ~AnyOwner PROVE ServerSpec => []ClientsUdpOpen
    OBVIOUS
<1>1. QED
    BY WifiInvImplies, WifiInvariance, PTL

-----------------------------------------------------------------------------
(* The refinement                                                          *)

LEMMA LifeInitMaps == ServerInit => Life!LifeInit
PROOF
    BY DEF ServerInit, Life!LifeInit

LEMMA LifeStep ==
    ASSUME ~AnyOwner, WifiInv, [ServerNext]_serverVars
    PROVE  [Life!LifeNext]_<<IF m_state \in {"Uninitialized", "SocketsReady"} THEN "Starting" ELSE m_state,
                             running_timers # {}>>
PROOF
<1>. DEFINE server == IF m_state \in {"Uninitialized", "SocketsReady"} THEN "Starting" ELSE m_state
            has_run == running_timers # {}
<1>1. CASE StartServer
    BY <1>1 DEF StartServer, Life!LifeNext, Life!Start
<1>2. CASE UpdateUninitialized
    BY <1>2 DEF UpdateUninitialized, Life!LifeNext, Life!Fail
<1>3. CASE StartTimer
    <2>1. running_timers = {} /\ m_state = "SocketsReady" /\ m_state' = "Running" /\ running_timers' # {}
        BY <1>3 DEF StartTimer, WifiInv, HasRunOnce
    <2>2. Life!Run
        BY <2>1 DEF Life!Run
    <2>3. QED
        BY <2>2 DEF Life!LifeNext
<1>4. CASE StartTimerFails
    BY <1>4 DEF StartTimerFails, Life!LifeNext, Life!Fail
<1>5. CASE UpdateRunning
    BY <1>5 DEF UpdateRunning
<1>6. CASE UNCHANGED serverVars
    BY <1>6 DEF serverVars
<1>7. QED
    BY <1>1, <1>2, <1>3, <1>4, <1>5, <1>6 DEF ServerNext, Update, UpdateOther, StopServer

\* Wifi's server implements ServerLife: once it has run, a later start can only
\* end in an error, for all descriptors, failures and numbers of starts.
THEOREM ImplementsServerLife == ~AnyOwner => (ServerSpec => IsServerLife)
PROOF
<1>. SUFFICES ASSUME ~AnyOwner PROVE ServerSpec => IsServerLife
    OBVIOUS
<1>1. ASSUME WifiInv, [ServerNext]_serverVars
      PROVE  [Life!LifeNext]_<<IF m_state \in {"Uninitialized", "SocketsReady"} THEN "Starting" ELSE m_state,
                               running_timers # {}>>
    BY <1>1, LifeStep
<1>2. QED
    BY <1>1, LifeInitMaps, WifiInvariance, PTL DEF ServerSpec, IsServerLife, Life!LifeSpec

-----------------------------------------------------------------------------
(* A start comes to an end                                                 *)

Round(tcp, udp) ==
    \A s \in Sockets : socket_state[s] = IF s[1] = "Tcp" THEN tcp ELSE udp

Initializing(p) == handler_state[p].phase = "Initializing"

\* The four sockets of a start advance together, TCP needing one update() more.
LockStep ==
    m_state = "Uninitialized" =>
        /\ Initializing("Tcp")
        /\ \/ Initializing("Udp") /\ (Round("Uninitialized", "Uninitialized") \/ Round("Created", "Created"))
           \/ handler_state["Udp"].phase = "Ready" /\ Round("Bound", "Ready")

\* The updates that a start still needs.
UpdatesLeft ==
    IF m_state = "SocketsReady" THEN 1
    ELSE IF m_state # "Uninitialized" THEN 0
    ELSE CASE socket_state[<<"Tcp", "Ap">>] = "Uninitialized" -> 4
           [] socket_state[<<"Tcp", "Ap">>] = "Created" -> 3
           [] OTHER -> 2

\* A pass without failures: every socket of a handler that is not ready advances.
LEMMA CleanPass ==
    ASSUME TypeOK, UpdateSockets({})
    PROVE  /\ \A s \in Sockets :
                socket_state'[s] = IF s \in Called(s[1]) /\ HasCall(s) THEN Advanced(s) ELSE socket_state[s]
           /\ \A p \in Protocols : handler_state'[p] = HandlerAfter(p, Called(p), {})
PROOF
<1>. DEFINE udp == IF {} \cap Called("Tcp") = {} THEN Called("Udp") ELSE {}
            calls == {s \in Called("Tcp") \cup udp : HasCall(s)}
<1>1. udp = Called("Udp")
    OBVIOUS
<1>2. /\ socket_state' = [s \in Sockets |-> IF s \in {} THEN "Error"
                                            ELSE IF s \in calls THEN Advanced(s) ELSE socket_state[s]]
      /\ handler_state' = [p \in Protocols |-> HandlerAfter(p, IF p = "Tcp" THEN Called("Tcp") ELSE udp, {})]
    BY DEF UpdateSockets
<1>3. \A s \in Sockets : s \in calls <=> s \in Called(s[1]) /\ HasCall(s)
    <2>1. \A s \in Sockets : \A p : s \in Called(p) => s[1] = p
        BY DEF Called
    <2>2. \A s \in Sockets : s[1] \in {"Tcp", "Udp"}
        BY Pairs DEF Protocols
    <2>3. QED
        BY <1>1, <2>1, <2>2
<1>4. \A p \in Protocols : handler_state'[p] = HandlerAfter(p, Called(p), {})
    BY <1>1, <1>2 DEF Protocols
<1>5. QED
    BY <1>2, <1>3, <1>4

\* Which leads from one round to the next.
LEMMA RoundAfterRound ==
    ASSUME TypeOK, UpdateSockets({}), Initializing("Tcp"),
           \A p \in Protocols : handler_state[p].on = Interfaces
    PROVE  /\ Initializing("Udp") /\ Round("Uninitialized", "Uninitialized") =>
                Initializing("Tcp")' /\ Initializing("Udp")' /\ Round("Created", "Created")'
           /\ Initializing("Udp") /\ Round("Created", "Created") =>
                Initializing("Tcp")' /\ handler_state'["Udp"].phase = "Ready" /\ Round("Bound", "Ready")'
           /\ handler_state["Udp"].phase = "Ready" /\ Round("Bound", "Ready") => IsReady'
PROOF
<1>1. /\ \A s \in Sockets :
            socket_state'[s] = IF s \in Called(s[1]) /\ HasCall(s) THEN Advanced(s) ELSE socket_state[s]
      /\ \A p \in Protocols : handler_state'[p] = HandlerAfter(p, Called(p), {})
    BY CleanPass
<1>2. \A s \in Sockets : s[1] \in {"Tcp", "Udp"} /\ (s \in Called(s[1]) <=> Initializing(s[1]))
    BY Pairs DEF Called, Initializing, Protocols
<1>3. \A p \in Protocols : <<p, "Ap">> \in Sockets /\ <<p, "Ap">>[1] = p
    BY DEF Sockets, Interfaces
<1>4. \A p \in Protocols : \A s \in Called(p) : s \in Sockets /\ s[1] = p
    BY DEF Called
<1>5. handler_state \in [Protocols -> HandlerStates]
    BY DEF TypeOK
\* Where a handler goes, by the state that its sockets have after the pass.
<1>6. ASSUME NEW p \in Protocols, NEW state, \A s \in Sockets : s[1] = p => socket_state'[s] = state
      PROVE  handler_state'[p].phase = IF Initializing(p) /\ state = "Ready" THEN "Ready" ELSE handler_state[p].phase
    <2>1. Initializing(p) <=> Called(p) # {}
        BY <1>2, <1>3, <1>4
    <2>2. Initializing(p) => ((\A s \in Called(p) : socket_state'[s] = "Ready") <=> state = "Ready")
        BY <1>4, <1>6, <2>1
    <2>3. handler_state'[p] = IF Initializing(p) /\ state = "Ready" THEN [handler_state[p] EXCEPT !.phase = "Ready"]
                              ELSE handler_state[p]
        BY <1>1, <2>1, <2>2 DEF HandlerAfter
    <2>4. QED
        BY <1>5, <2>3 DEF HandlerStates
<1>7. "Tcp" \in Protocols /\ "Udp" \in Protocols
    BY DEF Protocols
<1>8. ASSUME Initializing("Udp"), Round("Uninitialized", "Uninitialized")
      PROVE  Initializing("Tcp")' /\ Initializing("Udp")' /\ Round("Created", "Created")'
    <2>1. \A s \in Sockets : socket_state'[s] = "Created"
        BY <1>1, <1>2, <1>8 DEF Round, HasCall, Advanced
    <2>2. handler_state'["Tcp"].phase = "Initializing" /\ handler_state'["Udp"].phase = "Initializing"
        BY <1>6, <1>7, <1>8, <2>1 DEF Initializing
    <2>3. QED
        BY <2>1, <2>2 DEF Initializing, Round
<1>9. ASSUME Initializing("Udp"), Round("Created", "Created")
      PROVE  Initializing("Tcp")' /\ handler_state'["Udp"].phase = "Ready" /\ Round("Bound", "Ready")'
    <2>1. \A s \in Sockets : socket_state'[s] = IF s[1] = "Tcp" THEN "Bound" ELSE "Ready"
        BY <1>1, <1>2, <1>9 DEF Round, HasCall, Advanced
    <2>2. handler_state'["Tcp"].phase = "Initializing" /\ handler_state'["Udp"].phase = "Ready"
        BY <1>6, <1>7, <1>9, <2>1 DEF Initializing
    <2>3. QED
        BY <2>1, <2>2 DEF Initializing, Round
<1>10. ASSUME handler_state["Udp"].phase = "Ready", Round("Bound", "Ready")
       PROVE  IsReady'
    <2>1. \A s \in Sockets : socket_state'[s] = "Ready"
        BY <1>1, <1>2, <1>10 DEF Round, HasCall, Advanced, Initializing
    <2>2. \A p \in Protocols : handler_state'[p].phase = IF Initializing(p) THEN "Ready" ELSE handler_state[p].phase
        BY <1>6, <2>1
    <2>3. QED
        BY <1>10, <2>2 DEF IsReady, Protocols, Initializing
<1>11. QED
    BY <1>8, <1>9, <1>10

LEMMA LockStepNext ==
    ASSUME ~AnyOwner, WifiInv, LockStep, [ServerNext]_serverVars
    PROVE  /\ LockStep'
           /\ Update /\ UpdatesLeft > 0 => UpdatesLeft' \in {UpdatesLeft - 1, 0}
PROOF
<1>1. <<"Tcp", "Ap">> \in Sockets
    BY DEF Sockets, Protocols, Interfaces
<1>2. ASSUME StartServer PROVE LockStep'
    <2>1. Start(Interfaces) /\ m_state' = "Uninitialized"
        BY <1>2 DEF StartServer
    <2>2. QED
        BY <2>1, Pairs DEF Start, LockStep, Round, Initializing, Interfaces
<1>3. CASE UpdateUninitialized
    <2>1. PICK failed \in SUBSET Sockets :
            /\ UpdateSockets(failed)
            /\ m_state' = IF failed # {} THEN "Error"
                          ELSE IF IsReady' THEN "SocketsReady" ELSE "Uninitialized"
        BY <1>3 DEF UpdateUninitialized
    <2>2. m_state = "Uninitialized" /\ TypeOK /\ \A p \in Protocols : handler_state[p].on = Interfaces
        BY <1>3 DEF UpdateUninitialized, WifiInv, OfWifi, AnyOwnerInv, ServerTypeOK
    <2>3. CASE failed # {}
        BY <2>1, <2>3 DEF LockStep, UpdatesLeft
    <2>4. CASE failed = {}
        <3>1. UpdateSockets({}) /\ m_state' = IF IsReady' THEN "SocketsReady" ELSE "Uninitialized"
            BY <2>1, <2>4
        <3>2. CASE Initializing("Udp") /\ Round("Uninitialized", "Uninitialized")
            <4>1. Initializing("Tcp")' /\ Initializing("Udp")' /\ Round("Created", "Created")'
                BY <2>2, <3>1, <3>2, RoundAfterRound DEF LockStep
            <4>2. m_state' = "Uninitialized"
                BY <3>1, <4>1, Pairs DEF IsReady, Initializing
            <4>3. QED
                BY <1>1, <2>2, <3>2, <4>1, <4>2 DEF LockStep, UpdatesLeft, Round
        <3>3. CASE Initializing("Udp") /\ Round("Created", "Created")
            <4>1. Initializing("Tcp")' /\ handler_state'["Udp"].phase = "Ready" /\ Round("Bound", "Ready")'
                BY <2>2, <3>1, <3>3, RoundAfterRound DEF LockStep
            <4>2. m_state' = "Uninitialized"
                BY <3>1, <4>1, Pairs DEF IsReady, Initializing
            <4>3. QED
                BY <1>1, <2>2, <3>3, <4>1, <4>2 DEF LockStep, UpdatesLeft, Round
        <3>4. CASE handler_state["Udp"].phase = "Ready" /\ Round("Bound", "Ready")
            <4>1. IsReady' /\ m_state' = "SocketsReady"
                BY <2>2, <3>1, <3>4, RoundAfterRound DEF LockStep
            <4>2. QED
                BY <1>1, <2>2, <3>4, <4>1 DEF LockStep, UpdatesLeft, Round
        <3>5. QED
            BY <2>2, <3>2, <3>3, <3>4 DEF LockStep
    <2>5. QED
        BY <2>3, <2>4
<1>4. CASE StartTimer \/ StartTimerFails
    BY <1>4 DEF StartTimer, StartTimerFails, LockStep, UpdatesLeft
<1>5. CASE UpdateRunning \/ UpdateOther
    BY <1>5 DEF UpdateRunning, UpdateOther, serverVars, LockStep, UpdatesLeft
<1>6. ASSUME UNCHANGED serverVars PROVE LockStep'
    BY <1>6 DEF serverVars, socketVars, LockStep, Round, Initializing
<1>7. CASE Update
    BY <1>3, <1>4, <1>5, <1>7 DEF Update
<1>8. CASE ~Update
    BY <1>2, <1>6, <1>8 DEF ServerNext, StopServer
<1>9. QED
    BY <1>7, <1>8

LEMMA LockStepInvariance ==
    ASSUME ~AnyOwner
    PROVE  ServerSpec => []LockStep
PROOF
<1>1. ServerInit => LockStep
    BY DEF ServerInit, LockStep
<1>2. ASSUME WifiInv, LockStep, [ServerNext]_serverVars PROVE LockStep'
    BY <1>2, LockStepNext
<1>3. QED
    BY <1>1, <1>2, WifiInvariance, PTL DEF ServerSpec

\* A start of Wifi's server comes to its end within four calls of update(), whatever
\* fails: three for the sockets (server.cpp:51), which advance in lock step, and one
\* for the timer; a call that fails ends it at once.
THEOREM StartEndsInFourUpdates ==
    ~AnyOwner =>
        (ServerSpec => /\ [](UpdatesLeft \in 0 .. 4)
                       /\ [](UpdatesLeft = 0 => m_state # "Uninitialized")
                       /\ [][Update /\ UpdatesLeft > 0 => UpdatesLeft' \in {UpdatesLeft - 1, 0}]_serverVars)
PROOF
<1>. SUFFICES ASSUME ~AnyOwner
              PROVE  ServerSpec => /\ [](UpdatesLeft \in 0 .. 4)
                                   /\ [](UpdatesLeft = 0 => m_state # "Uninitialized")
                                   /\ [][Update /\ UpdatesLeft > 0 => UpdatesLeft' \in {UpdatesLeft - 1, 0}]_serverVars
    OBVIOUS
<1>1. UpdatesLeft \in 0 .. 4 /\ (UpdatesLeft = 0 => m_state # "Uninitialized")
    BY DEF UpdatesLeft
<1>2. ASSUME WifiInv, LockStep, [ServerNext]_serverVars
      PROVE  [Update /\ UpdatesLeft > 0 => UpdatesLeft' \in {UpdatesLeft - 1, 0}]_serverVars
    BY <1>2, LockStepNext
<1>3. QED
    BY <1>1, <1>2, LockStepInvariance, WifiInvariance, PTL DEF ServerSpec

=============================================================================
