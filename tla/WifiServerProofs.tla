-------------------------- MODULE WifiServerProofs --------------------------
(***************************************************************************)
(* Proofs about the program with the server itself: it implements          *)
(* MainProgram, and what NetServerProofs shows of a server that Wifi owns  *)
(* is true of the one in it, through every restart of the processor.       *)
(***************************************************************************)
EXTENDS WifiServer, NetServerProofs

\* What a step of the program is for the server.
LEMMA ServerSteps ==
    ASSUME [ProgramNext]_allVars
    PROVE  [ServerNext]_serverVars \/ Restart
PROOF
<1>1. CASE ServerCall
    BY <1>1 DEF ServerCall, Main!UpdateBy, CallStart, CallUpdate, ServerNext
<1>2. CASE UNCHANGED serverVars
    BY <1>2
<1>3. QED
    BY <1>1, <1>2 DEF ProgramNext, MainTask, EventLoop, DriverTask, allVars

LEMMA RestartIsInit == Restart => ServerInit'
PROOF
    BY DEF Restart, ServerInit, Init

LEMMA InitPrimed == ServerInit' => WifiInv' /\ LockStep'
PROOF
<1>1. ServerInit => WifiInv /\ LockStep
    BY WifiInit DEF ServerInit, LockStep
<1>2. QED
    BY <1>1, PTL

LEMMA ProgramInvNext ==
    ASSUME ~AnyOwner, WifiInv, LockStep, [ProgramNext]_allVars
    PROVE  WifiInv' /\ LockStep'
PROOF
<1>1. CASE [ServerNext]_serverVars
    BY <1>1, WifiNext, LockStepNext
<1>2. CASE Restart
    BY <1>2, RestartIsInit, InitPrimed
<1>3. QED
    BY <1>1, <1>2, ServerSteps

LEMMA ProgramInvariance ==
    ASSUME ~AnyOwner
    PROVE  ProgramSpec => [](WifiInv /\ LockStep)
PROOF
<1>1. ProgramInit => WifiInv /\ LockStep
    BY WifiInit DEF ProgramInit, ServerInit, LockStep
<1>2. WifiInv /\ LockStep /\ [ProgramNext]_allVars => WifiInv' /\ LockStep'
    BY ProgramInvNext
<1>3. QED
    BY <1>1, <1>2, PTL DEF ProgramSpec

\* In the program, through every start and restart: a server that runs has every
\* socket and its own timer, no timer of another start runs, and the descriptors of
\* the clients are good.
THEOREM ServerIsSound == ~AnyOwner => (ProgramSpec => [](RunningIsReady /\ OneTimer /\ ClientsUdpOpen))
PROOF
<1>. SUFFICES ASSUME ~AnyOwner PROVE ProgramSpec => [](RunningIsReady /\ OneTimer /\ ClientsUdpOpen)
    OBVIOUS
<1>1. QED
    BY WifiInvImplies, ProgramInvariance, PTL

-----------------------------------------------------------------------------
(* The refinement                                                          *)

Server == IF m_state \in {"Uninitialized", "SocketsReady"} THEN "Starting" ELSE m_state
HasRun == running_timers # {}

LEMMA CallStartMaps ==
    ASSUME Main!UpdateBy(CallStart)
    PROVE  Main!Next
PROOF
<1>1. CallStart /\ main_state = "Running" /\ UNCHANGED event_loop
      /\ main_state' = IF pc' = "idle" /\ result' = "Err" THEN "Error" ELSE "Running"
    BY DEF Main!UpdateBy
<1>2. m_state' = "Uninitialized" /\ running_timers' = running_timers
    BY <1>1 DEF CallStart, StartServer
<1>3. Main!StartServer
    BY <1>1, <1>2 DEF CallStart, Main!StartServer, Main!Life!Start, Main!evVars
<1>4. QED
    BY <1>1, <1>3 DEF Main!Next, Main!MainTask, Main!Update, Main!UpdateBy, Main!WifiUpdate

LEMMA CallUpdateMaps ==
    ASSUME WifiInv, Main!UpdateBy(CallUpdate)
    PROVE  Main!Next
PROOF
<1>1. CallUpdate /\ main_state = "Running" /\ UNCHANGED event_loop
      /\ main_state' = IF pc' = "idle" /\ result' = "Err" THEN "Error" ELSE "Running"
    BY DEF Main!UpdateBy
<1>2. \/ m_state' = "Error" /\ m_state \in {"Uninitialized", "SocketsReady"} /\ running_timers' = running_timers
      \/ m_state' # "Error" /\ Server' = Server /\ HasRun' = HasRun
      \/ m_state = "Error" /\ Server' = Server /\ HasRun' = HasRun
      \/ m_state = "SocketsReady" /\ m_state' = "Running" /\ ~HasRun /\ HasRun'
    <2>1. CASE UpdateUninitialized
        BY <2>1 DEF UpdateUninitialized, Server, HasRun
    <2>2. CASE StartTimer
        BY <2>2 DEF StartTimer, Server, HasRun, WifiInv, HasRunOnce
    <2>3. CASE StartTimerFails
        BY <2>3 DEF StartTimerFails
    <2>4. CASE UpdateRunning \/ UpdateOther
        BY <2>4 DEF UpdateRunning, UpdateOther, serverVars, Server, HasRun
    <2>5. QED
        BY <1>1, <2>1, <2>2, <2>3, <2>4 DEF CallUpdate, Update
<1>3. Main!UpdateServer \/ Main!UpdateServerFails
    BY <1>1, <1>2 DEF CallUpdate, Server, HasRun, Main!UpdateServer, Main!UpdateServerFails,
        Main!Life!Run, Main!Life!Fail, Main!ServerUnchanged, Main!evVars
<1>4. QED
    BY <1>1, <1>3 DEF Main!Next, Main!MainTask, Main!Update, Main!UpdateBy, Main!WifiUpdate

LEMMA MainStep ==
    ASSUME WifiInv, [ProgramNext]_allVars
    PROVE  [Main!Next]_(Main!vars)
PROOF
<1>1. CASE ServerCall
    BY <1>1, CallStartMaps, CallUpdateMaps DEF ServerCall
<1>2. CASE OtherStep
    BY <1>2 DEF OtherStep, Main!Next, Main!MainTask, Main!Update, Main!UpdateBy, Main!WifiUpdate
<1>3. CASE Main!EventLoop \/ Main!DriverTask
    BY <1>3 DEF Main!Next
<1>4. CASE Restart
    BY <1>4 DEF Restart, Main!Next
<1>5. CASE UNCHANGED allVars
    BY <1>5 DEF allVars, serverVars, programVars, Main!vars, Main!wifiVars, Main!evVars, Main!mainVars
<1>6. QED
    BY <1>1, <1>2, <1>3, <1>4, <1>5 DEF ProgramNext, MainTask, EventLoop, DriverTask

\* The program with the server, with all descriptors and failures of lwIP, implements
\* MainProgram: ServerLife is all that Wifi needs to know of the server.
THEOREM ImplementsMainProgram == ~AnyOwner => (ProgramSpec => IsMainProgram)
PROOF
<1>. SUFFICES ASSUME ~AnyOwner PROVE ProgramSpec => IsMainProgram
    OBVIOUS
<1>1. ProgramInit => Main!MainInit
    BY DEF ProgramInit
<1>2. WifiInv /\ [ProgramNext]_allVars => [Main!Next]_(Main!vars)
    BY MainStep
<1>3. QED
    BY <1>1, <1>2, ProgramInvariance, PTL DEF ProgramSpec, IsMainProgram, Main!Spec

-----------------------------------------------------------------------------
(* What SteadyAddressGivesServer rests on                                  *)

\* A start that an event interrupts (wifi.cpp:304) is never set back, unless it is
\* made again; and every call of update() that it gets, of four at most, brings it
\* nearer to Running or Error.
THEOREM StartsGoOn ==
    ~AnyOwner =>
        (ProgramSpec =>
            /\ [][UpdatesLeft' > UpdatesLeft => Main!UpdateBy(CallStart)]_allVars
            /\ [][Main!UpdateBy(CallUpdate) /\ UpdatesLeft > 0 => UpdatesLeft' \in {UpdatesLeft - 1, 0}]_allVars)
PROOF
<1>. SUFFICES ASSUME ~AnyOwner
              PROVE  ProgramSpec =>
                        /\ [][UpdatesLeft' > UpdatesLeft => Main!UpdateBy(CallStart)]_allVars
                        /\ [][Main!UpdateBy(CallUpdate) /\ UpdatesLeft > 0 => UpdatesLeft' \in {UpdatesLeft - 1, 0}]_allVars
    OBVIOUS
<1>1. ASSUME WifiInv, LockStep, [ProgramNext]_allVars
      PROVE  /\ UpdatesLeft' > UpdatesLeft => Main!UpdateBy(CallStart)
             /\ Main!UpdateBy(CallUpdate) /\ UpdatesLeft > 0 => UpdatesLeft' \in {UpdatesLeft - 1, 0}
    <2>1. UpdatesLeft \in {0, 1, 2, 3, 4} /\ UpdatesLeft' \in {0, 1, 2, 3, 4}
        BY DEF UpdatesLeft
    <2>2. ASSUME Update
          PROVE  IF UpdatesLeft > 0 THEN UpdatesLeft' \in {UpdatesLeft - 1, 0} ELSE UpdatesLeft' = 0
        <3>1. UpdatesLeft > 0 => UpdatesLeft' \in {UpdatesLeft - 1, 0}
            BY <1>1, <2>2, LockStepNext DEF ServerNext
        <3>2. UpdatesLeft = 0 => UpdatesLeft' = 0
            BY <2>2 DEF UpdatesLeft, Update, UpdateUninitialized, StartTimer, StartTimerFails, UpdateRunning,
                UpdateOther, serverVars
        <3>3. QED
            BY <2>1, <3>1, <3>2
    <2>3. Main!UpdateBy(CallUpdate) => Update
        BY DEF Main!UpdateBy, CallUpdate
    <2>4. CASE UNCHANGED serverVars
        <3>1. UpdatesLeft' = UpdatesLeft
            BY <2>4 DEF serverVars, socketVars, UpdatesLeft
        <3>2. QED
            BY <2>1, <2>2, <2>3, <3>1
    <2>5. CASE Restart
        <3>1. UpdatesLeft' = 0
            BY <2>5 DEF Restart, UpdatesLeft
        <3>2. QED
            BY <2>1, <2>2, <2>3, <3>1
    <2>6. CASE ServerCall
        BY <2>1, <2>2, <2>3, <2>6 DEF ServerCall
    <2>7. QED
        BY <1>1, <2>4, <2>5, <2>6 DEF ProgramNext, MainTask, EventLoop, DriverTask, allVars
<1>2. QED
    BY <1>1, ProgramInvariance, PTL DEF ProgramSpec

=============================================================================
