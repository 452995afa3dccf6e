# esp-bot: a verification project

TLA+ models of the firmware in `src/`, the TLC runs that check them on small
instances, and TLAPS proofs of what holds for every value of the constants.
The firmware runs on an ESP32: it joins a Wi-Fi network as a station, opens an
access point of its own, serves TCP clients on both, and sends them status
messages and camera pictures by UDP. One client at a time, the administrator,
may give commands.

## The system

Three tasks run the code, and lwIP, the Wi-Fi driver and the peers run beside
them.

| task | code | what it touches |
|---|---|---|
| main | `MainProgram::run()` -> `Wifi::update()` -> `NetServer::update()` -> `Clients::update()`, each tick | everything |
| event loop (ESP-IDF) | `EvHandler::handle()` | `WifiStateHandler`, `esp_wifi_connect()`, the interface |
| esp_timer (ESP-IDF) | `NetServer::tryToSendMsg25ms()`, `Camera::takePic100ms()` | `m_pending_status_data`, the picture |

### Inventory

| component | state | operations | interacts with | what makes it correct | module |
|---|---|---|---|---|---|
| `Clients`, `Client` (`clients/`) | array of clients, number in use, index of the client in control, three queues, UDP descriptors | add, delete with a shift, log in, log out, send, read, in one loop over the array | called by `NetServer`; peers send, close and fail at any time | every descriptor is owned once; sessions are not mixed up by the shift; control has one holder and goes only when the holder lets go; no client starves | `Clients`, abstract: `Sessions` |
| `CircularBuffer` (`tools/buffer`) | ring, head, tail, count, mutex | `push()`, `get()`, unlocked `isEmpty()` | timer task pushes, main task takes | a bounded FIFO queue under every interleaving; check-then-get works | `CircularBuffer`, abstract: `BoundedQueue` |
| `NetServer`, state Running (`server/server`) | the stages of a pass | accept, pass on a status, update the clients, take a command | `Clients`, timer task | the queues between the stages never refuse anything | `RunningServer` |
| `NetServer`, life cycle | server state, timer, descriptors handed to clients | `start()`, `stop()`, `update()` | `SocketsHandler`, `esp_timer`, `Wifi` | a start ends in Running or Error; one timer; handed-out descriptors stay good | `NetServer`, abstract: `ServerLife` |
| `SocketsHandler` (`server/handler`) | four sockets, two handlers | `start()`, `stop()`, `update()` | lwIP | sockets, handlers and lwIP agree | `SocketsHandler` |
| `EvHandler`, `WifiStateHandler` (`wifi/`) | Wi-Fi state, retries | one per event | driver, event loop, main task | a disconnection is retried, once | `EvHandler` |
| `Wifi` | none of its own beyond the state above | `init()`, `connect()`, `startServer()`, `update()` | event task through the state, `NetServer` | check and set of the state do not lose an event | `Wifi` |
| `MainProgram` (`core/`) | main state | `setup()`, `run()`, `update()` | all | an error ends it, and only an error | `MainProgram` |
| `Camera`, `CamPicture` (`cam/`) | the picture, its frames, its state | take, cut, next frame, processed | timer task, main task, `Clients` | a picture is not changed while it is sent; every client gets all of it, in order; it makes room for the next | `Camera`, abstract: `PictureStream` |
| `Client`, its stream (`clients/client.h`) | state, `m_bytes_buffer` | connect, read, close | TCP, `Clients::update()` | a frame has no bytes of an earlier read; no login is pieced together | `Connection` |
| frames, login (`server/frame.h`, `login.h`) | none | set and read headers, parse, compare | `Clients`, `CamPicture` | what is compared is what was received | `Frames` |

What is hard here: the main task and the event task share a state each of them
checks and sets without holding the mutex across both; a client can fail in the
middle of its turn, while a loop runs over an array that a deletion shifts; the
server is started again, over its own sockets, whenever the station gets an
address; the timer's task feeds a queue whose count is read without the mutex.
`PROJECT.json` lists every hazard at its line, with the properties that cover
it or the reason why none does.

## The modules

    MainProgram -> Wifi -> EvHandler            Sessions  <= Clients <- RunningServer
         ^          |                           BoundedQueue <= CircularBuffer
         |          +-> ServerLife <= NetServer -> SocketsHandler
         +------- <= WifiServer ----------^

    PictureStream <= Camera -> Sessions         Frames <- Connection => Sessions

`->` is EXTENDS or INSTANCE, `A <= B` says that B implements A (an INSTANCE with
a refinement mapping, checked as a property); that `Connection` implements a single
session of `Sessions`, and a `NetServer` on its own `ServerLife`, is proved only.

**Clients.** The variables have the names of the members. `pc`, `client_idx`,
`client_state`, `opt_msg`, `opt_status_data` are the locals of `update()`, which
is split where it calls a socket: at the head of the loop, at the status
message, at the TCP message and at the read. Each call has every outcome the
code distinguishes (taken, would block, failed). A frame is what the code tells
apart: a right login of one of two kinds, a logout, a command, or something that
changes nothing. The queues of frames are lengths, as their contents do not
matter to any property. `deleteClient()` copies slot `nb`, and for a full list
reads past the array: `OutOfBounds` is what it can find there. The proofs
assume of it only that its descriptor is not one lwIP handed out.

**Frames** has the bytes: a buffer is a function from offsets to bytes, and the
operators are those of `ServerFrame`, `AuthFrameData` and `Login` that a client's
request goes through. `check()` compares with what is behind the frame if the
frame has no '\0'; what is there is not known, so its outcome is a parameter
(`nul_behind`).

**Connection** is one slot of the list with its TCP stream. `Clients` supposes that
each `read()` returns a frame; TCP only keeps the bytes in order, and
`tryToRecvTcpMsg()` takes whatever `read()` returned, from one byte to a full
buffer, for one frame. So `Read` chooses how many bytes have arrived, and
`Handle` does with the frame what the turn of the client does. A client connects
with the buffer its slot had before: `connect()` does not clear it, and for a
full list `deleteClient()` has filled it from past the array (`OutOfBounds`).
`piece`, what this read returned, is not in the code; the properties speak of it.
The firmware has no defence against a frame that TCP cuts: its parts are handled
as frames of their own, so a login is lost, but never completed from two reads.
That makes the choice of outcomes in `Clients` (a right login, a wrong one, a
command) one of its readings, and not an assumption on TCP.

**RunningServer** puts the calls of the owner in the order of
`NetServer::update()`, with the timer's callback between any two steps. What is
proved of `Clients` for any owner holds here because `ServerSpec => Spec`
(theorem `ServerUsesClients`).

**CircularBuffer** has one step per access to a shared member, and a `++` or
`--` is two: what the mutex protects is not assumed, it is the invariant
`MutexSound`.

**SocketsHandler** keeps the state machine of each socket; the two TCP and UDP
handlers, alike in the code, are one function. lwIP gives the first free
descriptor, lets any call fail, and refuses to bind an address that another open
descriptor is bound to, since no socket sets SO_REUSEADDR. The two branches of
the handlers behind an `||` that already covers them (handler.cpp:281, :289) can
never be taken and have no counterpart.

**NetServer** adds the server's states, the timers and the UDP descriptors that
the clients are given once. `Wifi` starts it for both interfaces and never stops
it; with `AnyOwner` an owner may also call `stop()`, and `start()` for either
interface or none.

**EvHandler, Wifi, MainProgram** are one specification in three layers. Each
`getState()` and `changeState()` of the main task is a step, so that the event
task can act between any two. The driver's station is `"busy"` if
`esp_wifi_connect()` was called on a station that was not idle. `setStaIp()` may
fail in each of its calls: the address then comes from DHCP after all, or not at
all, or (`SetDnsFails`) ESP_ERROR_CHECK restarts the processor, and every
variable has its first value again.

**WifiServer** puts the two together: the program of `MainProgram`, in which each
call of `m_server.start()` and `m_server.update()` is the step of `NetServer`, down
to lwIP. It is the other way to read `ServerLife`: not as a promise that
`MainProgram` supposes and `NetServer` keeps, but as what is left of the real server
when one looks at it from Wi-Fi. Both say `m_state`; the server keeps the name, and
that of Wi-Fi is `wifi_state`.

**Camera** has the timer's `takePic100ms()` and the main task's `updateCam()`, one
step per access to what they share. They share `m_state` without a mutex or an
atomic: the calls between the accesses (memcpy, sendto) keep the compiler from
reordering them, and the ESP32 executes in order. A frame is its header and which bytes of
which picture it has. The list of clients changes only between two
`updateCam()`, since the same task does both; it changes by the steps of
`Sessions`, which `Clients` is proved to implement, so that the pictures are
checked against every list the server can have, without its array. `sent` is
not in the code: it is the last message lwIP accepted for each client, which is
what `PictureStream` speaks of. The driver may return no picture; `update()`
then uses a null pointer, and everything restarts (`TakeNull`).

Definitions whose comment begins with "Mutant" are no part of a specification:
each is what a mapped definition would be with a plausible error, and every
property that a run checks is violated by one of them.

## The runs

| run | bounds | states | shows |
|---|---|---|---|
| clients | 2 slots, 3 descriptors, queues of 1 | 124,800 | the list is sound, control has one holder, the list implements `Sessions`; every client is read again, or is gone |
| buffer | capacity 3, 2 elements, 2 producers | 22,612 | the buffer implements `BoundedQueue` |
| running_server | 3 slots, 4 descriptors, queues of 2 | 74,569 | the queues of a pass never refuse; the list is sound |
| connection | frames of 11 bytes, logins of 5 and 6 characters, 3 frames a connection of 5 kinds | 135,759 | a frame has no bytes of an earlier read, a login counts only in one piece |
| server_any_owner | 6 descriptors, 3 starts for any interfaces, stop() | 31,896 | sockets, handlers and lwIP agree, whoever owns the server |
| camera | frames of 1020 bytes, 3 of them, pictures of 1, 1020, 2041 and 3061 bytes, 2 pictures, 2 clients | 60,881 | a picture is whole and not changed while it is sent, every client in the list gets it in order, `Camera` implements `PictureStream` |
| main_program | 2 retries, 4 queued events, static address | 34,283 | attempts to connect do not collide; as long as the station has its address, the server is updated or the program has ended |
| wifi_server | 8 descriptors, 2 starts, 1 retry, 3 queued events, static address | 152,606 | a running server has its sockets and its timer, the clients' descriptors stay good, whatever the station and lwIP do; a steady address leads to a running server or the end; the program with its server implements `MainProgram` |

The bounds. Three slots (running_server) are the least with which a deletion at
the front, in the middle and at the end of a list are three different things; two
(clients, where liveness forbids symmetry) are the least with which one client
slides into the slot of another, and what the run says of safety is proved for
any number. One descriptor more than slots lets one be used again at once. In
the frames of 11 bytes the visitor's login leaves room for its '\0' and the
administrator's fills the frame; three frames let the second be cut, with what is
left of it joined to the third, and let a client follow another in the slot. Queues of two can hold more than the
one element that the code relies on. A buffer of three wraps between two
elements. Eight descriptors are what two starts use at most (six: a second start may find too
few). Two starts as Wi-Fi makes them are enough for one from any state the first
can be left in; three, with `stop()`, for one from Error after one from Running. Where no start
is left, wifi_server goes no further, and `SteadyAddressGivesServer` asks nothing more. The
picture lengths are a frame that is not full, one that is, a third frame with one
byte, and one byte more than three frames hold; two pictures are one and its
successor, and a restart begins again with the first. Two
retries let one attempt fail and the next succeed or not, and four queued events are
more than the driver ever has outstanding while the main task is in one update.

The fairness. `Clients`: `update()` is called every tick, and no
call in it blocks (the sockets are non-blocking, handler.cpp:10), as long as the
Wi-Fi state is NetServerRunning: while the station is connecting again, nothing
calls it (wifi.cpp:304), and what `EveryClientRead` says of the clients waits for
that. `MainProgram` and `WifiServer`:
the main task goes on, and the event loop gives every event to the handler;
`AddressIsServed` and `SteadyAddressGivesServer` also suppose that the driver is slower than `connect()`, which sets Connecting
after it has told the driver (wifi.cpp:209) and would overwrite what the events of
a connection have set by then. `Camera`: the main
task is scheduled, and `sendto()` to a client, tried again and again, succeeds
some time, as lwIP's buffers drain; `EveryPictureSent` also supposes that all
clients in the list are logged in, because one that is not holds up every
picture for as long as it stays. Nothing is
assumed of the driver, the interface or the peers.

### Where the code does not do what it says

Four runs expect a violation: what a comment, a message or the documentation says, against what
the code does.

* **only_holder** (clients.h:12): `update()`
  copies the state of a client before it sends it a status message, and goes on
  with the copy when that failed and the client was deleted. The next client,
  which has slid into the slot, is handled with the state of the deleted one. A
  client without control can give a command; and if a visitor is deleted in front
  of the holder, and the holder's logout is then read, control is never released.
* **control_known** (option.h:28): the log line for a command reads who has
  control without a check (server.cpp:158). A failed status message deletes the
  holder first, and with it the record of who has control; in the same turn a
  command is read with the state of the deleted holder and stored, from the client
  that slid into the slot or from the slot itself, if nothing is listed there any
  more. When it is logged the Option is empty. It is never a command stored
  before: a holder that has given one keeps control to the end of the pass
  (`PassSound`, `ReleasedByHolder`).
* **ready_is_kept** (wifi.cpp:185): `init()` checks that the state is still
  NotInitialized and then sets Initialized; the event of the start, in between,
  is overwritten, and the station never connects.
* **restarted_server** (ev_handler.cpp:81): after a reconnection the server is
  started over its own open sockets; `bind()` fails, and the program ends. The run
  shows it with a free descriptor for every socket; that it cannot end otherwise is
  proved (`ImplementsServerLife`).

## The proofs

Eight modules hold proofs, each in terms of the model it extends, for every
value of the constants that the assumptions allow.

* **ClientsProofs.** `IInv == TypeOK /\ ListSound /\ OneHolder /\ TurnSound` is
  inductive as it stands. `TurnSound` is what makes it so: it says what is true
  when `client_state` is stale, namely that the client it belonged to is gone,
  and its control with it. `ListSound` is needed for a deletion to close the
  right descriptor, and `OneHolder`, which bounds the recorded index from below
  by the holder's, for a login to find no other holder. The action properties
  follow from `IInv` and one step, the refinement of `Sessions` from a lemma per
  kind of change of the list: it is extended, one entry changes its state, or one
  is removed. Two more theorems are about a pass of `update()` as a loop whose
  bound and body change under it: `StepsLeft`, at most four times the slots and
  five, falls with every step whatever the peers do; and a client `Unread` in the
  pass, at or past the loop's index, stays so through every deletion until it is
  read or deleted itself.
* **CircularBufferProofs.** `IInv == TypeOK /\ MutexSound /\ TailSound /\
  CheckedGetFinds`, each of which is a theorem. `TailSound` relates the tail to the head, the count and the
  step the task inside has reached, by an index that wraps; the refinement of
  `BoundedQueue` compares the queue, as a sequence, before and after each step.
* **RunningServerProofs.** First that a running server is one of the owners
  `Clients` allows, which gives `IInv` of `Clients` for free; then `PassInv`,
  with `PassSound`: while a command is stored every holder is behind the loop,
  so no second one is stored in the same pass.
* **ConnectionProofs.** `ConnInv == TypeOK /\ FrameIsPiece`, with: every byte of
  the buffer is a zero or what was past the array. Clearing the r bytes of each
  read keeps that, since those behind them were so before. A login accepted by
  `check()` then came whole: its last character is not a zero, so it was in the
  read, and with it everything before it. It assumes that logins fit in a frame
  and an `AuthFrameData`, and that what is past the array does not happen to have
  the last character of a login in its place (`FramesAssumption`,
  `ConnectionAssumption`). Of `Frames` itself it proves that a frame gives back
  what was put into it, that `check()` accepts one of two different logins at
  most, and that it accepts the request made for a login, also where the login
  fills the frame, if the byte past the array is its '\0'. From these follows
  the converse of `LoginInOnePiece`: a request read whole, with its '\0', is served
  (a visitor is logged in, an administrator gets control exactly when no other client
  has it), if the two logins differ (if not, `check()` finds the one of the administrator
  for both). Last, one connection
  implements `Sessions` with a single descriptor.
* **NetServerProofs.** For any owner, `AnyOwnerInv`: `SocketsSound` is inductive
  once a pass is described socket by socket (`Pass`: it is created, bound,
  listens, fails or rests), as a new descriptor was free, and an address is bound
  only if no open descriptor has it. `HandlersSound` says of each handler that is
  ready that its sockets are. For Wifi, which never stops the server, `HasRunOnce`
  says that after the first run every address is in use and no socket of a later
  start gets past `bind()`; from it follow one timer, the descriptors that stay
  good, and the refinement of `ServerLife`, on which `MainProgram` is built.
  `LockStep` says that the four sockets of a start advance together, TCP with one
  update more: so a start is over after four updates, which `UpdatesLeft` counts.
* **MainProgramProofs.** `Inv` is `AttemptsSound` with what makes it inductive:
  until the main task has made the first attempt, the event of the start is the
  only event there can be, comes once, and is gone when the state is
  ReadyToConnect. `ConnectsWhenIdle` follows: each of the two callers of
  `esp_wifi_connect()` finds the station idle. `ErrorReported` follows an error
  of the server from `update()` to the end of the program. `AddressNoticed` says that a
  station with an address is in a state that says so, or an event is queued that
  will; it needs `LossIsFollowed`, that a queued loss of an address that is back
  has the event of its return behind it. One step breaks it, the late write of
  Connecting in `connect()` (`wifi.cpp:209`): without that, no address is lost.
* **WifiServerProofs.** Every step of the program is one of the server under Wi-Fi
  or starts all again, so the invariants of `NetServerProofs` hold in it
  (`ServerIsSound`); with `HasRunOnce`, each call of the server maps to a step of
  `ServerLife`, and the program with the server to `MainProgram`
  (`ImplementsMainProgram`). What is proved of `MainProgram` is so true of it.
* **CameraProofs.** `CamInv`: `NotWrittenWhileSent`, what the timer has stored
  so far (`WriteInv`), who has been handed the current frame (`SendInv`), and
  where in the stream each client is (`StreamInv`). The first is inductive only
  with the others: the main task keeps the picture Available until the last
  frame, which needs the index to stay below the number of frames. The lemmas
  before it are about the division of a length into frames: that
  it rounds up, does not wrap its `uint8_t`, and that every kept frame has bytes.
  `CamInv` gives `PictureWhole`, `ProcessedWasSent` and the refinement of
  `PictureStream`, for any sizes, lengths and clients. `PictureKept` says what
  each step leaves of a picture that is being sent: all of it, and a frame less
  to send if every client has had one. It assumes that a picture
  is not empty and fits in 255 frames (`CameraAssumption`).

Only model-checked: liveness, which is out of the prover's reach. What each
liveness property rests on besides fairness is proved, for all values of the
constants, so that what the runs add on their bounds is fairness and ENABLED:

| liveness | what is proved of it |
|---|---|
| `EveryClientRead` | a pass returns (`UpdateReturns`) and gets past nobody without reading it (`NobodyIsSkipped`) |
| `SteadyAddressGivesServer` | four updates end a start (`StartEndsInFourUpdates`), which events interrupt and never set back (`StartsGoOn`) |
| `ServerErrorEndsProgram` | the main task's next step is the end (`ServerErrorIsReported`) |
| `AddressIsServed` | nothing but the late write of `connect()` loses an address (`OnlyConnectLosesAddress`, `SlowDriverKeepsAddress`) |
| `EveryPictureSent` | a picture stays, and only shrinks by being sent (`PictureKeptUntilSent`) |

Every safety property of the passing runs is a theorem, for
all values of the constants; `ListSound` in running_server is that of `Clients`,
which holds there by `ServerUsesClients`.

## Not modelled

The settings, names, addresses, client ids and log lines. The status frame, of
which only the type of the login depends on state. The destructors, which never run
in a program that does not end, and which would close descriptors twice. The
single-shot timer, which nothing uses. NVS and the camera's `init()` are calls that may
fail. `Option` and `Result` are values. ESP-IDF, lwIP and FreeRTOS are modelled
as far as the code uses them, and marked external in `PROJECT.json`.

## Plan

In order, with what is done marked:

1. `Clients`, `Sessions`, their runs and proofs (done).
2. `CircularBuffer`, `BoundedQueue`, their run and proofs (done).
3. `RunningServer`, its run and proofs (done).
4. `SocketsHandler`, `NetServer`, `ServerLife`, their runs and proofs (done).
5. `EvHandler`, `Wifi`, `MainProgram`, their runs and proofs (done), with a restart
   of the processor.
6. `Camera`, `PictureStream`, their run and proofs (done).
7. `Frames`, `Connection`: the framing of a TCP stream, their run and proofs (done).
8. `WifiServer`, the program with the server itself, its run and proofs (done).
9. A composition of that with the server's pass over its clients, for what those
   on the access point see while the station reconnects: after the first
   reconnection they see the program end (restarted_server), so it says little
   until a restart of the server works.
