# A TLA+ model of sick_visionary_cpp_base

The library talks to SICK Visionary 3D cameras. It has two halves. The control
half (`VisionaryControl`, `ControlSession`, the CoLa protocol handlers, the
authentication classes) sends commands over a TCP connection and waits for each
answer. The streaming half (`VisionaryDataStream`, the data handlers, the frame
grabber) receives image blobs over a second TCP connection. `VisionaryAutoIP`
finds and configures devices by UDP broadcast.

Source paths below are relative to `src/` of the repository
(`src/FrameGrabberBase.cpp` and so on). The Linux build is modelled.

1. [Inventory](#inventory)
2. [Modules](#modules)
3. [Runs](#runs)
4. [Disagreements found](#disagreements-found)
5. [Fairness](#fairness)
6. [Proofs](#proofs)
7. [What is not modelled](#what-is-not-modelled)
8. [Plan](#plan)

## Inventory

| Component | State | Operations | What is hard | Correct means |
|---|---|---|---|---|
| Frame grabber (`FrameGrabberBase`) | `m_isRunning`, `m_connectedThreadPrivate`, the shared handler and its flag, the stream's handler | `run`, `genGetNextFrame`, `genGetCurrentFrame`, destructor | a thread and any number of callers, a condition variable, data handlers that rotate without being copied, loss of the connection | no handler has two owners, no half-parsed frame is handed out, no wakeup is lost, each frame goes to one caller, the destructor joins |
| Data stream (`VisionaryDataStream`) | transport, data handler | `open`, `close`, `syncCoLa`, `getNextFrame`, `parseSegmentBinaryData`, `isConnected` | resynchronisation in a byte stream, short reads, receives that time out inside a packet, lengths and offsets taken from the data | exactly the packets of the stream are returned, a timeout costs one of them; of a blob that is cut off nothing behind its end is used |
| Data handlers (`VisionaryData`, `VisionarySData`, `VisionaryTMiniData`) | description, change counter, images, time stamp, lookup table | `parseXML`, `parseBinaryData`, `generatePointCloud` | parts kept from one blob to the next, parse failures half-way | a frame is one blob decoded with its own description; the point cloud stays inside its lookup table |
| CoLa protocol handlers (`CoLa2ProtocolHandler`, `CoLaBProtocolHandler`) | `m_reqID`, `m_sessionID` | `openSession`, `send`, `closeSession`, `readProtocol` | late replies, request ids that wrap, sessions that expire, framing | a command gets its own reply or an error |
| Control object (`VisionaryControl`, `ControlSession`) | transport, handler, session, authentication, `m_autoReconnect` | `open`, `close`, `login`, `logout`, `sendCommand` | reconnect and retry inside a call, objects that refer to each other, an `open` that fails half-way | objects of one connection belong together, a command is executed at most once per connection, a closed object stays closed |
| Authentication (`AuthenticationSecure`) | `m_protocolType`, the protocol settled on; at the device, a session and a user level per connection | `login`, `logout`, `changePassword` | a sequence of commands, any of which may reconnect, or take a late answer for its own | a login that returned true holds until logout or the end of its session or connection, and is not lost unnoticed |
| AutoIP (`VisionaryAutoIP`) | link, telegram ids | `scan`, `assign` | UDP answers late, twice, broken or never, by either of two sockets, a deadline | devices listed once, and only for answers to this scan; a confirmed `assign` has configured its device |
| Network link (`NetLink`) | two sockets | `write`, `read` | one socket is tried after the other | no answer is hidden by the other socket |
| TCP transport (`TcpSocket`) | descriptor record | `connect`, `shutdown`, `send`, `recv`, `read`, `getLastError` | eight ways for `connect` to fail, descriptors reused by the process | one descriptor, closed once |
| CoLa codec (`CoLaCommand`, `CoLaParameterReader`, `CoLaParameterWriter`) | buffer and position | readers and writers per type | bounds | decoding what was encoded |
| Point cloud and PLY writer, endian, numeric and hash helpers | none | pure functions, a file | floating point, clamping | - |
| `UdpSocket`, `AuthenticationLegacy` | - | - | used by no other class of the library | - |
| Vendored code (`3pp`) | - | - | - | - |

How they interact. `VisionaryControl` owns a `TcpSocket`, a protocol handler
built on it, a `ControlSession` built on the handler and an authentication
object that sends its commands back through `VisionaryControl`. The frame
grabber owns a `VisionaryDataStream` and shares data handlers with its callers
under one mutex and one condition variable; the stream owns its `TcpSocket` and
a reference to the data handler it fills. All calls are synchronous; the only
thread the library starts is the frame grabber's. Nothing is persisted.

## Modules

Comments that begin with *Fault* mark a wrong version of the definition that
follows it: a dropped guard, a forgotten reset, a swapped order. They are part
of no specification. Replacing the definition by its fault must violate a
property, which is how the properties were shown to bite. `PROJECT.json` pairs
them, and maps every other definition to the lines it stands for.

| Module | Models | State and actions |
|---|---|---|
| `FrameGrabber` | `FrameGrabberBase.cpp` | A critical section of `m_mutex` is one step; parsing outside the lock and `wait_for` are split. `LoopHead`, `ReceiveBlob`, `ReceiveFail`, `ParseOk`, `ParseFail` and `Publish` are the thread (`run`); `Call`, `EnterNext`, `GetCurrent`, `Resume`, `Timeout`, `SpuriousWakeup` and `Release` a caller; `Destroy` and `Join` the destructor; `LinkLost` the network. Handlers are identities: who refers to which is what the properties are about |
| `FrameMailbox` | what the grabber promises | one slot with the newest frame, each frame taken at most once; `FrameGrabber` refines it |
| `MCFrameGrabber` | instance | fixes which two handlers the grabber begins with and lets some callers be patient, with no deadline |
| `PacketReader` | `readProtocol` of both handlers, `syncCoLa` and the headers of `getNextFrame`, `TcpSocket::recv` and `read` | one state machine with the three loops as cases; a receive returns any non-empty prefix of what may be asked for, or times out (`TimeoutInScan`, `TimeoutInLength`, `TimeoutInBody`), when the bytes read so far are dropped and the rest comes later. Four STX, and a length field of two bytes where the code has four. The reader, with its own way to count STX, checksum byte, shortest packet and headers, is chosen in `Init` |
| `MCPacketReader` | instance | the byte streams |
| `ColaSession` | both protocol handlers as users of a connection | `OpenSession`, `Send`, `CloseSession`, `SendFails`; one action per way a receive can end; the device serves, refuses, forgets the session |
| `RemoteCall` | what a command promises | executed at most once, in order, and an OK is its own answer; `ColaSession` refines it |
| `VisionaryControl` | `VisionaryControl.cpp`, `ControlSession.cpp`, the order of commands in `AuthenticationSecure.cpp` | Every object is represented by the number of the connection it was made for, 0 for none; using one that was destroyed is recorded in `fault` and ends the behaviour (it is undefined in C++). `Command`, `Reopen`, `Retry` are `sendCommand`; `Open`, `Login`, `Logout`, `Close`, `Send` the calls; `LoginGoesOn` the commands of a login one by one. `level` and `known` are the device's side of it: the user level it has granted, and whether it knows the session of the connection, which `SessionExpires` ends with the level in it; `unanswered` is what makes a CoLa B answer untrustworthy |
| `AutoIP` | `VisionaryAutoIP.cpp`, `NetLink.cpp` | `Scan`, `Assign`, then `CheckTime`, `ReadSocket`, `SocketTimeout`, `ReadRxsock`, `RxsockTimeout` in the order of `NetLink::read`; devices answer any number of copies at any time |
| `BlobSegments` | the arithmetic of `parseSegmentBinaryData` | the table of segments: sizes as differences of unsigned fields that wrap, and what of it is checked before a segment is handed on. Where the first segment begins is not checked, neither here nor in the code |
| `DataHandler` | `VisionaryData.cpp`, `VisionarySData.cpp`, `VisionaryTMiniData.cpp`, `parseSegmentBinaryData` | `Receive(b)` is one blob, with a table and a size of `BlobSegments`, damaged in one more place or none; it is composed of `RejectSegments`, `ParseXml` and `ParseBinary` in the code's order, each with the state it leaves when it fails. A segment outside the blob that the checks let through is read all the same, which is undefined: `returned` says so and the behaviour ends. `GenerateCloud` is the application's call, `Change` the device's configuration |
| `MCDataHandler` | instance | the descriptions, and the blobs: whole, cut off anywhere, with two, three and four segments, with offsets out of order, and with a gap behind the table that puts the images, or the XML too, outside |
| `TcpSocket` | `TcpSocket.cpp`, `open`, `close`, `isConnected` of the stream | `connect` call by call, with the process's descriptor table and the rest of the program opening and closing files in between |
| `*Proofs` | theorems about the module they extend | |

`FrameGrabber` stands on top of `VisionaryDataStream::getNextFrame`, of which it
needs only "parsed, failed before or failed half-way": `PacketReader` and
`DataHandler` say when each happens. `ColaSession` stands on `PacketReader` the
same way (a packet is one message), and `VisionaryControl` on `ColaSession` (a
command returns an answer, `network` or `session`; with CoLa B, after a command
that was given up, any answer, or it never returns). `TcpSocket` ends where the
connection is up; what is received over it is `PacketReader`'s.

## Runs

Each run answers one question. Bounds are constants, named where they are
declared.

| Run | Checks | Bounds, and why they are enough |
|---|---|---|
| `grabber` | `HandlersExclusive`, `NoTornFrame`, `WakeupNotLost`, `NewerThanCall`, the refinement `MailboxSpec`, `DestructorReturns`, `WaiterServed` | Two callers (one can take what the other was woken for), one of them patient, so that only `notify_one` can wake it. Four handlers: the stream's, the offered one, one for each caller. Two frames: one to be replaced, one to be newer. The safety part is proved for every value. `Handlers` are no symmetry set because liveness is checked. `DestructorReturns` holds with a receive timeout that is not zero, and as long as no exception leaves `run` (see [Fairness](#fairness)) |
| `grabber_no_reconnect` | `Reconnects`, refuted | one caller, one frame |
| `packets` | `PacketsExact`, `TimeoutCostsOnePacket`, `LengthAfterRun`, `StreamConsumed` for the three readers | Streams: everything up to 6 bytes over 0, STX and 3, which holds a run behind any two bytes or before any length field; and two packets, of bodies that are empty, shorter and longer than the headers and full of STX, with noise before each. For CoLaB two packets with checksums, the second cut off anywhere. Every cut into receives; two receives that time out, so that both packets can be hit, or one twice. For CoLaB `TimeoutCostsOnePacket` is conditioned on the end of the stream being reached, which after a timeout inside a packet it seldom is, so it says little of that reader. `ByteValues` is 256, as in the code. The safety part is proved for every stream |
| `packets_colab_noise` | `StreamConsumed` for CoLaB behind noise, refuted | one packet |
| `cola_session` | `ReplyBelongs`, `RepliesInOrder`, the refinement `RemoteCallSpec`, `CallReturns`, and `TypeOK` for the width of the request id | Six requests and three request ids: the ids wrap twice. `BacklogBounded` keeps a reply from being as many requests late as there are ids (65 536 in the code): the properties are about everything short of that. The safety part is proved for every value |
| `control` | `TransportMeansOpen`, `ExecutedOncePerConnection`, `ClosedStaysClosed`, `NoDeadObject`, `LoginHolds`, `CallReturns` | Five connections: a login of four commands can lose one at each, and there is one left. Both protocol families, and for CoLa2 a session that may expire between any two steps. The safety part is proved for every value |
| `control_close_not_open`, `control_login_reconnect` | `CloseIsNoOp`, `LoginSurvivesReconnect`, both refuted | two connections |
| `auto_ip` | `ListedAnswered`, `NothingOverlooked`, `QuietAssignConfigures` | Two devices, two calls (an earlier one whose answers come late), two datagrams in each socket. A request is broadcast twice, so each device may answer each call twice; datagrams that do not fit are lost, as in the kernel. About two million states |
| `data_handler` | `TableIsCurrent`, `FrameIsOneBlob`, `CloudInBounds`, `DecodedAsDescribed`, `AcceptsGoodBlob`, `CutBlobIsRefused`, and `TypeOK` | Three blobs and two changes over five descriptions: same size, larger, without an image, without any. Whatever a handler keeps of the first blob and of the second, which fails half-way, shows in the third. The fields of a segment table have 128 values, twice the largest blob, so that a difference may wrap to a small number and to a great one. The safety part is proved for every value |
| `tcp_socket` | `DescriptorOwned`, `ForeignUntouched` | Three descriptors: the library's, one of the rest of the program, one to spare. Proved for any number |
| `tcp_is_connected` | `ConnectedMeansAccepted`, refuted | two descriptors |

Type invariants are proved for every module that models code (see
[Proofs](#proofs)) and checked in a run only where one says something by itself.

What the properties say, in words:

- `HandlersExclusive`: the handler filled without the lock, the one on offer and
  the callers' are different objects. `NoTornFrame`: a handler left half
  overwritten by a malformed blob never leaves the stream.
- `WakeupNotLost`: while a frame is on offer and threads sleep, one thread is on
  its way, although `onlyNewer` calls clear the flag, others take the frame
  first, deadlines pass and wakeups are spurious. `WaiterServed` is the liveness
  counterpart for a caller without a deadline.
- `NewerThanCall`: an `onlyNewer` call returns a frame published after it began.
  A frame that was captured before, but not yet published, counts as newer: the
  code cannot tell.
- `MailboxSpec`: each frame is given to one caller, in order, and always the
  newest.
- `PacketsExact`: the packets returned are those an independent definition
  (`PacketsIn`, by positions of runs in the whole stream) finds, when no receive times out.
  `TimeoutCostsOnePacket`: a receive that times out in the run, in the length field
  or in the body costs at most the packet it happens in; the others are returned
  in order and no remainder is taken for a packet. The precondition, in the
  statement, is that no run of STX lies inside a packet or touches one.
  `LengthAfterRun`: a length is believed only after four STX.
- `ReplyBelongs`, `RepliesInOrder`, `RemoteCallSpec`: a CoLa2 command gets its own
  reply or an error; for CoLaB, which has no ids, no reply serves two commands.
  That a CoLaB reply that comes late is returned as the response to the next
  command is a limit of that protocol, not stated as a property.
- `TransportMeansOpen` is the comment "commit: a set pTransport means an open
  connection" of `VisionaryControl::open`. `ExecutedOncePerConnection` bounds what
  the retry may repeat. `ClosedStaysClosed`: `m_autoReconnect`, still set, opens
  nothing after `close`. `NoDeadObject`: an application that opens only what is
  not open, does without `autoReconnect` and logs in and out only while connected
  never makes the library use a destroyed object. `LoginHolds`: a login that
  returned true is not lost unnoticed. A later command of its connection that the
  device executes, or that is answered as if it was, is executed with the user level;
  when the session has expired, and the level with it, the command is answered by
  the error that says so. That `autoReconnect` replaces the connection, after which the
  level is gone and nothing tells the application, is left out of it: the code does
  that. `NoDeadObject` leaves out `autoReconnect` and an `open` after one that
  failed; what happens with them is what the two refuted runs show. For CoLa B
  `LoginHolds` and `CallReturns` are claimed while no command on the connection was
  given up (`InStep`).
- `ListedAnswered`, `NothingOverlooked`: the devices a scan lists are those whose
  answers to *this* scan reached a socket. `QuietAssignConfigures`: with no earlier
  `assign` under way, `true` means configured. Without that precondition the
  statement is false: `assign` takes any confirmation as its own, a late or
  second one included.
- `TableIsCurrent`, `CloudInBounds`: the lookup table kept is that of the
  description kept, and the point cloud reads no further. `FrameIsOneBlob`,
  `DecodedAsDescribed`, `AcceptsGoodBlob`: partial failures leave nothing behind
  in the next frame that is returned. The exception, in the statement, is a
  description that could not be read when it came: the change counter is stored
  before the XML is parsed, and later blobs with the same counter are decoded
  with the old description. An image that the description does not have is left as it
  was by `VisionarySData`, which `FrameIsOneBlob` says too. `CutBlobIsRefused`: a blob whose
  first segment leaves no gap behind the table is never read outside. Of one that ends
  before its XML, or whose offsets are out of order although their differences wrap
  to something that fits, nothing is kept; of one that ends before its images, no
  image and no time. With a gap the checks do not suffice and nothing is promised.
- `DescriptorOwned`: whichever call of `connect` fails, no descriptor leaks and
  none is closed twice, when its number may belong to another file.
  `ForeignUntouched`: no file of the rest of the program is closed.

## Disagreements found

| Run | Where | What |
|---|---|---|
| `grabber_no_reconnect` | `FrameGrabberBase.cpp:59` | `FrameGrabber.h` promises reconnects; the reconnect branch tests `m_connectedThreadPrivate`, which nothing clears after construction. The thread spins on the dead connection |
| `packets_colab_noise` | `CoLaBProtocolHandler.cpp:71` | a byte that is not STX is not consumed, and the search loop never leaves it. The CoLa2 handler advances first |
| `control_close_not_open` | `VisionaryControl.cpp:71` | after an `open` that failed, `close` is documented as a no-op and logs out through the session of the connection before, whose handler is destroyed |
| `control_login_reconnect` | `VisionaryControl.cpp:231` | a reconnect inside `login` replaces the authentication object whose `login` is executing |
| `tcp_is_connected` | `TcpSocket.cpp:140` | on Linux `select` reports a refused attempt as writable, not as an exception; `connect` looks at the exception set only, never at `SO_ERROR`, and returns 0. `VisionaryDataStream::open` then returns true; `VisionaryControl::open` still fails at its first command |
| | `VisionaryDataStream.cpp:221` | `VisionaryDataStream.h:67` says that `isConnected` returns true when the connection is established. It sends a probe, does not look at the result, and then asks for `SO_ERROR`, which the failed send has cleared. The run shows it of a connection that was refused; one that was reset is reported in the same way |

Smaller observations, in the models but stated by no property: CoLa2
`openSession` that the device refuses returns true with session id 0. The
greatest CoLaB length field makes `length + 1` zero and `pop_back` run on an empty
vector. `parseSegmentBinaryData`
compares differences of offsets and never the first offset with anything
(`VisionaryDataStream.cpp:184`): a blob of 64 bytes with the offsets 1000, 1010 and
1020, or with 0xFFFFFFF0, 10 and 20, passes and is read outside its buffer; the run
`data_handler` has such blobs, and no document says anything of them.
`VisionarySData` keeps the pixels of the frame before for an image without a byte
depth (`VisionarySData.cpp:181`). `login` and
`logout` on an object that is not open dereference a null pointer. The header says
that `login` returns an "error code, 0 on success"; it returns true on success. A
result that is missing from the answer makes `login` and `logout` throw, and
`close`, which logs out first, then closes nothing.

## Fairness

Only what the scheduling of the code gives:

- `FrameGrabber`: weak fairness of the grabber thread's steps, of `Join` and of a
  caller's critical sections. Every receive ends because `SO_RCVTIMEO` is set and not
  zero, and critical sections contain no call that blocks. Both are conditions of
  `DestructorReturns`, `WaiterServed` and `ThreadWindsUp`, and so is that no exception
  leaves `run`: `connect` sets as the timeout what `select` has left over
  (`TcpSocket.cpp:220`), and zero would be none at all; and `parseXML` may throw
  (`VisionarySData.cpp:67` and `:78`, `VisionaryTMiniData.cpp:92`), which nobody catches on
  the thread. Deadlines pass (`Timeout`), except
  for patient callers. Nothing is assumed of the device: `ReceiveFail` is always
  an alternative. The refuted `Reconnects` in addition assumes a device that
  accepts a connection whenever one is tried often enough, which favours the
  promise.
- `PacketReader`: weak fairness of `Next`: the stream is finite and the reader is
  scheduled. For CoLaB `StreamConsumed` is claimed as long as no receive times out.
- `ColaSession`: weak fairness of `Answer`: a receive ends by a packet or by its
  timeout. The device need never answer. `CallReturns` is claimed for CoLa2 only:
  a CoLaB handler that has lost the beginning of a packet may not return, which is
  `packets_colab_noise` at the level of messages.
- `VisionaryControl`: weak fairness of `sendCommand` and of what follows it; a
  command returns by the argument above, except for CoLa B after a command that
  was given up: `CallReturns` leaves out that case (`at = "hung"`), which is what
  `ColaSession` shows of it. The application need never call.
- `AutoIP`, `DataHandler` and `TcpSocket` state safety only.

## Proofs

TLAPS proves the following for every value of the constants under the named
assumptions, which only say what kind of value a constant is (`NoHandler` is no
handler, bounds are natural numbers, a change counter begins at 1 or more).

| Module | Theorem | States |
|---|---|---|
| `FrameGrabberProofs` | `TypeCorrect`, `Exclusivity`, `NeverTorn`, `NoLostWakeup`, `OnlyNewer`, `ImplementsMailbox` | the safety part of run `grabber`, for any number of callers, handlers and frames |
| | `FrameGoesToOne`, `FramesInOrder`, `CallerHasItsFrame`, `FrameStaysAsReturned` | what that means to a caller: nobody else gets its frame, frames come in their order, the handler it owns holds the frame it was returned and is written by nobody while it is owned |
| | `NobodyLeftBehind`, `ThreadWindsUp` | the safety half of `DestructorReturns`: after it no thread and no call is left, and while it waits every step of the thread is nearer to its end |
| `FrameMailboxProofs` | `OneTaker`, `InOrder` | what a mailbox means to its callers, which `ImplementsMailbox` carries over to the grabber: each frame goes to one caller, in the order published |
| `ColaSessionProofs` | `TypeCorrect`, `OwnReplyOnly`, `NoReplyTwice`, `ImplementsRemoteCall` | the safety part of run `cola_session` with its refinement, for any number of requests, request ids and sessions |
| | `ExecutedOnceInOrder`, `OkWasExecuted` | what follows: no request is executed twice or before an older one, and a CoLa2 OK is the answer to its own request, which was executed |
| `PacketReaderProofs` | `TypeCorrect`, `LengthOnlyAfterRun`, `ReadsExactly`, `TimeoutsCostOne` | the safety part of run `packets`, for every finite stream of bytes, every cut of it into receives, any number of timeouts and any width of a byte |
| | `EveryStepCounts` | the safety half of `StreamConsumed`: a rank in the natural numbers that every step decreases, but for CoLaB at a byte that is no STX |
| `VisionaryControlProofs` | `TypeCorrect`, `OpenIsWhole`, `AtMostOncePerConnection`, `StaysClosed`, `LoginLasts`, `CarefulIsSafe` | the safety part of run `control`, for any number of connections |
| | `EveryCallEnds` | the safety half of `CallReturns`: during a call every step of the library decreases a rank, and a session that expires leaves it as it is, unless a receive never ends or a destroyed object is used |
| `AutoIPProofs` | `TypeCorrect`, `ListsOnce`, `ListsTheAnswers`, `OverlooksNone`, `QuietAssign` | any number of devices and calls: a scan lists a device once, lists only and overlooks none of those whose answers reached a socket |
| `DataHandlerProofs` | `TypeCorrect`, `TableStaysCurrent`, `FramesAreWhole`, `CloudsInBounds`, `DecodesAsDescribed`, `GoodBlobsAccepted`, `CutBlobsAreRefused` | run `data_handler` for any descriptions, blobs, widths of the fields and changes |
| `TcpSocketProofs` | `TypeCorrect`, `OwnsItsDescriptor`, `LeavesForeignAlone` | any number of descriptors; the library closes none but its own |

The arguments:

- `FrameGrabber`. `IInv` is inductive. `HandlersExclusive` alone is not: an
  exchange with a null pointer would put null on offer, hence `CallerHasHandler`.
  `NoTornFrame` needs to know that only the stream's handler can be incomplete and
  that it is complete at `Publish` (`GrabberHasFrame`). The mailbox needs that the
  frame on offer is the newest and unseen (`OfferedIsNewest`), and `NewerThanCall`
  that it is newer than each call under way that can still take it
  (`HistoryBehind`): an `onlyNewer` call has cleared the flag before it waits.
  `FrameMailboxProofs` is instantiated with the mapping of
  the refinement, and its theorems are cited of the grabber. That a caller's handler
  holds its frame is inductive with `HandlersExclusive`; that nobody writes to it is a
  step property: `ParseOk` writes the stream's handler and `Call` a fresh one, and
  neither is owned.
  `ThreadWindsUp` is a rank of at most four steps, `NobodyLeftBehind` needs that the
  thread stops for the destructor only (`Ends`) and that the application destroys the
  object between its calls.
- `ColaSession`. `IInv` of the proofs: what is on the way is numbered in its order
  and newer than what was answered (`InOrder`, `AnswersBehind`); a packet carries
  the id that `m_reqID` had when it was made, counted back over the wrap
  (`HasItsId`), and `BacklogBounded` keeps it younger than the number of ids, so
  that a reply with the current id is the current one (`AcceptedIsOwn`). For the
  refinement, an `ok` on the way was executed, and nothing is executed out of
  order (`Executions`).
  That requests are executed in order and answers come after
  executions is proved of the steps of `RemoteCall` alone, which those of the handler
  are by the refinement (`PromiseStep`); `ReplyBelongs` makes the answer the call's own.
- `PacketReader`. `ScanInv` ties the count of STX to positions of the stream: what
  is left in the chunk are the last bytes received, and the STX counted so far
  stand right before them. A non-STX byte resets both ends. `PacketsExact` says
  something of the end of the run only; inductive is `Following`. There is a
  position up to which everything is accounted for: the packets returned are those
  of the stream before it, less at most one for each receive that timed out (`Accounted`),
  and what the reader has done since is exactly on the track of the first run
  behind it (`Tracks`). A step either stays on the track, or ends the packet and
  moves the position to its end, or times out and moves it there with the packet
  lost: then, because no packet holds a run (`Unambiguous`), looking on from the
  middle of it finds the same next run as looking from its end (`SameRuns`,
  `Resumed`). `PacketsFrom` is a recursive function over positions, of which the proof
  uses two facts only: that its definition holds of it (`PacketsFromUnfolds`) and what
  it returns (`PacketsFromType`). Both are shown by a least counterexample (`Least`),
  which replaces the induction theorems that take an operator.
- `VisionaryControl`. The invariant is built in layers: types; which objects exist
  together (`open` commits the transport last); what holds while closed; which
  executions have happened at each point of `sendCommand`; and what a careful
  application may have under way. `LoginLasts` needs what a `success` of a login's
  level command means (`Levels`): the level was granted on the connection in use, and
  is there as long as the device knows the session (`Granted`), without which it
  neither executes a command nor answers it as executed.
- `AutoIP`. What is listed was answered, because answers carry the id of their
  call and ids of later calls are greater; for `QuietAssign`, every confirmation
  waiting or on its way is of a call that has configured its device.
- `DataHandler`. A table is dropped wherever size or description is assigned; all
  images and the time are assigned by the same call, so a frame returned is whole.
  `CutBlobsAreRefused` is arithmetic: two differences that wrap cannot both fit
  into what the blob has left unless the offsets are in order, provided that the first
  offset is at most the size of the table.
- `TcpSocket`. `DescriptorOwned` together with where in `connect` the record is
  set; the one extra fact is that a socket is made only where the record is empty.
- Ranks. `PacketReader` counts the receives that may still time out, the bytes still
  to come and those in the chunk, and adds how far the step in the packet is;
  `VisionaryControl` counts the commands a login has left and the steps of
  `sendCommand`. With the fairness of [Fairness](#fairness) a natural number that falls
  with each step is the reason why the runs find `StreamConsumed`,
  `CallReturns` and `DestructorReturns` true; the last inference, from fairness, is
  left to TLC.

Model-checked only: liveness (`WaiterServed`, `DestructorReturns`, `StreamConsumed`,
`CallReturns`), because fairness is out of the prover's reach. Every invariant and
every action property of the passing runs is a theorem. What
the runs refute is shown by a counterexample and is not the subject of a theorem. Type invariants other than those of `ColaSession` and
`DataHandler` are proved and not listed in a run.

## What is not modelled

- Failing allocations; signals (`SIGPIPE` at `::send`); the Windows build.
- `PacketReader`: a length for which no buffer can be allocated.
- `TcpSocket`: the length of the receive timeout. On Linux `select` counts its
  time value down and the same variable is then set as `SO_RCVTIMEO`, so the
  receive timeout is what connecting left over, and none if that is zero.
- `AutoIP`: telegram ids that coincide, ports and names in an answer
  (`ports[0]` is taken of a vector that may be empty), sockets that cannot be
  opened.
- `DataHandler`: the frame number (dataset version 1 counts it per handler object,
  which the grabber rotates), the extended header, byte widths, a change counter
  that wraps to one in use, what follows a segment read outside the blob. The
  branch of `VisionaryTMiniData` that clears its images without a depth map is
  unreachable, a width of 0 having returned false before.
- `FrameGrabber`: an exception from `parseXML`. It leaves `getNextFrame` and `run`
  uncaught and ends the program; `ParseFail` is the parse that returns false.
- `VisionaryControl`: what the commands read from their answers; more than one user
  level; `changePassword`, a command like any other.
- `FrameGrabber<T>` only casts pointers. Its `getNextFrame` passes the timeout
  where `onlyNewer` is expected and does not compile when instantiated.
- The CoLa codec (`CoLaCommand`, `CoLaParameterReader`, `CoLaParameterWriter`): it
  turns buffers into values and back, keeps no state between calls and is reached
  by unit tests; what can become of an answer is modelled where it is used
  (`Answers` in `VisionaryControl`, `Outcome` in `ColaSession`).
- The hash and number helpers, point clouds as numbers, the PLY writer (files and
  floating point), `UdpSocket` and `AuthenticationLegacy` (used by nothing).
- `3pp`: boost, SHA-256 and MD5. It is 253 000 of the repository's 260 000 lines of
  C and C++; the library itself has 7 300, of which the modules stand for a third.
  The rest of them are the codec, the getters and setters, the conversion of
  names and numbers, the PLY writer, and the tests.

## Plan

The frame grabber came first, as the only concurrent part; then framing, the
request/reply protocol, the control object, discovery, the data handlers and the
transport. User levels, timeouts inside packets, segment tables and the theorems
of `ColaSession` and `PacketReader` followed. What is left, in this order:

1. Frame numbers of dataset version 1 over the rotation of handlers
   (`DataHandler` inside `FrameGrabber`).
2. The composition of `ColaSession` with `VisionaryControl` in one behaviour,
   instead of through the outcomes of a command.
3. The duration of `connect` and the receive timeout it leaves.
4. Operators for `CoLaParameterReader` and `CoLaParameterWriter`, checked against a
   reference over bounded inputs.
