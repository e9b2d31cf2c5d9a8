# TLA+ models of robosw

Specifications of `robosw`, a C++ code base for mobile robots: drivers for serial
ports, CAN, RC receivers, joysticks, servos and motors, a small event library,
planners that search, grids and predictions, and the applications that run robots
with them. TLC checks every component on small instances; TLAPS proves the safety of
ten of them for all instances.

Paths below are relative to the repository's `src/`.

## 1. Inventory

### Components with threads, lines or devices

| Component (source) | State it keeps | Operations | What makes it hard |
|---|---|---|---|
| `RingBuffer` (`driver/async_port/.../ring_buffer.hpp`) | `buffer_`, `write_index_`, `read_index_` (machine words), `enable_overwrite_` | `Reset`, `Write`, `Read`, `Peek`, `PeekAt`, four size queries | wrap-around of slots and of words; masked and unmasked comparisons; overwriting; `Peek` locks per element |
| `ThreadSafeQueue` (`common/event/.../thread_safe_queue.hpp`) | a `std::queue`, an optional limit | `Push` (drops the oldest when full), `Pop` (waits), `TryPop` | lost elements at the limit; holders interrupted by signals |
| `AsyncSerial` (`driver/async_port/src/async_serial.cpp`) | port, io thread, `tx_rbuf_`, `tx_buf_`, `tx_in_progress_` | `Open`, `Close`, `SendBytes`, read and write handlers | senders race completions; partial writes and errors; handlers that survive `Close` |
| `AsyncCAN` (`driver/async_port/src/async_can.cpp`) | socket, io thread, receive frame | `Open`, `Close`, `SendFrame`, read handler | a full device queue; the lifetime of the frame being sent; an error on the io thread |
| `AsyncEventDispatcher` (`common/event/src/async_event_dispatcher.cpp`) | handler lists, event queue, two latched thread ids | `RegisterHandler`, `Dispatch`, `HandleEvents` | registration while handling; the latch has no lock |
| Sbot system (`platform/swervebot/`) | mode state machine, last input, twist, four queues, two loop flags | `Initialize`, `Run`, `ControlLoop`, input callbacks, `Stop` | three threads and a signal handler; watchdog; order of shutdown |
| Quadruped system (`platform/quadruped/`) | mode state machine, queues of one place, estimator state | as Sbot, and an estimation thread | five threads, a poll loop over the key queue, shutdown |
| TBot (`platform/tbot/`) | the mode selected and the mode reported, the messenger | panels of a window, CAN callback | callback and window share unlocked state; the board restarts |
| HID input (`driver/input_hid/`) | devices, libevent loop, button and axis values | `Open`, `Close`, device events, destruction | devices come and go; the loop is told to stop before it runs |
| SMS/STS servos (`driver/motor_waveshare/src/sms_sts_servo*.cpp`, `src/servo/`) | id, cached targets, the last answer | calls of a servo and of an array of servos | late, stray, garbled, missing answers; an unplugged adapter |
| `Ddsm210` motors (`driver/motor_waveshare/src/ddsm_210*.cpp`) | feedback, receive ring, id and mode flags | commands, `SetMode`, `SetMotorId`, the array | cut streams; answers that come late or belong to another request |
| VESC, Akelc, Modbus, IMU (`driver/motor_vesc`, `motor_akelc`, `modbus_rtu`, `sensor_imu`) | last feedback, the port | blocking calls or callbacks | several drives on one line, lost telegrams, broken frames |
| `SbusReceiver`, `SbusDecoder` (`driver/input_sbus/`) | decoder state, frame of 25 bytes, reading thread | `Open`, byte decoding | resynchronisation |

### Components that compute

| Component (source) | What it computes | What makes it hard |
|---|---|---|
| Swerve and differential bases, actuator groups (`control/robot_base/`, `platform/swervebot/src/ws_sbot_base.cpp`) | angles and speeds of wheels from a motion of the body | wheels that drive backwards, errors of both signs |
| PID controller (`control/pid/`) | output and limited integral | windup |
| Quadruped model (`platform/quadruped/src/robot_model`) | leg kinematics, motor commands | frames, mirrored legs, singular poses |
| Sampling planners (`planning/sampling/include`) | RRT, RRT\*, RRG | rewiring and the costs below it |
| Standalone RRT\* and k-d tree (`planning/sampling/reference/rrtstar-standalone/src`) | the same with its own index and memory | branches that move; pruned searches |
| Grids (`planning/decomp/`) | square, dense and curvilinear grids and their indices | ids, offsets, even and odd middles, ownership of cells |
| Geometry (`planning/geometry/`) | points, lines, polygons | one-sided tests |
| Decision (`planning/decision/`) | Markov chains, occupancy, threats of other vehicles | indices of cells and controls, repeated propagation, a parallel loop |
| Configuration (`platform/*/src/config_loader.cpp`), matrix files (`common/math_utils`), control log (`common/logging`) | what is in files | entries that are missing or malformed; files that are there already |
| Robot models, state lattice, mapping, estimation, IPC, logging wrappers, GUI | | floating point, wrappers; see section 7 |

**How they interact.** An input driver's thread calls back into the robot
system, which pushes events on `ThreadSafeQueue`s. The main loop drains them
through the mode state machine and pushes commands; the control loop pops those
and writes to the motors. Motor drivers send through `AsyncSerial`, `AsyncCAN` or a
blocking bus; the asynchronous ones have an io thread each and, for serial, a
`RingBuffer` in both directions. `Stop()` is called from the SIGINT handler of the
application and joins the threads in order.

**What makes each correct.** The ring is a bounded queue; the serial port delivers
bytes once and in order and never reuses memory that is being sent; a CAN frame is
handled only while the port is open; the dispatcher runs every handler registered
before an event, in order; every input of a device reaches its handler once and none
after it was closed; an answer counts for the request it was made to; a robot follows
its lever or key, stops without its operator, stays stopped after `Stop`, and ends
when told to; a decoder finds exactly the intact frames; wheels and feet move the body
as commanded; a cell, its id and its coordinates name one place; a path is free and as
long as the tree says; what is predicted is what the vehicles' motion makes it; what is
loaded is what the file says.

## 2. Modules

| Module | Models | Used by |
|---|---|---|
| `BoundedFifo` | abstract: a bounded queue as its callers see it | a property of `RingBuffer` |
| `RingBuffer` | every operation of `RingBuffer<T, N>` | its run, `Ddsm210` |
| `ThreadSafeQueue` | `Push`, `TryPop` with the limit, as operators | `SbotSystem`, `AsyncEventDispatcher` |
| `SbotSystem` | all threads of the swerve robot, and its shutdown | its runs |
| `Quadruped` | all threads of the quadruped, and its shutdown | its own run |
| `AsyncSerial` | port, io context, senders, owner | its run |
| `AsyncCan` | socket, read chain, `SendFrame`, `Close` | composed in `Tbot` |
| `Tbot` | window, messenger and board around `AsyncCan` | its own run |
| `AsyncEventDispatcher` | dispatcher with its latches and handler lists | its run |
| `InputHid` | polling drivers and the event listener with their handlers | `MCInputHid` |
| `Ddsm210` | a motor's feedback decoder, composed with `RingBuffer` | `MCDdsm210` |
| `ServoBus` | servo, array, line and servos, packet by packet | its run |
| `Sampling` | RRT, RRT\* and RRG as state machines | `MCAlgorithms` |
| `ScsProtocol`, `SbusDecoder`, `ChSerial`, `Ddsm210Protocol`, `MotorCommands` | bytes, registers and calls of the drivers, as operators | `DriverCases` |
| `Swerve`, `UnitreeDog` | bases on wheels; legs and their commands | `BodyCases` |
| `Grids`, `Geometry`, `KdTree`, `RrtStandalone` | grids, lines, the index and the standalone planner | `PlanningCases` |
| `MarkovChain`, `Occupancy`, `Threat` | predictions of other vehicles | `PredictionCases` |
| `Config`, `Files` | configuration, matrices, log | `SystemCases` |
| `...Cases` | bounded inputs of each kind, and what is expected of each | `MCAlgorithms` |
| `RingBufferProofs`, `AsyncSerialProofs`, `AsyncEventDispatcherProofs`, `QuadrupedProofs`, `ServoBusProofs`, `Ddsm210Proofs`, `InputHidProofs` | the theorems about the module of that name | section 4 |
| `ApplicationProofs` | the theorems about `SbotSystem` and `Tbot` | section 4 |
| `MC...` | instances for TLC | |

Every state machine has a type invariant, `TypeOK` (`CanTypeOK` in `AsyncCan`). All of
them but that of `Sampling` are proved; any of them can be named in the configuration of
its run.

### RingBuffer

`write_index` and `read_index` are machine words of `W` values; `Masked` is
`& size_mask_`, and an index is masked exactly where the code masks it. Writing a
block is one step, for the lock is held over the loop; `Stored` is the array
after it in closed form. `Peek` takes the lock for each element, so it is a
`PeekBegin` and one `PeekStep` per element, and writes may come between; the
consumer does nothing else meanwhile. `PeekAt`'s bound reads
`n >= (w - r) & size_mask_`: `>=` binds tighter, so the model compares with the
unmasked distance. `ret` is the answer to the last call; it is what
`BoundedFifo` constrains. `Reset` comes only while no `Peek` runs.

`BoundedFifo` holds the elements as a sequence. It says of every call what it may
answer, including that a `Peek` returns the head of the queue at its end.
`RingBuffer` implements it with `queue <- Contents`, the elements the masked
indices delimit.

### SbotSystem

* `main` is the program counter of the main thread: the steps of `Initialize`,
  then of `Run` and the state machine's `Update` (drain the axis queue, push a
  command in manual mode, transit, sleep).
* The main thread's queue operations are two steps, take the mutex (`held`) and
  finish, since the SIGINT handler can come between them. Other threads cannot be
  interrupted by it, so their operations are one step that waits for `held`.
* `control` is the control thread: test the flag, pop commands until the queue is
  empty, write the twist to the motors.
* `event` is the thread of the input device. A callback decides what to push
  (`outbox`) and pushes it event by event. The RC receiver's thread waits in a blocking
  `read()` ("reading") and tests `keep_running_` only when that returns ("returned").
* `handler` is `Stop()` inside the signal handler: clear the control flag, join
  the control thread, close the input, zero the motors, clear the main flag. While
  it runs the main thread does not, see `At`. Closing the RC receiver is two steps,
  clear its flag (`CloseInput`) and join its thread (`JoinInput`), which needs one more
  frame or read error. `MaxFrames` does not bound the frames that come then.
* Time is the main loop's period: `age` counts sleeps since the last axis event,
  up to `Timeout + 1`. Scaling of velocities is left out, except that the dead
  band turns small lateral deflections into zero (`Scaled`).
* `crashed` stands for the null pointers that `Stop` meets during `Initialize`.

External: the robot base's ports and wheel kinematics (the twist it is given is
what `motors` holds) and the sources of input.

### Quadruped

The shape of `SbotSystem` with two more threads: `estimation` takes sensor samples and
writes `x_hat`; `control` runs the mode state machine, with `PollKeyFunction` as
separate pops (`input`, `input_again`, ...), since the keyboard thread pushes between
them. `spin` is the poll that no longer ends. The queues of one place keep the newest
key. A mode's target pose is counted in steps per term; a sample is named for where it
came from, so that the empty one `Stop` makes is told from the robot's. `sent` and
`stale` are history.

### AsyncSerial

* `ready` is the queue of handlers of the io context, `reading` (how many: a second
  `Open` starts its own chain beside a handler left over) and `writes` the operations the
  kernel has under way; these are asio's, external. `alive` turns
  false when an exception leaves the io thread (`std::terminate`).
* `SendBytes` is two steps: the unlocked test of the port (`TestOpened`) and the
  locked copy with the post of `WriteToPort`. The transmit ring is the queue that
  `RingBuffer` implements; `RingWrite` keeps its overwriting default, so that the
  check of the free size in `SendBytes` is what protects the bytes.
* `Open` may succeed, fail to open, or fail after the port is open (a refused
  option): the port then stays open without an io thread. `Close` from the owner
  cancels the operations, whose handlers stay in the context (`AbortedOnClose`),
  and joins. `Close` on the io thread joins itself and ends the process
  (`CloseOnIoThread`).
* Bytes are numbered in the order they are accepted, so order and loss are
  visible on the `wire`.

### AsyncCan and Tbot

`AsyncCan` keeps the read chain (`posted`, `reading`, `received`), the socket's
receive buffer and the device queue, both bounded. A frame that finds no room is
refused, or left to the io thread with a reference to the caller's stack (`blocked`):
what is sent then may be `Junk`. `Tbot` composes it with the window, whose panels run
in turn on one thread (`gui`), and a board that reports its mode, may restart in
`NonSupervised`, and takes requests. The control panel sends two frames in a turn, the
request for a mode (`DrawControl`, which also reads the reported mode) and the drive
command of that mode (`DrawDrive`); io thread and bus may run between them.

### AsyncEventDispatcher

Each thread has a program counter `at` through `Dispatch` and `HandleEvents`:
test the latched id, store or compare it, check it against the other id, then
work. `HandleEvents` pops one event, copies the handler list under the lock and
runs the copy; handlers may register more handlers. Events carry, as history, the
handlers known when they were dispatched. Exceptions of the thread check return
the thread to `idle`.

### InputHid

One module for the two polling drivers and the event driver, chosen by `driver`. The
kernel's queue of each device is bounded and emptied when it is full; `lost` remembers
it. `owner` is the thread that opens, closes and destroys, `thread` the driver's own.
A turn of libevent's loop takes the devices that are ready (`active`) and calls each
handler once; each call reads one event. `event_break` is libevent's flag, cleared when
the loop is entered.

### Ddsm210

* The receive ring is an instance of `RingBuffer` with overwriting: `StoreFeedback`
  contains its `Write`, `Decode` its `Read`. Only the io thread uses this ring, so
  the copy of `Peek` cannot change under it and is part of `Decode` (`Window`).
* `Decode` is one turn of the loop of `ProcessFeedback`, `Return` its end. Bytes may
  arrive between turns; they wait for the next callback.
* A byte is `<<frame, place>>`. A window is valid exactly when it is one whole frame
  of this motor, of a known type, whose unsigned checksum equals its signed reading:
  the CRC is assumed to tell frames from all other windows. `Disturb` garbles or
  loses a byte of the line.
* `IndexStarts` are positions after earlier traffic; the read index may be masked,
  which is what an earlier overwrite leaves.
* The four feedback types are stored alike; two stand for them. `raw_feedback` holds
  the number of the frame instead of its fields.

`Ddsm210Protocol` has the other half: the frames of every command with their
checksum, and `SetMode` and `SetMotorId` as functions of what the io thread hears while
they wait, in each of their waits.

### ServoBus

A call of the API is the list of requests (`todo`) the code makes; a request flushes
the input, writes and waits for an answer or its timeout. Requests are numbered, so
that an answer carries the request it was made to. A packet may be lost, garbled or
late, an answer nobody awaits may be on the line when a call begins (`MaxStrays`), and
the adapter may be unplugged (`gone`). `SetPosition` of the array is one call with two
ends: a position that is the remembered one returns and sends nothing. `stale` is history:
`SetPositions` was called, or a packet with positions harmed, since `SetPosition` last
sent one. The array's servos are registered from the start; registering is left out. The
bytes of packets are in `ScsProtocol`, which
`DriverCases` checks.

### Sampling

One action per planner adds one node for any sample, `Finish...` ends the search.
Distances and free ways are constants; the nearest neighbour is any of the nearest.

### Modules of operators

`ScsProtocol`, `MotorCommands`, `Swerve`, `Grids` and the like hold no variables: each
function of the code is an operator or a recursive function from what it reads to what
it leaves behind. Real numbers are integers in the unit of the wire, or rational weights
without their common divisor; angles are quarter turns where only then sines are whole
numbers (`UnitreeDog`). A registers' table, an object, a disk or a world is a record or
a function that an operator maps to the next. The `...Cases` modules hold for each kind
of input a bounded set and a statement that uses a reference definition of its own: all
places of a stream for a decoder, all points for the k-d tree, all paths for a Markov
chain, the cross product for a wheel.

## 3. Runs

With two workers they take from seconds to three minutes (`sbot_run`).

| Run | Question | Bounds, and why they are enough |
|---|---|---|
| `ring_fifo` | Without overwriting, is the ring the bounded queue? | 4 slots, words of 8 values: indices wrap both ways; bursts of 4 exceed the 3 usable slots; two values make any permutation visible |
| `ddsm_feedback` | With overwriting, for the client that relies on it: is every whole frame decoded, however the stream is cut? | frames of 3 bytes and a ring of 7: bursts of up to 9 bytes overflow it, a frame can be split over callbacks; one byte lost or garbled; a start just before the indices wrap |
| `sbot_run` | Mode, watchdog, shutdown of an RC robot | queue of 1 so pushes drop; lever with a neutral position; a deflection above the dead band; one callback per period; SIGINT during the sleep or while the mode pushes a command, inside the queue's mutex or outside |
| `sbot_stop_anywhere` | Does the robot stay stopped wherever SIGINT comes? | joystick; queue of 2; SIGINT in every state of the main thread; deflections below and above the dead band |
| `sbot_lost_stop` | Does every stop complete? It does not (section 5) | SIGINT at one place |
| `serial` | Is everything that was accepted sent, once, in order, and is no byte stranded, with partial writes, errors, `Close` and reopening? | two senders, ring of 3, 4 bytes: the ring fills and drains while a transmission runs; two opens, so that handlers of the first run in the second |
| `event_delivery` | Do all handlers run, in order, and does the queue drain? | one dispatching, one handling, one registering thread (the handling thread registers too), two names, 3 events on a queue of 2 |
| `servo` | Whose answer does a call take, what does a failed sequence leave behind, does it end? | two servos and a free id; 4 requests, the longest sequence; one packet harmed, one stray answer; two calls of the array can follow each other, so that the second finds its position remembered |
| `quadruped` | Which keys act when, with which gains, and does `Stop` end? | four modes that differ in what they poll and set; 3 mode keys, 2 control keys, a sample: a key can go stale across a mode |
| `tbot` | Are frames handled only while the port is open, does closing end, do window and board agree? | one frame of room in each direction, so that both queues are full and the second frame of a turn takes the room of the first; a restart of the board; reconnects without bound |
| `input_hid` | Is every input handled once, in order and in time, and does closing end? | two devices, queues of 2, 4 events: an overflow, and more than one event waiting at a turn; unplugging; two opens |
| `algorithms` | Do the searches find free and, for RRT\*, consistent paths; and do the algorithms of drivers, bases, legs, grids, predictions and files do what they are for? | 3 by 3 points with an obstacle and 5 nodes: rewiring, a cost that falls twice; the inputs of the `...Cases` modules |

The inputs of `algorithms` come from every kind of case: streams that are cut, noisy or
begin within a frame; values at the ends of their ranges and on both sides of each
limit; odd and even grids with and without an offset; all short sequences of calls of
an object. With the searches these are about 155000 states.

`CHECK_DEADLOCK FALSE` is set for `serial` and `tbot` (the owner may close for good, and
the process may end), `sbot_run` and `sbot_stop_anywhere` (the deadlock of section 5 is
among their behaviours), `ddsm_feedback`, `servo` and `quadruped` (line and operator
have done all they may, or the process is over), `input_hid` (the driver is destroyed)
and `algorithms` (an input has no successor).

**Properties.**

* `ring_fifo`. `IndexInv`: the indices stay within `N - 1`. `PeekIsCurrent`: what a `Peek`
  has copied is still the head of the queue. `ImplementsFifo`: refinement of
  `BoundedFifo`.
* `ddsm_feedback`. `RxIsStream`: the ring holds the newest bytes of the stream.
  `FeedbackIsNewest`: no damaged or foreign frame takes a whole one with it, for
  checksums below 128. `DecodingEnds`: the loop of `ProcessFeedback` ends.
* `sbot_run`, `sbot_stop_anywhere`. `ModeFollowsLever`: unless the robot is stopped, a
  lever at rest ends up selecting its mode. `DeadManStops`: unless it is stopped,
  without events the applied twist becomes and stays zero, unless `Stop` has come while
  the main thread held the command queue. `StopCompletes`: a SIGINT that finds the main
  thread in no queue ends both loops and the process, provided the RC link speaks
  (`LinkSpeaks`: its `read()` returns again and again). `RobotStaysStopped`: after
  `Stop` zeroed the motors nothing moves them.
* `serial`. `WireInOrder`: no byte leaves twice or out of order, whatever the port does.
  `OneTransmission`: `tx_in_progress_` is set exactly while one transmission is under way
  or awaits its handler. `NothingStranded`: bytes in the ring always have somebody who
  will send them. `NothingLost`: no step takes an accepted byte away but a fault or
  `Close`. `AllSent`: on a port that works everything leaves.
* `event_delivery`. `HandledInOrder`, `KnownHandlersRan`, `QueueDrains`: the dispatcher's
  promises.
* `servo`. `AnswerIsExpected`: an answer counts for its own request, or was on its way
  when that one was made. `EpromRelocked`: when a change of an id reports success and
  none of its packets was harmed, no EPROM is open; a change that fails may leave one
  open. `TargetsReached`: between calls every servo is where the array remembers it,
  also after a `SetPosition` that found its position remembered and sent nothing, unless
  since `SetPosition` last sent a packet that packet was harmed or `SetPositions` was
  called, which remembers nothing; what was lost before is made up for. `CallsReturn`: a
  call ends unless the adapter is gone.
* `quadruped`. `OneStaleKey`: at most one key that was pressed before a mode was entered
  acts in it. `GainsFitMode`: no command goes out with another mode's gains.
  `EmptySampleUnused`: the sample made up by `Stop` never reaches the robot.
  `StopCompletes`: SIGINT in the main loop ends the process, unless the control thread is
  caught in `PollKeyFunction`.
* `tbot`. `HandledWhileOpen`, `StopEnds`, and `ModeAgreed`: a mode that stays selected on a
  connection that stays open becomes the board's, on a bus that keeps up (`BusKeepsUp`:
  again and again the device queue has room when a turn of the window begins).
* `input_hid`. `InputInOrder`, `NoLateCallback` (none after destruction),
  `InputIsHandled` (what is queued is read in the end), `StopReturns` (a driver that was
  told to stop in its loop stops).
* `algorithms`. `FramesFound` (decoders), `CommandsArrive` (encoders, bases, legs, PID),
  `CallsKept` (which answer a call counts, `SetMotorId` outside the gap of section 5, and
  that no motor is left turning),
  `PlacesAgree` (grids, copies, lines), `PredictionsHold`, `FilesKept`, `SearchIsSound`
  (costs are lengths, paths are free, none is shorter; nearest points; the
  standalone tree).

**Fairness.** `SbotSystem`: the main thread, the control thread, the pushes of a running
callback and the handler's steps are scheduled (weak fairness for the first and last;
strong for those that wait for a mutex the main thread takes and releases, justified by
its sleep of 50 ms without one). Input and SIGINT need not come, and the RC link may
fall silent: `StopCompletes` states that as its premise. `Quadruped`: main, control and
estimation thread and `Stop` run; nobody has to press a key, and the robot need not send
a sample. `AsyncSerial`: the io thread runs and the port completes a write it was given;
data need not arrive and nobody has to send. `Tbot`: the window is drawn, the io thread
runs, the bus takes frames and the board reports periodically; a click or a fault need
not come. `AsyncEventDispatcher`: the handling thread calls `HandleEvents` again and
again. `InputHid`: the thread that owns a driver and the driver's thread run.
`ServoBus`: the calling thread runs and its `select` times out. `Ddsm210`: the io thread
runs. `RingBuffer` and the algorithms have no liveness.

## 4. Proofs

Checked by TLAPS for all values of the constants that satisfy the modules' named
assumptions. Each invariant was first checked by TLC on the instance of its run; each
proof has one step per action. `TypeCorrect` of a module is `TypeOK`, strengthened where
the steps need it; the others use it.

**`RingBufferProofs`.** `IndexInvariant` and `EmptyAgreement`, without overwriting:
`Distance < N` is inductive because a write adds at most the free size and a read takes
at most the distance; from it masked and unmasked emptiness coincide. It needs that `N`
divides `W` (a power of two in the code), from which the lemmas on masking and advancing
follow. `PeekInvariant`: what a `Peek` has copied is a prefix of the contents, since a
producer adds at the end and the consumer is the one that peeks. `ImplementsQueue` is
the refinement of `BoundedFifo` with `queue <- Contents`: `Contents` after a write is
the contents with the stored elements appended, after a read without the elements read,
and every answer is the queue's. A `Peek` ends with the head of the queue by
`PeekIsCurrent`, which is why that invariant is part of the proof. All of it is
restricted to `~Overwrite`: with overwriting the statements are false (section 5), and
what remains true then is proved for the one client that overwrites, `Ddsm210`.

**`AsyncSerialProofs`.** `PlaceInv` says where the write chain's handlers can be: at
most one write or its completion exists, exactly when the flag is set, and a non-empty
ring has a completion or a posted `WriteToPort`. `ExclusiveTransmission` and
`NoByteStranded` follow, through errors, `Close` and reopening. `OrderInv` is about
`Kept`, the bytes on the wire, those of the transmission and those in the ring, in this
order: they increase and none is higher than the last that was accepted. `WireInOrder`
alone is not inductive; a byte could be in the ring twice. Every step leaves `Kept` as
it is, adds new bytes at its end, or cuts a piece out where a write ends early
(`KeptStep`). The same three cases give `NoByteLost`. That a transmission never
overwrites `tx_buf_` under another is `PlaceInv`, and that the ring does not overwrite
its oldest bytes is the check of the free size in `SendBytes`.

**`AsyncEventDispatcherProofs`**, for any finite set of threads. `KnownInv`: every event
that is queued, popped or being handled is covered, each handler it was dispatched to
being on the list of its name, still to run, or logged; lists only grow. `OrderInv`:
lists and queue are in order always, and as long as one thread has passed the checks of
`HandleEvents` (`OneHandler`), what is logged comes before what it has in hand, and that
before what is queued. The latch is a test and a store, so that two threads can pass;
therefore `EventsInOrder` assumes one consumer, which is how the class is used.

**`ApplicationProofs`**, of `SbotSystem` and of `Tbot` with its `AsyncCan`. The types of
`SbotSystem` tie the program counters together: which step of `Initialize` or `Run` the
main thread can be in, what a callback can still have to push. `StopInv` says what holds
once `Stop` is past its join. Either
the control thread has exited, and `UpdateBase`, the only other step that writes
`motors`, is disabled for good; or the signal came before `Run` started that thread.
Then `Run` starts it after the handler has returned, but the input was closed before a
manual mode could use it: `NotMoving` and `AxisEventsUnused` say that every queued
command and the twist are zero and that no axis event is turned into a command any more.
Hence the lemmas on scaling and on a queue of zero commands.

Of `Tbot` two things are proved, for `Rooms`, device queues with room for at least one
frame. The types need what one call of `SendFrame` leaves. `HandledWhileOpen` follows from
`RunsWhileOpen`: whoever leaves a state in which handlers may run has joined the io
thread before.

**`QuadrupedProofs`.** `TypeCorrect` includes that a pose stays within its limit and that
no mode is handed a key it does not know (`KeysSorted`). `StaleInv`: a queue holds one
key, and one pressed before the mode was entered can be taken only if none was.
`GainsInv`: from `Initialize` on the legs have the gains of the mode, through every pair
of modes (`SwitchFits`). `StopInv`: when `Stop` makes up its empty sample, the control
thread is halted for good, because only `Initialize`, which is over by then, sets the
flag of its loop.

**`ServoBusProofs`**, for any servos, ids, requests and faults. `AnswerInv`: while an
answer is awaited, those on their way are to this request or were on their way when it
was made, because a request flushes what was received. `EpromInv` follows `SetMotorId`
through its four stages, `Asked`, `Unlocked`, `Renamed`, `Relocked`, with what is known
of the servo in each as long as no packet of the call was harmed, and says that no other
call unlocks a servo. The third packet goes to the new id; that the servo has it by then
is `Answered`. `TargetsInv` does the same for the packets of the array: as long as
`stale` is false, either every servo is where the array remembers it, or the packet that
puts all of them there has not been sent. A call that returns early changes neither side
of that.

**`Ddsm210Proofs`**, for every length of a frame and any sizes of ring and words such that
the one divides the other. `AgesInv` says of each byte in the ring, by its distance from
the write index, which of the stream it is; in this form an overwrite is just a smaller
number of bytes, and `StreamKept` follows. `FeedbackIsNewest` speaks only of the moment
between two calls, and is far from inductive. `StreamInv` is about the whole `Stream`,
received and under way, of which the first `Taken` bytes have left the ring: frames are in
order, the feedback is not newer than any byte that is left, and an undamaged frame
of this motor is somewhere in the stream, either not begun or behind with feedback that is
as new. The heart is that a turn of `Decode` never drops the first byte of such a frame:
it would have been valid. At the end of the loop less than a frame is left, so that a
frame that has arrived is behind.

**`InputHidProofs`**, for any events of the devices and any length of the kernel's
queue. `CallbacksInTime` follows from `OwnerInv`: while the driver's thread works, the
owner runs or waits in its join. That a joystick may be opened again needs that it keeps
its input and calls nobody. `OrderInv` says of a device that lost nothing: what the
handlers got, followed by the inputs still queued, are the inputs it sent; a joystick
shows the last value read of each axis and button; and a device that is not open has an
empty queue. `InputInOrder` is the part of it that is asked of the code. Which inputs a
list of events means is `InputOf`, a `FlattenSeq`, because some events mean none. That
is a recursive function; its lemmas are proved by induction over a set of natural
numbers, which is well-founded and so has a least counterexample.

Only model-checked:

* Every liveness property, which the prover does not reach.
* The properties of `algorithms` and the types of `Sampling`. What they are about is
  computed by folds with an operator as parameter, by functions extended point by point
  (`:>`, `@@`), and in `KdTree` and `RrtStandalone` by recursive operators, none of which
  the backends can expand. Induction over data is out of their reach as well, except
  where the recursion is one function and the induction can be put as the least element of
  a set, as for `FlattenSeq`.

## 5. What the code does not meet

One statement is refuted by a run: `sbot_lost_stop`. `Run` sets `keep_main_loop_` after it
has started the control thread, so a SIGINT before that is undone; `ControlLoop` has the
same pattern.

Other statements that one would expect are kept in the modules, but in no run, since TLC
violates them. Naming one in the `.cfg` of its run shows the trace.

| Statement | Run | Why it fails |
|---|---|---|
| `Quadruped!PollEnds` | `quadruped` | `PollKeyFunction` pops a second time once, before its loop, and the loop repeats while that pop had a key: with a second key pressed between the two pops the control thread spins for ever (`utils.cpp:49`) |
| `Ddsm210!EveryFrameCounts` | `ddsm_feedback` | `CalculateChecksum` returns `int8_t` and `IsValid` compares it with the `uint8_t` of the frame: a checksum of 128 or more is never valid |
| `AsyncEventDispatcher!OneDispatcher` | `event_delivery` with two `Dispatchers` | the latch of the thread id is a test and a store |
| `Sampling!BestParent` | `algorithms` | the cost through a neighbour is compared with that of the new node, which is still 0 |
| `Sampling!GraphIsFree` | `algorithms` | RRG checks the way from the nearest node where it adds an edge to another neighbour |
| `InputHid!StopAlwaysReturns` | `input_hid` | a `loopbreak` before the loop runs is lost, and the destructor joins for ever |
| `RingBuffer!EmptyAgrees` | `ring_fifo` with `Overwrite = TRUE`, `W = 16` | a write to a full ring masks `read_index_` while `write_index_` counts on; `IsEmpty` and `Read(T&)` compare them unmasked and hand out old elements. `Ddsm210` is safe, because it asks `GetOccupiedSize` first |
| `SbotSystem!StopReturns` | `sbot_run` | `Stop()` closes the RC receiver, whose thread it joins while that sits in a blocking `read()` (`sbus_receiver_impl.cpp:39`): on a silent link it never returns, and the motors are not zeroed |
| `SbotSystem!StopReturns` | `sbot_run`, `sbot_stop_anywhere` | `Stop()` runs in the signal handler; interrupted inside `Push`, the main thread holds the mutex the control thread needs to reach its exit (and the input's thread its queue), and both wait for ever |
| `SbotSystem!StopCompletes` | `sbot_stop_anywhere` | a SIGINT in `Initialize` finds null pointers, one before line 221 is undone |
| `ServoBus!PositionObeyed` | `servo` | a position equal to the remembered one is not sent (`sms_sts_servo_array.cpp:45`), although the packet that should have put the servo there was lost, or `SetPositions` has moved it elsewhere since |
| `MCAlgorithms!AckIsOfNewId` | `algorithms` | `Ddsm210::SetMotorId` clears its flag (`ddsm_210.cpp:83`) and then sets the new id, while the io thread sets the flag for any speed frame with the id that is set: one with the old id in between is taken for the "ack with the new id" the comment at line 92 waits for, and the call reports success although the motor may not have changed |
| `Tbot!ModeAgreed` without `BusKeepsUp` | `tbot` | the mode request and the drive command are two frames: when the queue is full at each request, the slot that becomes free goes to the drive command and the request is never sent |

Where the model does as the code does and the statement that is checked leaves the case
out, the place is named here.

* Motors. `Ddsm210::SetMode` always reports success; an answer in the last wait of
  `SetMotorId` is missed, and one of the old id may be taken (above).
  `Ddsm210Array` keeps an id twice when it is registered twice and erases `end()` for
  one that is unknown; `SetSpeeds` takes ids for positions. `ConfigurePid` of Akelc
  succeeds though its writes fail, and gains keep their lowest byte only;
  `SetTargetSwitchingFreq` writes the register of the target speed; a failed connect
  leaves the port "open", and `Close` frees the context without forgetting it. VESC's
  callback gets a state with fields of earlier frames. The two wheels of the TBot share
  one integral, so that the error of one can turn the other the wrong way.
* Servos. `-1` is an error and a position; a direct read resets `Err`; a read does not
  look at the id of the answer; `readSCS` spins when the adapter is gone.
* Bases. The forward velocity of a turning wheel uses half the wheel base where the lever
  is half the track; a wheel that must move against the body is driven backwards; a pure
  turn with a steering range of two half turns turns two wheels the wrong way; only errors
  to the left slow the wheels. A negative sum of speeds becomes a huge unsigned one in
  `SpeedActuatorGroup::GetSpeed`. `WsSbotBase::Update` uses a robot that was not made
  when motors are missing.
* Quadruped. The inverse kinematics are undefined for a foot nearer than the hip link is
  long, and the rotation vector for half turns about y or z. Minimum and maximum of
  `BalanceTestMode` are exchanged.
* Input devices. A change of devices lets the joystick close itself on its own thread,
  which ends the process; `SYN_DROPPED` is ignored; buttons keep their values over `Close`
  and `Open`.
* IMU and CAN. The value -1 of the byte decoder runs the callback with the old data; a
  read error on the io thread of `AsyncCAN` ends the process; a frame that has to wait is
  read from a stack that is gone.
* Grids. Copies lose their offset; a square grid is assigned nothing, and one that is
  moved from deletes its cells as well; the assignment of a moved curvilinear grid leaks;
  with an even number of cells `GetCell` is off by one. Normalising a matrix adds its
  least element.
* Geometry. The factor of another point decides the side in `CalculateDirection`; whether
  segments cross is tested from one side; the box of a polygon begins at the smallest
  positive number and is not reset by `SetPoints`.
* Index and standalone planner. The float variants of `kdtree.c` pass a null buffer; a
  range search misses points at exactly the range beyond a plane; `kd_res_item3` returns
  null. `setSystem` keeps deleted vertices; the cost to go is measured with the first
  coordinate only.
* Predictions. `Propagate` repeats its steps when called twice; `GetStateCell` forgets the
  lower ends of the space; all cells beside the middle have one weight in
  `LateralDistribution`; the propagation of a vehicle never advances its time; a second
  `SetPose` moves a footprint again; threats that several threads insert may be lost;
  without a threat their centre divides by zero.
* Files. A missing entry throws, and a refused file leaves its configuration half filled;
  a word that is no number is read for ever, a trailing blank repeats the last value, and
  an empty file divides by zero; the name of an image is looked up without its suffix.

## 6. Plan

Done: every component of section 1 that decides something. What is left, in order:

1. Proofs: paths and costs of `Sampling` (`PathIsFree`, `CostsAreLengths`), after its
   trees are written with function constructors instead of `:>` and `@@`.
2. `Ddsm210`'s requests over a line with delays, composed with `AsyncSerial`, as one
   state machine instead of the waits of `Ddsm210Protocol`.
3. The mutex of the VESC interface, and the moves of `ThreadSafeQueue` once something
   uses them.

## 7. Not modelled, and why

* Floating-point algebra: robot models, the balance controller and the filters of the
  quadruped, splines and curves, the state lattice, mapping and estimation. What these
  compute, not what they decide, is their purpose, and it has no finite instance.
* Wrappers and generated code: `spdlog`, DDS and shared memory, the GUI's widgets and
  plots, drawing with OpenCV.
* `EventDispatcher`: a loop over a vector on one thread that no program uses. `Pop` of
  `ThreadSafeQueue` appears only as a guard, its moves have no caller; handlers of the
  dispatcher that throw are left out.
* Installing and uninstalling the port in `SbusReceiver`, and the registration of servos
  with `SmsStsServoArray`.
* `sensor_imu/src/serial_imu.cpp`, which includes a decoder that is not in the repository.
* Vendored code (`third_party`) and absent submodules. The standalone RRT\* under
  `planning/sampling/reference` is modelled, since the repository keeps it as its own
  reference.
* The CRC of the DDSM frames is taken to tell frames from noise in `Ddsm210`.
