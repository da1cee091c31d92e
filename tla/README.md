# A TLA+ model of auto_serial_bridge

auto_serial_bridge connects ROS 2 topics to a microcontroller over a serial
line. One YAML file describes the packets; a generator writes the C++ bindings
for the ROS node and the C receiver for the MCU. At run time the node opens the
port, checks a protocol hash (handshake), watches the line with heartbeats,
reconnects when the line fails, and offers reliable packets that are retried
until acknowledged.

This directory models that run-time behaviour, checks it with TLC on small
instances and proves the main results for every value of the constants with
TLAPS. `PROJECT.json` lists the components, the runs, the source lines behind
each definition, the hazards and the theorems.

## 1. The system

### Components

| Component | Source | State | Operations |
|---|---|---|---|
| Reliable sender | `include/auto_serial_bridge/reliable_sender.hpp` | per packet id a deque of pending entries (frame, seq, flags, retry count, timer), one 8-bit seq counter | `send`, `on_ack_received`, `clear_all`, the completion of a write, the retry timer |
| Serial controller | `src/serial_controller.cpp`, `serial_controller.hpp` | port, connection generation, state (waiting for the handshake / running), ready flag, transmit queue, write flag, heartbeat counters, number of operations in flight, shutdown flags | connection timer, heartbeat timer, posted sends, read and write handlers, `reset_serial`, the destructor |
| Packet handler | `packet_handler.hpp` | ring buffer with head and tail | `pack`, `try_push_byte`, `parse_packet`, `feed_data_with_recovery`, `reset` |
| MCU protocol | `scripts/codegen.py` `generate_mcu_source` | static variables of the receiver: state, buffer, counts, checksum; seq of the last reliable packet | `protocol_fsm_feed`, automatic replies (ACK, heartbeat echo, handshake), `send_*` |
| Code generator | `scripts/codegen.py` | the YAML file, the generated output, what is installed at each end | validation, merging the system packets, payload sizes, protocol hash, text generation |
| ROS bindings | `codegen.py` `generate_ros_bindings`, `serial_controller_bindings.cpp`, `serial_node.cpp` | subscriptions and publishers | check the sizes of a message's arrays, fill a packet, call `async_send` or the reliable sender; resize a message, write a packet into it, publish |
| Protocol editor | `web/` | one YAML document in a browser | edit, validate, export |
| Launch, udev, build checks | `launch/`, `scripts/auto_udev.sh`, `checksum_build_matrix.py`, `public_source_scan.py` | none | deployment and CI scripts |

### How they interact

* ROS timers and subscription callbacks run on the threads of the executor.
  They do not touch the controller: `post_serial` puts a task on the *strand*
  of the I/O context, unless `shutting_down_` is set. Everything else (tasks,
  read and write handlers, retry handlers) runs on the strand, one at a time.
* The reliable sender hands each attempt to the controller's
  `async_send_impl` with a completion. The completion may be called at once
  (not connected, handshake missing, queue full), from `handle_write`, or from
  `reset_serial` for every frame still queued.
* The read handler feeds what it read to the packet handler, whose consumer
  is `handle_packet`: a Handshake may start the link, a Heartbeat ends a wait,
  an Ack goes to the reliable sender, which may *send* from within, which may
  throw and *reset* the controller and the packet handler under the loop that
  is still feeding them.
* `reset_serial` closes the port and starts a new connection generation;
  handlers of the old one still run later, and must change nothing but the
  count of operations.
* The destructor sets the flag, posts a lambda that closes everything, and
  waits until no operation is in flight.
* The MCU answers each valid Heartbeat, Handshake and reliable packet by itself.
* One build generates both ends, but they are installed separately: the node is
  started from the install directory, the firmware is copied from it and
  flashed. The handshake compares the protocol hashes of the two.

### What is hard here, and what correctness means

| Part | Hard behaviour | Correct means |
|---|---|---|
| Reliable sender | lost and duplicated frames and ACKs, ACK before the completion of its write, retry handlers that can no longer be cancelled, reconnections, seq wrap | every message reaches the MCU callback at least once and in order per id; never two writes of one id; nothing is left without a wake-up; everything is acknowledged in the end |
| Serial controller | resets inside handlers, starts of operations that throw, handlers of old generations, shutdown against other threads | the count of operations is exact; a connection always has a read and a non-empty queue a write; each completion is called once; `ready` says what it should; the link recovers; the destructor returns and leaves nothing behind |
| Packet handler | frames cut anywhere, noise, false starts, a full ring in mid-read | every frame in the stream is delivered once; nothing else is; nothing is lost by overflow; the loops end |
| Code generator | the two ends come from different versions of the file; files nearly valid | whatever was built is consistent; the handshake accepts exactly the ends that agree |
| ROS bindings | array indices in the protocol file against ROS messages of any size, nested arrays, arrays of fixed capacity, narrow wire types | no array is indexed beyond its end; nothing is dropped that could be sent; what is sent is what was received |
| MCU receiver | the same without a second look at any byte, and no reset | no write outside the buffer; only whole frames are delivered; it finds its way back |

The list of hazards in `PROJECT.json` names the line of each of these and the
property that covers it.

## 2. Modules

```
AtLeastOnceFifo        what the reliable channel promises
  ^ implemented by
ReliableSender         sender + transmit queue + line + MCU acknowledgement
  MCReliableSender     instances for TLC
  ReliableSenderProofs

SerialController       connection, handshake, heartbeat, I/O, shutdown
  SerialControllerProofs

SerialBridge           the node as it runs: EXTENDS SerialController, takes the
                       steps of an entry from ReliableSender (INSTANCE), and
                       implements AtLeastOnceFifo until shutdown
  MCSerialBridge       instances for TLC
  SerialBridgeProofs   EXTENDS SerialControllerProofs too

WireFormat             frames, checksums, payload sizes
  WireFormatProofs     facts both receivers' proofs use
FrameStream            what a receiver of frames promises
  ^ implemented by
PacketHandler          ring buffer, parse_packet, feed_data_with_recovery
  MCPacketHandler      instance for TLC
  PacketHandlerProofs
McuFsm                 the generated byte-by-byte receiver
  MCMcuFsm             instance for TLC
  McuFsmProofs

ProtocolBuild          validation, protocol hash, two builds of one file
  MCProtocolBuild      instance for TLC
RosBindings            the generated subscription callback and dispatch case
  MCRosBindings        instance for TLC
CodegenProofs          about both

FoldFacts              what a fold over a sequence computes, for any operator;
                       the proofs take an instance for each fold of the model
```

### ReliableSender

A message of an id is its number; the number is the payload. `pending[k]` is
the deque of an id, with the flags of `PendingEntry`. Since all handlers run on
the strand, each handler is one action with all its nested calls: `Send` and
`RetryTimeout` include `attempt_send`, which includes the synchronous
completion with `false` (`AttemptRejected`); `AckAccepted` includes the send of
the next entry; `LinkDown` is `reset_serial`, which completes every queued
write with `false`. `timeouts` holds retry handlers already posted, which
`cancel()` cannot withdraw. The line may lose frames and ACKs; it does not
reorder, as a serial line does not. `McuReceive` is the generated code: call
the callback, store the seq, send the ACK. Retransmissions create the
duplicates.

`reused` records whether a seq was given to a message of an id while a frame or
ACK with that seq and id was still travelling. The safety claims are stated
for behaviours without such a reuse; section 5 says what happens with one.

### SerialController

`ctl` is a record with one field per member; the functions of the code are
operators from record to record (`Reset`, `SendImpl`, `StartNextWrite`,
`HandlePacket`, ...), and each task or handler is an action that composes them
in the order of the code. `ctl.strand` is the queue of posted tasks; the read
handler is broken into one action per packet (`ReadDone`, `ParsePacket`,
`ParseAck`), during which nothing else runs on the strand (`StrandFree`),
because the position of a reset within a chunk matters. `throws` is the outcome
of starting a read or write, which asio may report by an exception.

Abstractions:

* The generation of an operation is only ever compared with the current one,
  so an operation is current (`reading`, `writing`) or one of `stale_ops`.
* Between two steps `serial_port_` is set and open exactly when
  `is_connected_`; the branches for a missing or closed port are unreachable.
* Dispatching a business packet to a ROS topic changes no controller state and
  is left out. Sends by the reliable sender are over-approximated:
  `ReliableAttempt` may come at any time, and an ACK may or may not send.
* Memory exhaustion is not modelled.
* `strict_heartbeat_` is a member, chosen in `Init` from `HeartbeatModes`.
* `racers` are threads that have passed the check in `post_serial` when
  `shutting_down_` is set, and `LateTasks` what they were posting, any of the
  four things the code posts: the check of a timer (`check_connection`), its
  heartbeat, a best-effort send (`LatePost`), or a `reliable_send`. The last puts
  a message into the sender behind `clear_all`, and retries of it may follow at any
  time (`MaySend`). None of these tasks looks at `shutting_down_` again;
  `check_connection_impl` opens the port, clears `shutdown_requested_` and starts
  a read.
* The end of the heartbeat window while the heartbeat or its answer still
  travels counts as a fault (a late answer); otherwise it is free.

### SerialBridge

The two halves of the node put together, in place of the approximation each
makes of the other: `ReliableAttempt` and `ParseAck` of the controller, which
send at any time, become the sends of a real queue, and `LinkDown` and the
completions of the sender become what the controller really does to a frame.
`ctl` is the controller's record, and a frame of the transmit queue may be a
reliable one, which carries the write of the sender it belongs to.

Every action of `SerialController` appears once in `BridgeNext`, with what the
sender hears of it: nothing (`Silently`), that all queued writes have failed
(`Resetting`, after the reset), or that only if starting a read or a write
throws (`Starting`). `Attempt` is `attempt_send`: it launches the entry,
calls `async_send_impl`, and deals with the three ends that come before it
returns: refused, reset by a throwing start, or queued. `AfterReset` is the order
within `reset_serial`: `clear_all` once `shutting_down_` is set, then the
completions, which find nothing then. `SendReliable` is any thread;
`RunReliable`, `RunRetry` and `ParseReliableAck` are the three ways into the
sender. `Writes`, `AcksUnderway` and `AllFailed` are folds over the frames or
packets, each with its step as an operator of its own (`WithWrite`, `WithAck`,
`WithFailed`). The retry handlers hold a weak pointer and so do not keep the
controller alive; they are handlers on the strand, not counted operations.

The line is that of `SerialController`: a frame is delivered when its bytes
leave, unless it is lost, and its ACK travels with the other packets.

### WireFormat, FrameStream, PacketHandler

`FrameStream` says what any cutting of a stream into reads must give: the front
of the unread bytes is delivered if it is a frame, one byte is passed over if
no frame can begin with it *whatever follows*, and bytes are lost otherwise only
with the connection. `PacketHandler` has the two loops of the code, one action
per step: pushing, draining a full ring in mid-read, the overflow recovery, the
final parse, and a reset by the consumer or between reads. The unread bytes of
the abstraction are the ring's contents followed by the rest of the read.
Histories count the bytes taken, passed over, voided by a reset and dropped.

`capacity_` is the power of two above `buffer_size`. `validate_protocol` rejects
a `buffer_size` below the largest frame (`codegen.py:1412-1425`), so the
refinement is claimed for `capacity > MaxFrame`; the other properties are
claimed without that guarantee.

### McuFsm

`protocol_fsm_feed` as a function `Fed` of the static variables and a byte, one
operator per `case`, with the recursive call of the length check written out.
The only action feeds any byte at any time. `recent` is the longest end of the
bytes since the last packet that may begin a frame, which is what is needed to
say where a received packet came from.

### ProtocolBuild

A protocol is a record of the keys of `protocol.yaml` that reach the wire. The
file is edited one key at a time (`Edit`), also to what validation rejects;
`Build` is the generator's `main`, which fails on an invalid file and leaves the
installed one; `StartNode` and `FlashFirmware` install one end. `Valid`,
`PayloadSize`, `Merged` and `HashInput` are the functions of the generator.
`RosSends`, `RosTakes`, `McuSends` and `McuTakes` are what the generated code of
each end sends and takes: id, C types, length, acknowledged or not.
`Compatible` compares the ends of two versions.

A length has two sources. The generator adds up a table of sizes, in which a type
it does not know counts as one byte (`PayloadSize`), for the limits: the length byte,
`rx_buffer`, `MAX_PACKET_PAYLOAD_SIZE`, the ring. The code it writes takes
`sizeof` of the packed struct (`StructSize`, `WireLength`), which each end's compiler
works out, and `SizeOf` gives that per end for every type the compilers know; a
file with another type does not build (`Compiles`). Validation ties the two
together for the fields of the messages in the file. It does not look at the values of
`type_mappings`, nor at the types of the built-in messages: `uint32_t: double` makes
Heartbeat and Handshake eight bytes long, counted as one. `BuiltinsFit`
says when the built-in messages have one size at both ends, within the limits,
and the properties state that the ends understand each other exactly then.
(The repository's `README.md:110` says that an alias maps to a fixed-width C type; a file
whose aliases keep to the five types of the table meets `BuiltinsFit`.)

MD5 is not modelled: the hash is its input, so two versions whose 32-bit hashes
collide are outside the claims. `ignore_version_mismatch`, which accepts any
firmware, is too.

### RosBindings

A message of the protocol file has fields, each with a path into the ROS type
such as `poses[1].covariance[0]` and a wire type. The generator turns the paths
into one size check per indexed array, and emits the checks in an order, the
assignments in another. The module runs the emitted code: `Callback` takes any
ROS message, `CheckLength` is one emitted check and return, `FillField` one
assignment with its range guard, `Dispatch`, `EnsureSize` and `WriteAndPublish`
the way back. A ROS message is the length of each array and the values at the
paths; `Fixed` gives the arrays that are `std::array`, whose length no message
and no resize changes.

The order of the checks is that of the expressions as strings; what is kept
of it is that a prefix comes first (`CheckedBefore`), so more orders are
allowed than the generator can emit. The wire types are one as wide as the
ROS integer, and `uint8_t`, which is guarded in an `Int32MultiArray` only.

## 3. Runs

| Run | States | Shows |
|---|---|---|
| `reliable_safety` | 493,921 | types, `AtLeastOnce`, `NeverStranded`, `OneCurrentWrite`, `InOrder` and the inductive invariant, with a seq counter of two values, so that it wraps at once |
| `reliable_live` | 38,719 | `EventuallyAcked` across two faults, and that the channel implements `AtLeastOnceFifo` when there are more seq values than messages |
| `reliable_seq_wrap` | violation | section 5, first item |
| `controller_modes` | 3,044,233 | the count of operations, no stall, completions once, types and `ready`: no handshake, both heartbeat modes, throwing starts, I/O errors, shutdown anywhere, a ring smaller than a read, a thread that races with the destructor in any kind of post, two old operations |
| `controller_ready` | violation | section 5, second item |
| `controller_late_post` | violation | section 5, third item |
| `parser_stream` | 866,175 | `ImplementsStream`, `NeverOverflows`, `DropsCounted`, `WaitIsShort`, `Returns` |
| `fsm_receive` | 10,584 | `BufferInBounds`, `GenuineOnly`, `DecodesFrames`, `Recovers` |
| `protocol_hash` | 25,676 | the handshake accepts exactly the pairs of versions with the same contract, in whatever way the files were edited and installed; the ends of such a pair understand each other exactly if the built-in messages fit; whatever was built is sound |
| `bridge_safety` | 1,592,807 | the composed node: the sender is always served, the abstract FIFO is implemented until shutdown, nothing is left in the queues by the destructor; handshake first, `ready` and a quiet end with the real sender |
| `bridge_live` | 53,253 | every message is acknowledged, the link stays ready, the destructor returns |
| `bindings` | 91,608 | no index out of bounds, nothing dropped without cause, values survive the round trip |

Every property of a passing run has a mutant in `PROJECT.json`: a plausible bug
in a mapped definition that makes the same run fail.

### Bounds, and why they suffice

* **Reliable sender.** Ids interact only through the seq counter and the
  transmit queue, so two ids show every interaction; the second message of an
  id is the one a stale ACK, handler or frame can hurt. `TxCapacity = 1` makes
  the queue full. Two frames in each direction allow an old copy and a new one.
  `SeqValues = 2` is the hardest case for safety, 4 exceeds the messages sent.
* **Controller.** One fault is enough to reach a reset inside every handler;
  after it the system is in a state of a fresh connection plus old operations,
  of which `MaxStale` bounds how many pile up. Two values of the heartbeat
  count tell the awaited answer from an earlier one. `TxCapacity = 2` holds a
  frame being written and one waiting. `RingPackets` below `ChunkPackets` lets
  the ring spill in mid-read. Shutdown is free at any point.
* **Bridge.** Two messages of one id in the safety run: the second is what a
  late completion or ACK of the first can hurt; ids meet only in the transmit
  queue, which heartbeats and handshakes fill here. Three seq values exceed the
  messages sent, so no seq is reused in flight (with reuse the sender alone
  already fails, section 5). Shutdown, a lost frame or packet, a failed open,
  an I/O error or a throwing start may come at any point, one of them in a
  behaviour. In the liveness run one message, and one task waiting for the
  strand: with a transmit queue of two, a backlog of heartbeat ticks would fill
  it at each retry, which a queue of the real size does not suffer. No thread races
  with the destructor (`MaxRacers = 0`): that is the finding of
  `controller_late_post`.
* **Parser.** Four byte values (two headers, two ids, which are also lengths and
  checksums, so that everything can be mistaken for everything), payloads of
  one and two bytes, checksum SUM8 modulo 4. Streams are all concatenations of
  three pieces: frames, a frame with a header in its payload, wrong checksums,
  truncated frames, noise. Reads of 1, 4 and 12 bytes are shorter than a frame,
  about a frame, and longer than the ring. A ring of 8 is the smallest legal
  one; a ring of 4 holds no frame and makes the overflow recovery run, which a
  legal ring never does (that is what `NeverOverflows` says).
* **MCU receiver.** Any byte sequence of any length: the state space is finite.
  `DecodesFrames` and `Recovers` run the receiver over every frame from every
  reachable state.
* **Protocol versions.** Node and firmware differ by at most two edits, from two
  messages (one reliable, one in both directions, listed against the order of
  their ids, with an alias): each key that reaches the hash is changed alone and
  with another one. Ids 253 (reserved) and 256, names that clash only in upper
  case, empty and unknown types, payloads that are too long, or too long only
  when reliable (`LengthLimit = 8` for 255), and rings too small by one edit
  are all rejected ones. The type mappings rename types of the built-in messages:
  to one of the table, to `double` (eight bytes at both ends, counted as one), to
  `long` (eight bytes on the node, four on the MCU), and to a type no compiler
  knows. Both the pairs whose built-in messages fit and those whose messages do
  not are reached with equal hashes.

* **Bindings.** Up to two fields from six paths: plain, one array, an array in
  an element of an array, the same array at a smaller and a larger index, a
  fixed array within and beyond its capacity. Arrays of length 0 to 2, values
  below, in and above the range of the byte. What more fields or deeper
  nesting could do is covered by the proof.

`CHECK_DEADLOCK FALSE` appears where the system really stops: after shutdown,
or at the end of a stream.

### Fairness

* `ReliableSender`: weak fairness of each handler posted to the strand, of the
  driver, the MCU and the reconnection, because asio runs every posted handler
  and the connection timer ticks for ever; strong fairness of the completion
  of a write at the head of the queue per id, because the queue is FIFO. Losses
  are never forced and at most `MaxFaults` occur. `EventuallyAcked` also
  assumes that the retry interval exceeds a round trip
  (`TimerOutlastsRoundTrip`): the code clears `awaiting_ack` when a retry
  starts and ignores an ACK until the new write has completed, so a timer
  faster than the line can miss every ACK. The default is 100 ms.
* `SerialController`: strong fairness of the timer ticks and of the next task,
  since the strand is FIFO and a task is delayed only by handlers; weak fairness
  of the I/O completions. The port can be opened once faults are over.
  `SlowTimers` says that a frame is written within a timer period (9 bytes at
  115200 baud against one second).
* `SerialBridge`: that of both, with strong fairness of a retry handler, which
  like a task waits its turn on the strand, and of the completion of a write
  whose ACK is already coming (`WriteDoneFirst`): a write completes when its
  last byte is in the driver's buffer, before the MCU can answer. `SlowTimers`
  stands for `TimerOutlastsRoundTrip` as well.
* `PacketHandler`: the loops go on. No read and no reset need come.

## 4. Proofs

All proofs are checked by `tlapm` to the last leaf, for every value of the
constants that satisfies the named assumptions, which TLC evaluates on each run:

* the constants have their types: `IdsAssumption`, `CounterAssumption`,
  `ThresholdAssumption`, `BoundAssumption` (sender), `FlagAssumption`,
  `SizeAssumption` (controller), `BridgeAssumption`, `CapacityAssumption`,
  `StreamAssumption` (parser), `EditsAssumption`, `BindingsAssumption`;
* `ByteAssumption`, `PayloadAssumption`, `ChecksumAssumption`: headers, payload
  sizes and checksums are bytes, and no payload exceeds the largest;
* `FirstAssumption`: the first version of the file is valid and compiles;
* `SizeOfAssumption`: both compilers know the same types, give those of the
  table the table's sizes, and none more than 127 bytes; `LimitAssumption`: the
  length byte can hold eight (the code has 255), as much as two `uint32_t`, the most that a
  built-in message takes with types of the table;
* `UpperAssumption`: the names of the system packets in upper case.

Some theorems have a proviso of their own, stated with them below: `ReadyIsRight`,
`LeavesInOrder`, `NothingInFlight`, `NothingLeft`, `WillBeWoken`, and those about the channel's and the bridge's promise.

Where a definition is a fold or a recursive function, induction comes from the
well-foundedness of the natural numbers: a set of numbers that holds the first
of a range, and with each the next, holds them all (`FoldFacts!Climbs`).
`FoldFacts!FoldSteps` says that a fold is reached from its base one element at
a time; an instance of the module with the fold's own operator in place of `op`
gives this for the checksum, for feeding bytes to the MCU receiver, for payload
sizes, for the completions of a reset and for the writes of a queue.

**Reliable channel** (`ReliableSenderProofs`).
`TypeCorrect` is inductive by itself. The rest follows from `IndInv`, which TLC
checks in `reliable_safety`:

* `QueueShape`: the queue of an id holds its unacknowledged messages in order,
  and only its head has been touched;
* `OneCurrentWrite` and `NeverStranded`, which need the queue shape: a
  completion finds the entry it belongs to because no newer attempt exists;
* `FramesInOrder`: frames of an id on the line are in order, none older than
  what was delivered and none newer than the message being sent;
* `SeqsIdentify`: without reuse, a frame or ACK with the seq of the head entry
  *is* of the head entry. `AtLeastOnce` alone is not inductive: a state with a
  stray ACK of the right seq satisfies it and its successor does not.

Each conjunct has a step lemma with one case per action. `DeliversAtLeastOnce`,
`WritesOneAtATime`, `StrandsNothing` and `DeliversInOrder` are corollaries.
`KeepsPromise` adds that the queues stay empty after shutdown and maps each step
to a step or a stutter of `AtLeastOnceFifo`.

**Serial controller** (`SerialControllerProofs`). The member functions keep
`Consistent`: each operation in flight is counted, an open port goes with any of
them, the write flag with a write, and before the handshake the queue holds
nothing else. `ResetCloses`, `ReadStarts`, `WriteStarts`, `SendKeeps` and
`ContinueFine` say what each function makes of a consistent controller, in
whatever state a handler calls it. Between two steps more is true (`Fine`): a
connection has a read in flight or in its handler, never both, and a queue a
write. The read handler cannot start a second read because of that `never both`.
`TypeCorrect`, `CountIsExact`, `NothingStalls` and `ProbeGoesFirst` follow.
`ReadyIsRight` has the proviso `ChunkPackets <= RingPackets`, that a read fits
into the ring: then a reset in mid-chunk leaves nothing to be parsed. Without it
the property fails (section 5, second item).
`CompletesOnce` counts: `Booked` says that the calls of a completion and the
frames in the queue that carry it are one in number for each send made, none
for the others. `HeldAppend` and `HeldTail` give the number when a frame enters
or leaves.

The destructor is a matter of the order of the tasks on the strand. `Orderly`
says: before shutdown there are ordinary tasks only (`Staying`); after it exactly
one `destroy`, with ordinary tasks before it and nothing behind but what a racing
thread posts (`Leaving`); once it has run the port is closed, nothing is being
read or written and the ring is empty (`Parked`), and the strand holds such late
tasks, or the drain callback among them (`Left`, `Draining`). A late send is refused
by the closed port, a late heartbeat and a retry of a late `reliable_send` find it
closed (`Late`, `OpenOrder`), so `Parked` lasts. `Awaited` relates the count of
operations to the callback. From them, however many sends and heartbeats race:
`NothingInFlight`, the destructor goes on only after every handler has run, and
`WillBeWoken`, while it waits a handler is to come that will look for it.

These two have the proviso `NoLateCheck`, that no thread is in `check_connection`
between the check of `shutting_down_` and the post when it is set
(`serial_controller.cpp:239-243`). Both are false without it. A late `check_connection_impl`
opens the port after the drain and starts a read; if it runs while the destructor
waits it also clears `shutdown_requested_`, and the handler waited for
does not notify. `NothingLeft` (`DrainedIsQuiet`) has the proviso `MaxRacers = 0`, and
`controller_late_post` shows that it is needed: any late task at all is left on
the strand.

**The node** (`SerialBridgeProofs`). The controller's functions are first shown to
do one of few things to the transmit queue: leave it, add one frame, or
empty it and close the port (`Link`, `SameQueue`, `Shut`). The inductive
invariant `BInv` then has these parts:

* `InStep`: for each id, what the queue holds is the latest attempt of the
  message at the front of its deque, at most once (`Single`); and a front that is
  being written has its frame in the queue, any other has its timer armed or a
  retry handler posted (`Awoken`). `Single` and `Awoken` need each other: a reset
  tells the sender of every frame it drops, and each must find the entry it is of
  (`DropInStep`, `ResetInStep`), or a front would stay marked as being written.
* only a front has ever been attempted, and a front has its number;
* tasks, frames and ACKs are of declared ids;
* the tasks are in order (`TInv`, above), and the deques are empty once the
  destructor's lambda has run.

`AttemptAgrees` shows that `attempt_send` keeps it in each of its ends: queued,
refused before it returns, or dropped by the reset of a write that fails to
start. `BridgeKeeps` goes through the steps; those that give the sender no
message, no ACK and no retry of its own are `Gentle`. `ServesTheSender`
(`SenderIsServed`) and `DestroyClears` (`ClearedByDestroy`) follow, the former by
`WritesAre`: the sender's view of the queue, a fold, holds exactly the writes of
its reliable frames.

The promise needs more while the node lives (`Ordered`): of the messages submitted
under an id, the first have been acknowledged, the next are in the deque, the rest are
tasks on the strand, all in order; the MCU has had every acknowledged
message and at most the one after; and an ACK that the front would take means
that it has had that one. As in `ReliableSender` this holds only if no number is given
while an ACK that bears it is on its way (`Unused`), so `NodeKeepsPromise`
assumes `[]Unused`. `EnoughKeepsPromise` has instead a condition on
the constants, that there are more sequence numbers than messages, and shows
that `Unused` then holds: the counter is the number of messages that have had
one, a set that is counted (`Fresh`). The instance of `bridge_safety` meets that
condition.

**Wire format** (`WireFormatProofs`). The bytes of a frame one by one
(`FrameSpelled`, `SpelledIsFrame`), and the checksum of a sequence that
grows (`ChecksumAppend`).

**Parser** (`PacketHandlerProofs`). `RingShape` reads the ring as a sequence, so that
indices modulo the capacity appear in four lemmas only. `Sound`, the types with
what is in hand in each mode, is inductive. A full ring of more than five bytes always
lets `parse_packet` take or pass over something (`FullIsParsed`): hence
`RingNeverOverflows`, and `WaitsAreShort`. `DropsAreCounted` is one case of
arithmetic per action. `HandlerImplementsStream` is the refinement of
`FrameStream`, for a ring that holds every frame: what `parse_packet` takes is a
frame at the front of the unread bytes (`ParsedIsFrame`), and where it
passes over a byte no frame can begin, whatever follows (`NoFrameBegins`).

**MCU receiver** (`McuFsmProofs`). `StaysInBuffer`: the length check gives the
bound, and the count moves to `WAIT_CRC` as it reaches the length. For
`OnlyGenuine`, the static variables stand for the bytes of the frame begun
(`Believed`); `Heard` says that these, if they can begin a frame, are the last
bytes of the line, all after the last packet, and `FsmGood` that the running
checksum is theirs. That needs `recent` to be the *longest* such end: an end of an
end is shorter (`EndsNested`).
`DecodesEveryFrame` follows the receiver along one frame (`Stage`, `Reading`, one lemma
per case). `AlwaysRecovers`: while it is inside what it takes for a frame, what is still
expected falls with every byte (`LeftFalls`), so within `MaxPayload + 3` bytes it
searches for a header; a search crosses the rest of a copy, since the frame
holds no other header (`SearchCrosses`), and the next copy is read whole.

**Protocol hash** (`CodegenProofs`). `InstalledIsValid` is inductive by
itself and reduces the other two theorems to facts about two valid versions.

* `AcceptedIsCompatible`: equal hash inputs give each message of one version a
  counterpart in the other with the same id and C types (`SameMessages`), so
  with the same structs at one end (`SameStruct`) and the same largest count
  (`SameLongest`); then `HashDecides` compares what each end sends with what the other takes,
  where "reliable only for tx" is needed. For the messages of the file the count is
  `sizeof` (`TableSize`), which validation has bounded, so they always fit (`AllFit`); for the
  built-in ones `BuiltinsFit` has to say so, and `FitIsNeeded` shows the other
  direction: if it fails, the MCU sends one of them with a length that the node does not take.
* `AgreeingIsAccepted`: sorting by id is a permutation (`PositionInjective`,
  `PositionOnto`), and the position of a message is the number of records with
  its id or a smaller one (`PositionIsRank`), which does not depend on the order
  of the file. Counting replaces the induction over lists.
* `BuiltSoundly`: the two ends of one build understand each other exactly if
  the built-in messages fit, by the same lemmas; in a valid file the merged ids ascend strictly
  and the names differ in upper case (`MergedApart`); and what the generator counts is within the
  length byte, by validation for the messages of the file, and because two fields
  count eight bytes at most for the built-in ones (`SystemSize`).

**ROS bindings** (`CodegenProofs`). `Checks`: for any list of fields there
is one check per array on the way of a field, for a length that some field asks
for and that is enough for the others; the largest of finitely many lengths
exists by an induction that is had from the well-foundedness of the natural
numbers (`Least`, `Bounded`, `Greatest`). `WayToArray`: what encloses an array on
the way of a path is on the way too. The inductive invariant `BInv` says that
the arrays behind their check are long enough, and what the packet holds; with
the order of the checks it gives `StaysInBounds`, `DropsForCause` and
`ValuesRoundTrip`.

**Only model-checked.** Liveness (`EventuallyAcked`, `StaysReady`, `Drains`,
`Returns`), since TLAPS does not handle fairness and ENABLED. `HandshakeFirst`,
`ReadyIsLinked` and `DrainedIsQuiet` are proved of `SerialController`, whose
reliable sends are any the sender may make, and for the composed node checked by
`bridge_safety` (section 7). No module declares a RECURSIVE operator.

## 5. Where the code and its documentation disagree

1. **`reliable_seq_wrap`.** `seq_counter_` is one `uint8_t` for all ids
   (`reliable_sender.hpp:141`). If a copy of a message of id A waits while 255
   reliable messages of B are sent, the ACK of that copy matches A's next
   message, which is removed without having been delivered. `README.md:123-128`
   promises link-level at-least-once delivery. Checked with the full 8-bit
   counter; the state constraint `WrapScenario` only leaves out other parts of
   the state space.
2. **`controller_ready`.** If the ring holds less than a read (the read buffer
   is 2048 bytes, the default ring 2047), the ring is drained in mid-chunk.
   When an ACK in it sends the next message and starting that write throws,
   `reset_serial` runs inside the loop, which then parses the rest of the
   chunk; a Handshake there sets RUNNING and publishes `ready = true` while
   disconnected (`README.md:99-100`). When a read fits into the ring the
   property holds (`bridge_safety`), because the reset empties the ring.
3. **`controller_late_post`.** `post_serial` checks `shutting_down_` and posts
   in two steps (`serial_controller.cpp:107`), so a thread in between posts a
   task that captured `this` after the drain: a timer callback that is still running
   on another thread of the executor when the destructor resets its timer, or a sender.
   The comment at `serial_controller.cpp:76-77` excludes this. If the
   task is `check_connection_impl` it opens the port again (section 4, destructor).

## 6. Not modelled, and why

* Of the generator: names of fields, topics and ROS types with their checks,
  timing and QoS keys, USER CODE blocks (kept only as long as the build
  directory), collisions of the 32-bit hash. Validation excludes a loop of
  topics within one message only; a `pub_topic` that is the `sub_topic` of another
  message is accepted.
* Of the ROS bindings: the debug texts, wire types narrower than the ROS field
  other than `uint8_t` (floats, 16-bit integers: the cast loses what does not
  fit), indices written with leading zeros, which C++ reads as octal.
* How the generator writes its files: each is replaced atomically, and they
  are built again from the same YAML file if a build is interrupted.
* In the composed node (`SerialBridge`) no thread races with the destructor: its
  `ClearedByDestroy`, `DrainedIsQuiet` and promise are claims without such races.
* User callbacks on the MCU, and `serial_write` called from an interrupt and the
  main loop at once: the header demands that the user make it reentrant.
* `feed_data` without recovery: only tests call it.
* Counters kept for diagnostics, logging, raw-frame dumps.
* Two equal header bytes (which validation accepts), and payloads of four bytes
  or more that contain a header, an id and a length: then the MCU receiver can
  lose a frame after a stray byte, or stay out of step with one frame repeated
  for ever. `DecodesFrames` and `Recovers` name these exceptions in their
  statements.
* The web editor, launch files, udev script and CI scripts: no run-time state.

## 7. Plan

All modules are written and checked; both refinements are theorems, and every
safety property of a run is one of the module that states it. Left, in this order:

1. `SerialBridge`: `HandshakeFirst`, `ReadyIsLinked` and `DrainedIsQuiet` of the
   composed node. The first two want the steps of the controller's `IInv` with reliable
   frames in the queue; the last follows from `TInv` with the count of operations.
2. `SerialController` and `SerialBridge`: that each step of the composed node is a
   step of `SerialController`, whose theorems would then carry over.

## 8. Running

```
tlc -workers 2 -config ReliableSafety.cfg MCReliableSender.tla
tlapm SerialBridgeProofs.tla
```

The modules need the TLA+ community modules and, for the proofs, the TLAPS
library. The table in section 3 is in the order of `PROJECT.json`, which gives
the module and configuration of each run.
