-------------------------- MODULE SerialController --------------------------
(***************************************************************************)
(* The connection side of SerialController: opening and resetting the      *)
(* port, handshake, heartbeat, the transmit queue, the asynchronous reads  *)
(* and writes, and the destructor that waits for them.                     *)
(*                                                                         *)
(* Everything runs on one strand.  Its queue holds the posted tasks; the   *)
(* handlers of I/O operations and retry timers may run between any two of  *)
(* them.  A received chunk is handled packet by packet, so that the port,  *)
(* the MCU and other threads can act in between, but no other task can.    *)
(*                                                                         *)
(* The generation of a read or write matters only through its comparison   *)
(* with connection_generation_, which every reset increases: an operation  *)
(* is current (`reading', `writing') or one of `stale_ops'.  Between two   *)
(* steps serial_port_ is set and open exactly when is_connected_ is true.  *)
(***************************************************************************)
EXTENDS Naturals, Sequences, FiniteSets, SequencesExt

CONSTANTS
  RequireHandshake,  \* config::REQUIRE_HANDSHAKE
  HeartbeatModes,    \* values of config::STRICT_HEARTBEAT to be tried
  HashAccepted,      \* the MCU's hash is equal, or the mismatch is ignored
  HeartbeatValues,   \* 2^32 in the code: heartbeat_count_ is a uint32_t
  TxCapacity,        \* MAX_TX_QUEUE_SIZE
  RingPackets,       \* packets that fit into the ring of PacketHandler
  ChunkPackets,      \* bound: packets that one read returns
  MaxTasks,          \* bound: tasks waiting for the strand
  MaxLine,           \* bound: packets on their way from the MCU
  MaxAttempts,       \* bound: reliable sends, retries included
  MaxData,           \* bound: best-effort sends
  MaxFaults,         \* bound: I/O errors, failed opens, lost or late packets
  StartMayThrow,     \* starting a read or write can throw
  MaxRacers,         \* bound: posters past the check when shutdown begins
  LateTasks,         \* what they were posting
  MaxStale,          \* bound: handlers of closed ports that have yet to run
  SlowTimers         \* a frame is written in less than a timer period

ASSUME FlagAssumption ==
  /\ {RequireHandshake, HashAccepted, StartMayThrow, SlowTimers} \subseteq BOOLEAN
  /\ HeartbeatModes \in (SUBSET BOOLEAN) \ {{}}
  /\ LateTasks \subseteq {"check", "heartbeat", "send", "reliable"}
ASSUME SizeAssumption ==
  /\ HeartbeatValues \in Nat \ {0} /\ RingPackets \in Nat \ {0}
  /\ {TxCapacity, ChunkPackets, MaxTasks, MaxLine, MaxAttempts, MaxData,
      MaxFaults, MaxRacers, MaxStale} \subseteq Nat

VARIABLES
  ctl,            \* the controller: one field per member, see Init
  rest,           \* bytes of the chunk being handled that are not in the ring
  line,           \* packets on their way from the MCU
  flushed,        \* the bytes of the write in progress have left
  window_over,    \* heartbeat_timeout_ms_ has passed since the wait began
  shutting_down,  \* shutting_down_
  racers,         \* threads that passed the check of post_serial before that
  attempts,       \* history: reliable sends handed to async_send_impl
  data,           \* history: best-effort sends posted
  faults          \* history: how much of MaxFaults is used up

vars == <<ctl, rest, line, flushed, window_over, shutting_down, racers,
          attempts, data, faults>>

Counts == 0 .. HeartbeatValues - 1

\* A frame to the MCU, with the reliable send whose completion it carries
\* (0: none), and a packet from it.
Frame  == [id : {"handshake", "heartbeat", "data", "reliable"},
           count : Counts, attempt : 0 .. MaxAttempts]
Packet == [id : {"handshake", "heartbeat", "ack"}, count : Counts]

Handshake     == [id |-> "handshake", count |-> 0, attempt |-> 0]
Heartbeat(n)  == [id |-> "heartbeat", count |-> n, attempt |-> 0]
DataFrame     == [id |-> "data", count |-> 0, attempt |-> 0]
Reliable(a)   == [id |-> "reliable", count |-> 0, attempt |-> a]

\* A task on the strand; the frame of a send has no completion.
Do(what)  == [do |-> what, frame |-> Handshake]
Send(f)   == [do |-> "send", frame |-> f]
Task      == [do : {"check", "heartbeat", "send", "destroy", "drained"},
              frame : {f \in Frame : f.attempt = 0}]

One(b) == IF b THEN 1 ELSE 0

FirstState == IF RequireHandshake THEN "WAITING_HANDSHAKE" ELSE "RUNNING"

-----------------------------------------------------------------------------
(* The member functions, as functions of the controller.                   *)

\* completion(ok) of the frames in fs that still have one.
Complete(c, fs) ==
  [c EXCEPT !.called =
     [a \in DOMAIN @ |->
        @[a] + Cardinality({i \in 1 .. Len(fs) : fs[i].attempt = a})]]

\* post_serial; a task posted once shutdown has begun is dropped.
Post(c, task) ==
  IF shutting_down THEN c ELSE [c EXCEPT !.strand = Append(@, task)]

\* notify_serial_ops_drained, on the strand.
Notify(c) ==
  [c EXCEPT !.drain = "posted", !.strand = Append(@, Do("drained"))]

\* Mutant of Reset: the topic goes on saying ready.
ResetStillReady(c) ==
  [Complete(c, c.tx_queue) EXCEPT
     !.is_connected = FALSE, !.stale_ops = @ + One(c.reading) + One(c.writing),
     !.reading = FALSE, !.writing = FALSE, !.shutdown_requested = TRUE,
     !.tx_queue = <<>>, !.tx_write_in_progress = FALSE, !.ring = <<>>,
     !.state = FirstState, !.awaiting_heartbeat_ack = FALSE]

\* Mutant of Reset: operations of the closed port are no longer counted.
ResetForgetting(c) ==
  [Complete(c, c.tx_queue) EXCEPT
     !.ready_state = FALSE, !.is_connected = FALSE, !.pending_serial_ops = 0,
     !.stale_ops = @ + One(c.reading) + One(c.writing),
     !.reading = FALSE, !.writing = FALSE, !.shutdown_requested = TRUE,
     !.tx_queue = <<>>, !.tx_write_in_progress = FALSE, !.ring = <<>>,
     !.state = FirstState, !.awaiting_heartbeat_ack = FALSE]

\* reset_serial
Reset(c) ==
  LET r == [Complete(c, c.tx_queue) EXCEPT
              !.ready_state = FALSE, !.is_connected = FALSE,
              !.stale_ops = @ + One(c.reading) + One(c.writing),
              !.reading = FALSE, !.writing = FALSE,
              !.shutdown_requested = TRUE,
              !.tx_queue = <<>>, !.tx_write_in_progress = FALSE,
              !.ring = <<>>,
              !.state = FirstState,
              !.heartbeat_count = 0, !.last_heartbeat_tx_count = 0,
              !.awaiting_heartbeat_ack = FALSE]
  IN  IF r.pending_serial_ops = 0 /\ r.drain = "waiting" THEN Notify(r) ELSE r

\* Mutant of CompleteOp: the last operation does not wake the destructor.
CompleteOpQuietly(c) ==
  [c EXCEPT !.pending_serial_ops = IF @ > 0 THEN @ - 1 ELSE 0]

\* complete_serial_op
CompleteOp(c) ==
  LET r == [c EXCEPT !.pending_serial_ops = IF @ > 0 THEN @ - 1 ELSE 0] IN
    IF r.shutdown_requested /\ r.pending_serial_ops = 0 /\ r.drain = "waiting"
    THEN Notify(r)
    ELSE r

\* Mutant of StartReceive: the connection outlives a read that did not start.
StartReceiveDeaf(c, throws) ==
  IF ~c.is_connected \/ throws THEN c
  ELSE [c EXCEPT !.pending_serial_ops = @ + 1, !.reading = TRUE]

\* start_receive, which resets when starting the read throws.
StartReceive(c, throws) ==
  LET started == [c EXCEPT !.pending_serial_ops = @ + 1, !.reading = TRUE] IN
    IF ~c.is_connected THEN c
    ELSE IF throws
         THEN Reset([CompleteOp(started) EXCEPT !.reading = FALSE])
         ELSE started

\* start_next_write, likewise.
StartNextWrite(c, throws) ==
  LET started == [c EXCEPT !.pending_serial_ops = @ + 1, !.writing = TRUE,
                           !.tx_write_in_progress = TRUE]
  IN  IF c.tx_write_in_progress \/ c.tx_queue = <<>> THEN c
      ELSE IF throws
           THEN Reset([CompleteOp(started) EXCEPT !.writing = FALSE,
                                                  !.tx_write_in_progress = FALSE])
           ELSE started

\* Mutant of Admits: the handshake is not waited for.
AdmitsAnything(c, f) == c.is_connected /\ Len(c.tx_queue) < TxCapacity

\* async_send_impl lets frame f into the queue.
Admits(c, f) ==
  /\ c.is_connected
  /\ RequireHandshake /\ c.state = "WAITING_HANDSHAKE" => f.id = "handshake"
  /\ Len(c.tx_queue) < TxCapacity

\* async_send_impl
SendImpl(c, f, throws) ==
  IF Admits(c, f)
  THEN StartNextWrite([c EXCEPT !.tx_queue = Append(@, f)], throws)
  ELSE Complete(c, <<f>>)

\* process_handshake, for a well-formed payload.
ProcessHandshake(c) ==
  IF HashAccepted
  THEN [c EXCEPT !.state = "RUNNING", !.ready_state = TRUE,
                 !.heartbeat_count = 0, !.last_heartbeat_tx_count = 0,
                 !.awaiting_heartbeat_ack = FALSE]
  ELSE c

\* Mutant of HandlePacket: the echo is compared with the next count.
HandlePacketOffByOne(c, p) ==
  CASE p.id = "heartbeat" ->
         IF c.state = "RUNNING" /\ p.count = c.heartbeat_count
         THEN [c EXCEPT !.awaiting_heartbeat_ack = FALSE]
         ELSE c
    [] p.id = "handshake" ->
         IF c.state = "WAITING_HANDSHAKE" THEN ProcessHandshake(c) ELSE c
    [] OTHER -> c

\* handle_packet, without the ACK.
HandlePacket(c, p) ==
  CASE p.id = "heartbeat" ->
         IF c.state = "RUNNING" /\ p.count = c.last_heartbeat_tx_count
         THEN [c EXCEPT !.awaiting_heartbeat_ack = FALSE]
         ELSE c
    [] p.id = "handshake" ->
         IF c.state = "WAITING_HANDSHAKE" THEN ProcessHandshake(c) ELSE c
    [] OTHER -> c

\* The part of the next chunk that fits into the ring, and what does not.
Fits(s)  == SubSeq(s, 1, IF Len(s) < RingPackets THEN Len(s) ELSE RingPackets)
Spills(s) == SubSeq(s, RingPackets + 1, Len(s))

-----------------------------------------------------------------------------
Init ==
  /\ \E strict \in HeartbeatModes :
     ctl = [is_connected |-> FALSE,            \* is_connected_
            strict_heartbeat |-> strict,       \* strict_heartbeat_
            state |-> FirstState,              \* state_
            ready_state |-> FALSE,             \* ready_state_, as published
            tx_queue |-> <<>>,                 \* tx_queue_
            tx_write_in_progress |-> FALSE,    \* tx_write_in_progress_
            pending_serial_ops |-> 0,          \* pending_serial_ops_
            shutdown_requested |-> FALSE,      \* shutdown_requested_
            heartbeat_count |-> 0,             \* heartbeat_count_
            last_heartbeat_tx_count |-> 0,     \* last_heartbeat_tx_count_
            awaiting_heartbeat_ack |-> FALSE,  \* awaiting_heartbeat_ack_
            ring |-> <<>>,                     \* packets in packet_handler_
            drain |-> "none",                  \* pending_serial_drain_callback_
            strand |-> <<>>,                   \* tasks posted to serial_strand_
            reading |-> FALSE,                 \* a current read is in flight
            writing |-> FALSE,                 \* a current write is in flight
            stale_ops |-> 0,                   \* operations of older generations
            called |-> [a \in 1 .. MaxAttempts |-> 0]]  \* completions called
  /\ rest = <<>>
  /\ line = <<>>
  /\ flushed = FALSE
  /\ window_over = FALSE
  /\ shutting_down = FALSE
  /\ racers = 0
  /\ attempts = 0
  /\ data = 0
  /\ faults = 0

Handling  == ctl.ring # <<>> \/ rest # <<>>
Destroyed == ctl.drain = "done"

\* The strand is free to run something else.
StrandFree == ~Handling /\ ~Destroyed

\* Task `what' is next.
Next_is(what) ==
  /\ StrandFree
  /\ ctl.strand # <<>>
  /\ Head(ctl.strand).do = what

Popped == [ctl EXCEPT !.strand = Tail(@)]

\* Outcome `bad' of an operation is a fault.
Fault(bad) ==
  /\ bad => faults < MaxFaults
  /\ faults' = faults + One(bad)

Throws(bad) ==
  /\ bad => StartMayThrow
  /\ Fault(bad)

\* A reset closes the port: the write in progress is cut off.
CutOff == flushed' = (flushed /\ ctl'.writing)

envVars == <<line, window_over, shutting_down, racers>>

-----------------------------------------------------------------------------
(* Posting.                                                                *)

\* Another thread, a timer or a subscription, passes post_serial's check.
PostTask(task) ==
  /\ ~shutting_down
  /\ Len(ctl.strand) < MaxTasks
  /\ ctl' = Post(ctl, task)

TimerTick(what) ==
  /\ SlowTimers => ctl.tx_queue = <<>>
  /\ PostTask(Do(what))
  /\ UNCHANGED <<rest, flushed, envVars, attempts, data, faults>>

SendData ==
  /\ data < MaxData
  /\ data' = data + 1
  /\ PostTask(Send(DataFrame))
  /\ UNCHANGED <<rest, flushed, envVars, attempts, faults>>

\* ~SerialController up to the post of its lambda.
Shutdown ==
  /\ ~shutting_down
  /\ shutting_down' = TRUE
  /\ racers' \in 0 .. MaxRacers
  /\ ctl' = [ctl EXCEPT !.strand = Append(@, Do("destroy"))]
  /\ UNCHANGED <<rest, line, flushed, window_over, attempts, data, faults>>

\* A thread that passed the check before shutdown posts after it: the check
\* or the heartbeat of a timer, a send (a late reliable_send: see MaySend).
LatePost(what) ==
  /\ racers > 0 /\ what \in LateTasks
  /\ racers' = racers - 1
  /\ ctl' = [ctl EXCEPT !.strand =
               Append(@, IF what = "send" THEN Send(DataFrame) ELSE Do(what))]
  /\ UNCHANGED <<rest, line, flushed, window_over, shutting_down,
                 attempts, data, faults>>

-----------------------------------------------------------------------------
(* Tasks on the strand.                                                    *)

\* check_connection_impl while connected: the port is open, nothing to do.
CheckConnected ==
  /\ Next_is("check")
  /\ ctl.is_connected
  /\ ctl' = Popped
  /\ UNCHANGED <<rest, flushed, envVars, attempts, data, faults>>

\* check_connection_impl when try_open_serial_impl fails.
OpenFails ==
  /\ Next_is("check")
  /\ ~ctl.is_connected
  /\ Fault(TRUE)
  /\ ctl' = Reset(Popped)
  /\ CutOff
  /\ UNCHANGED <<rest, envVars, attempts, data>>

\* Mutant of OpenSucceeds: ready is left to the handshake, required or not.
OpenUnready(throws) ==
  /\ Next_is("check")
  /\ ~ctl.is_connected /\ ctl.stale_ops < MaxStale
  /\ Throws(throws)
  /\ LET opened == [Reset(Popped) EXCEPT !.is_connected = TRUE,
                                         !.shutdown_requested = FALSE]
         reading == StartReceive(opened, throws)
     IN  ctl' = IF RequireHandshake THEN Post(reading, Send(Handshake)) ELSE reading
  /\ CutOff
  /\ UNCHANGED <<rest, envVars, attempts, data>>

\* check_connection_impl when it succeeds.
OpenSucceeds(throws) ==
  /\ Next_is("check")
  /\ ~ctl.is_connected /\ ctl.stale_ops < MaxStale
  /\ Throws(throws)
  /\ LET opened == [Reset(Popped) EXCEPT
                      !.is_connected = TRUE, !.shutdown_requested = FALSE,
                      !.ready_state = ~RequireHandshake]
         reading == StartReceive(opened, throws)
     IN  ctl' = IF RequireHandshake THEN Post(reading, Send(Handshake)) ELSE reading
  /\ CutOff
  /\ UNCHANGED <<rest, envVars, attempts, data>>

\* handle_heartbeat_timer while disconnected or waiting for the handshake.
HeartbeatWaiting ==
  /\ Next_is("heartbeat")
  /\ ~ctl.is_connected \/ ctl.state = "WAITING_HANDSHAKE"
  /\ ctl' = IF ctl.is_connected THEN Post(Popped, Send(Handshake)) ELSE Popped
  /\ UNCHANGED <<rest, flushed, envVars, attempts, data, faults>>

HeartbeatDue ==
  /\ Next_is("heartbeat")
  /\ ctl.is_connected /\ ctl.state = "RUNNING"

\* handle_heartbeat_timer within the window: the same count again.
HeartbeatRetry ==
  /\ HeartbeatDue
  /\ ctl.awaiting_heartbeat_ack /\ ~window_over
  /\ ctl' = Post(Popped, Send(Heartbeat(ctl.last_heartbeat_tx_count)))
  /\ UNCHANGED <<rest, flushed, envVars, attempts, data, faults>>

\* handle_heartbeat_timer after the window, strict.
HeartbeatTimeout ==
  /\ HeartbeatDue
  /\ ctl.awaiting_heartbeat_ack /\ window_over /\ ctl.strict_heartbeat
  /\ ctl' = Reset(Popped)
  /\ CutOff
  /\ UNCHANGED <<rest, envVars, attempts, data, faults>>

\* Mutant of HeartbeatNext: the counter is wider than its field in the packet.
HeartbeatNextWide ==
  /\ HeartbeatDue
  /\ ctl.awaiting_heartbeat_ack => window_over /\ ~ctl.strict_heartbeat
  /\ LET n == ctl.heartbeat_count IN
       ctl' = Post([Popped EXCEPT !.heartbeat_count = n + 1,
                                  !.last_heartbeat_tx_count = n,
                                  !.awaiting_heartbeat_ack = TRUE],
                   Send(Heartbeat(n)))
  /\ window_over' = FALSE
  /\ UNCHANGED <<rest, line, flushed, shutting_down, racers, attempts, data, faults>>

\* handle_heartbeat_timer with nothing awaited, or given up.
HeartbeatNext ==
  /\ HeartbeatDue
  /\ ctl.awaiting_heartbeat_ack => window_over /\ ~ctl.strict_heartbeat
  /\ LET n == ctl.heartbeat_count IN
       ctl' = Post([Popped EXCEPT !.heartbeat_count = (n + 1) % HeartbeatValues,
                                  !.last_heartbeat_tx_count = n,
                                  !.awaiting_heartbeat_ack = TRUE],
                   Send(Heartbeat(n)))
  /\ window_over' = FALSE
  /\ UNCHANGED <<rest, line, flushed, shutting_down, racers, attempts, data, faults>>

\* The task of async_send.
RunSend(throws) ==
  /\ Next_is("send")
  /\ Throws(throws)
  /\ ctl' = SendImpl(Popped, Head(ctl.strand).frame, throws)
  /\ CutOff
  /\ UNCHANGED <<rest, envVars, attempts, data>>

\* Mutant of RunDestroy: nobody waits for the handlers.
RunDestroyAtOnce ==
  /\ Next_is("destroy")
  /\ ctl' = [Reset(Popped) EXCEPT !.drain = "done"]
  /\ CutOff
  /\ UNCHANGED <<rest, envVars, attempts, data, faults>>

\* The destructor's lambda.
RunDestroy ==
  /\ Next_is("destroy")
  /\ LET r == Reset(Popped) IN
       ctl' = [r EXCEPT !.drain = IF r.pending_serial_ops = 0 THEN "done"
                                                              ELSE "waiting"]
  /\ CutOff
  /\ UNCHANGED <<rest, envVars, attempts, data, faults>>

\* The posted drain callback.
RunDrained ==
  /\ Next_is("drained")
  /\ ctl' = [Popped EXCEPT !.drain = "done"]
  /\ UNCHANGED <<rest, flushed, envVars, attempts, data, faults>>

-----------------------------------------------------------------------------
(* Reliable sends.  ReliableSender calls async_send_impl from a posted     *)
(* send, from a retry timer (here) or from an ACK (below).                 *)

\* Once clear_all has run there is nothing to send, unless a reliable_send
\* that lost the race against the destructor has filled the sender again.
MaySend == ctl.drain = "none" \/ (MaxRacers > 0 /\ "reliable" \in LateTasks)

ReliableAttempt(throws) ==
  /\ StrandFree
  /\ MaySend /\ attempts < MaxAttempts
  /\ Throws(throws)
  /\ attempts' = attempts + 1
  /\ ctl' = SendImpl(ctl, Reliable(attempts + 1), throws)
  /\ CutOff
  /\ UNCHANGED <<rest, envVars, data>>

-----------------------------------------------------------------------------
(* I/O handlers.                                                           *)

\* c after a packet of the chunk: the next part of it goes into the ring, or
\* handle_receive starts the next read.
Continue(c, left, throws) ==
  IF c.ring # <<>>
  THEN ctl' = c /\ rest' = left
  ELSE IF left # <<>>
       THEN ctl' = [c EXCEPT !.ring = Fits(left)] /\ rest' = Spills(left)
       ELSE ctl' = StartReceive(c, throws) /\ rest' = <<>>

\* handle_receive of a current read that returned n packets.
ReadDone(n, throws) ==
  /\ StrandFree
  /\ ctl.reading
  /\ n <= Len(line)
  /\ throws => n = 0
  /\ Throws(throws)
  /\ line' = SubSeq(line, n + 1, Len(line))
  /\ Continue([CompleteOp(ctl) EXCEPT !.reading = FALSE],
              SubSeq(line, 1, n), throws)
  /\ CutOff
  /\ UNCHANGED <<window_over, shutting_down, racers, attempts, data>>

\* One packet of the chunk is parsed and handled.
ParsePacket(throws) ==
  /\ ctl.ring # <<>> /\ Head(ctl.ring).id # "ack"
  /\ Throws(throws)
  /\ Continue(HandlePacket([ctl EXCEPT !.ring = Tail(@)], Head(ctl.ring)),
              rest, throws)
  /\ CutOff
  /\ UNCHANGED <<envVars, attempts, data>>

\* An ACK: on_ack_received may send the next message of the id (more).
ParseAck(more, sendThrows, throws) ==
  /\ ctl.ring # <<>> /\ Head(ctl.ring).id = "ack"
  /\ more => MaySend /\ attempts < MaxAttempts
  /\ Throws(sendThrows \/ throws)
  /\ attempts' = attempts + One(more)
  /\ LET c == [ctl EXCEPT !.ring = Tail(@)] IN
       Continue(IF more THEN SendImpl(c, Reliable(attempts + 1), sendThrows) ELSE c,
                rest, throws)
  /\ CutOff
  /\ UNCHANGED <<envVars, data>>

\* handle_receive with an error.
ReadFails ==
  /\ StrandFree
  /\ ctl.reading
  /\ Fault(TRUE)
  /\ ctl' = Reset([CompleteOp(ctl) EXCEPT !.reading = FALSE])
  /\ CutOff
  /\ UNCHANGED <<rest, envVars, attempts, data>>

\* handle_write of the current write, with or without an error.
WriteOver ==
  Complete([CompleteOp(ctl) EXCEPT !.writing = FALSE,
                                   !.tx_write_in_progress = FALSE,
                                   !.tx_queue = Tail(@)],
           <<Head(ctl.tx_queue)>>)

WriteDone(throws) ==
  /\ StrandFree
  /\ ctl.writing /\ flushed
  /\ Throws(throws)
  /\ ctl' = StartNextWrite(WriteOver, throws)
  /\ flushed' = FALSE
  /\ UNCHANGED <<rest, envVars, attempts, data>>

\* Mutant of WriteFails: the frame is completed but left in the queue.
WriteFailsTwice ==
  /\ StrandFree
  /\ ctl.writing
  /\ Fault(TRUE)
  /\ ctl' = Reset([WriteOver EXCEPT !.tx_queue = ctl.tx_queue])
  /\ flushed' = FALSE
  /\ UNCHANGED <<rest, envVars, attempts, data>>

WriteFails ==
  /\ StrandFree
  /\ ctl.writing
  /\ Fault(TRUE)
  /\ ctl' = Reset(WriteOver)
  /\ flushed' = FALSE
  /\ UNCHANGED <<rest, envVars, attempts, data>>

\* The handler of a read or write of an older generation.
StaleDone ==
  /\ StrandFree
  /\ ctl.stale_ops > 0
  /\ ctl' = [CompleteOp(ctl) EXCEPT !.stale_ops = @ - 1]
  /\ UNCHANGED <<rest, flushed, envVars, attempts, data, faults>>

-----------------------------------------------------------------------------
(* The line and the MCU, which answers every frame but the best-effort.    *)

Reply(f) ==
  CASE f.id = "handshake" -> <<[id |-> "handshake", count |-> 0]>>
    [] f.id = "heartbeat" -> <<[id |-> "heartbeat", count |-> f.count]>>
    [] f.id = "reliable"  -> <<[id |-> "ack", count |-> 0]>>
    [] OTHER -> <<>>

Flush ==
  /\ ctl.writing /\ ~flushed
  /\ Len(line) < MaxLine
  /\ flushed' = TRUE
  /\ line' = line \o Reply(Head(ctl.tx_queue))
  /\ UNCHANGED <<ctl, rest, window_over, shutting_down, racers,
                 attempts, data, faults>>

LoseReply ==
  /\ line # <<>>
  /\ Fault(TRUE)
  /\ line' = Tail(line)
  /\ UNCHANGED <<ctl, rest, flushed, window_over, shutting_down, racers,
                 attempts, data>>

\* The heartbeat awaited, or the answer to it, is still on its way.
HeartbeatTravels ==
  \/ \E i \in 1 .. Len(ctl.strand) : ctl.strand[i].frame.id = "heartbeat"
  \/ \E i \in 1 .. Len(ctl.tx_queue) : ctl.tx_queue[i].id = "heartbeat"
  \/ \E i \in 1 .. Len(line) : line[i].id = "heartbeat"
  \/ \E i \in 1 .. Len(ctl.ring) : ctl.ring[i].id = "heartbeat"
  \/ \E i \in 1 .. Len(rest) : rest[i].id = "heartbeat"

\* The timeout passes: the answer is late, or nothing is left to wait for.
WindowPasses ==
  /\ ctl.awaiting_heartbeat_ack /\ ~window_over
  /\ Fault(HeartbeatTravels)
  /\ window_over' = TRUE
  /\ UNCHANGED <<ctl, rest, line, flushed, shutting_down, racers, attempts, data>>

-----------------------------------------------------------------------------
Next ==
  \/ TimerTick("check")
  \/ TimerTick("heartbeat")
  \/ SendData
  \/ Shutdown
  \/ \E what \in {"check", "heartbeat", "send"} : LatePost(what)
  \/ CheckConnected
  \/ OpenFails
  \/ \E throws \in BOOLEAN : OpenSucceeds(throws)
  \/ HeartbeatWaiting
  \/ HeartbeatRetry
  \/ HeartbeatTimeout
  \/ HeartbeatNext
  \/ \E throws \in BOOLEAN : RunSend(throws)
  \/ RunDestroy
  \/ RunDrained
  \/ \E throws \in BOOLEAN : ReliableAttempt(throws)
  \/ \E n \in 0 .. ChunkPackets, throws \in BOOLEAN : ReadDone(n, throws)
  \/ \E throws \in BOOLEAN : ParsePacket(throws)
  \/ \E more, sendThrows, throws \in BOOLEAN : ParseAck(more, sendThrows, throws)
  \/ ReadFails
  \/ \E throws \in BOOLEAN : WriteDone(throws)
  \/ WriteFails
  \/ StaleDone
  \/ Flush
  \/ LoseReply
  \/ WindowPasses

Spec == Init /\ [][Next]_vars

-----------------------------------------------------------------------------
(* Fairness.  The timers tick for ever, the strand runs its tasks in the   *)
(* order of posting (so none is overtaken for ever), the operating system  *)
(* completes every operation, the port can be opened once faults are over, *)
(* and the MCU answers.  No fault is ever forced.                          *)

RunTask ==
  \/ CheckConnected
  \/ OpenSucceeds(FALSE)
  \/ HeartbeatWaiting
  \/ HeartbeatRetry
  \/ HeartbeatTimeout
  \/ HeartbeatNext
  \/ RunSend(FALSE)
  \/ RunDestroy
  \/ RunDrained

Fairness ==
  /\ SF_vars(TimerTick("check"))
  /\ SF_vars(TimerTick("heartbeat"))
  /\ SF_vars(RunTask)
  /\ WF_vars(\E n \in 1 .. ChunkPackets : ReadDone(n, FALSE))
  /\ WF_vars(ParsePacket(FALSE) \/ ParseAck(FALSE, FALSE, FALSE))
  /\ WF_vars(WriteDone(FALSE))
  /\ WF_vars(StaleDone)
  /\ WF_vars(Flush)

FairSpec == Spec /\ Fairness

-----------------------------------------------------------------------------
(* Properties                                                              *)

\* The members of the controller.
Ctl ==
  [is_connected : BOOLEAN,
   strict_heartbeat : HeartbeatModes,
   state : {"WAITING_HANDSHAKE", "RUNNING"},
   ready_state : BOOLEAN,
   tx_queue : Seq(Frame),
   tx_write_in_progress : BOOLEAN,
   pending_serial_ops : Nat,
   shutdown_requested : BOOLEAN,
   heartbeat_count : Counts,
   last_heartbeat_tx_count : Counts,
   awaiting_heartbeat_ack : BOOLEAN,
   ring : Seq(Packet),
   drain : {"none", "waiting", "posted", "done"},
   strand : Seq(Task),
   reading : BOOLEAN,
   writing : BOOLEAN,
   stale_ops : Nat,
   called : [1 .. MaxAttempts -> Nat]]

TypeOK ==
  /\ ctl \in Ctl
  /\ rest \in Seq(Packet)
  /\ line \in Seq(Packet)
  /\ flushed \in BOOLEAN
  /\ window_over \in BOOLEAN
  /\ shutting_down \in BOOLEAN
  /\ racers \in 0 .. MaxRacers
  /\ attempts \in 0 .. MaxAttempts
  /\ data \in Nat
  /\ faults \in Nat

\* pending_serial_ops_ counts exactly the operations whose handlers have yet
\* to run, of whatever generation, so the destructor neither waits for ever
\* nor lets go of an object that a handler still holds.
OpsAccounted ==
  ctl.pending_serial_ops = ctl.stale_ops + One(ctl.reading) + One(ctl.writing)

\* A connection is never left deaf or with a queue that nobody empties,
\* whichever of resets, errors and throwing starts hit it: it always has a
\* read in flight or in its handler, and a queued frame has a write.
NeverStalls ==
  /\ ctl.is_connected => ctl.reading \/ Handling
  /\ ctl.tx_queue # <<>> => ctl.writing
  /\ ctl.reading \/ ctl.writing => ctl.is_connected
  /\ ctl.tx_write_in_progress = ctl.writing

\* No frame but the probe enters the queue of a connection before its
\* handshake: neither one posted, nor a retry, nor one left over from the
\* connection before.
HandshakeFirst ==
  ctl.state = "WAITING_HANDSHAKE" =>
    \A i \in 1 .. Len(ctl.tx_queue) : ctl.tx_queue[i].id = "handshake"

\* What ReliableSender relies on: the completion of each send is called
\* exactly once, and not before its frame has left the queue, however the
\* send ends.
CompletedOnce ==
  \A a \in 1 .. MaxAttempts :
    ctl.called[a] =
      One(a <= attempts /\ \A i \in 1 .. Len(ctl.tx_queue) :
                             ctl.tx_queue[i].attempt # a)

\* README.md on the topic auto_serial_bridge/ready: true once the port is
\* open and the handshake done, false otherwise.
ReadyIsLinked ==
  ctl.ready_state = (ctl.is_connected /\ ctl.state = "RUNNING")

\* Once the destructor returns, no handler and no task that captured `this'
\* is left.
DrainedIsQuiet ==
  Destroyed => /\ ctl.stale_ops = 0 /\ ~ctl.reading /\ ~ctl.writing
               /\ ctl.strand = <<>>

\* The link comes up and stays up once faults are over and heartbeats are
\* answered in time, in either mode of the heartbeat.
StaysReady == <>[]ctl.ready_state \/ <>shutting_down

\* The destructor returns.
Drains == shutting_down ~> Destroyed

=============================================================================
