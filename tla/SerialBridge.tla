---------------------------- MODULE SerialBridge ----------------------------
(***************************************************************************)
(* The SerialController together with the ReliableSender it owns: the node *)
(* as it runs.  ReliableSender writes through async_send_impl, and hears   *)
(* of the end of a write from handle_write, from reset_serial or, when the *)
(* frame is refused, before async_send_impl returns; ACKs reach it from    *)
(* handle_packet, its retry timers run on the same strand, and its queues  *)
(* are emptied by the first reset after shutdown has begun.                *)
(*                                                                         *)
(* Both parts keep their own modules.  The steps of the controller are     *)
(* those of SerialController; each is given here what it tells the sender. *)
(* What the sender does to an entry is taken from ReliableSender.  The way *)
(* to the MCU is folded into Flush: a reliable frame is delivered when its *)
(* bytes leave (or is lost), and its ACK travels on `line' with the other  *)
(* packets.                                                                *)
(***************************************************************************)
EXTENDS SerialController

CONSTANTS
  Ids,            \* packet ids declared reliable in the protocol
  MaxSend,        \* bound: how many messages of each id are submitted
  SeqValues,      \* 2^8 in the code: seq_counter_ is a uint8_t
  GenValues,      \* 2^64 in the code: send_generation is a uint64_t
  WarnThreshold,  \* config::RELIABLE_MAX_RETRIES
  MaxTimeouts     \* bound: retry handlers waiting for the strand

ASSUME BridgeAssumption ==
  /\ MaxSend \in [Ids -> Nat] /\ MaxTimeouts \in Nat
  /\ {SeqValues, GenValues, WarnThreshold} \subseteq Nat \ {0}

VARIABLES
  pending,      \* pending_ of the sender: per id, the deque of PendingEntry
  seq_counter,  \* seq_counter_
  timeouts,     \* retry timers that have fired and wait for the strand
  last,         \* MCU: number of the last message passed to on_receive_
  sent,         \* history: messages submitted to reliable_send
  popped        \* history: messages removed after their ACK

historyVars == <<last, sent, popped>>
senderVars == <<pending, seq_counter, timeouts, historyVars>>
bridgeVars == <<vars, senderVars>>

\* The reliable frame and the task that first sends it, for message m of id k.
ReliableFrame(w) ==
  [id |-> "reliable", count |-> 0, attempt |-> 0, write |-> w]
ReliableTask(k, m) ==
  [do |-> "reliable", frame |-> Handshake, key |-> k, msg |-> m]
AckPacket(w) == [id |-> "ack", count |-> 0, key |-> w.id, seq |-> w.seq]

IsReliable(f) == f.id = "reliable"
IsAck(p) == p.id = "ack"

\* The sender's view of the transmit queue and of the ACKs on their way.
WithWrite(ws, f) == IF IsReliable(f) THEN Append(ws, f.write) ELSE ws
Writes(txq) == FoldLeft(WithWrite, <<>>, txq)

WithAck(as, p) ==
  IF IsAck(p) THEN Append(as, [id |-> p.key, seq |-> p.seq]) ELSE as
AcksUnderway == FoldLeft(WithAck, <<>>, ctl.ring \o rest \o line)

Sender == INSTANCE ReliableSender WITH
  MaxPending <- 0, ChannelCap <- MaxLine, TimerOutlastsRoundTrip <- SlowTimers,
  tx_queue <- Writes(ctl.tx_queue), front_out <- flushed,
  link_up <- ctl.is_connected, closed <- shutting_down,
  wire <- <<>>, acks <- AcksUnderway, reused <- FALSE

Promise == INSTANCE AtLeastOnceFifo WITH
  submitted <- sent, delivered <- last, completed <- popped,
  stopped <- shutting_down

-----------------------------------------------------------------------------
(* What the sender is told.                                                *)

\* Queue q after handle_send_completion for write w.
Told(q, w, ok) ==
  IF Sender!IsCurrent(w, q)
  THEN Sender!WithFront(q, Sender!Completed(q[1], ok))
  ELSE q

\* Queues p after completion(false) of frame f, and of every frame in txq.
WithFailed(p, f) ==
  IF IsReliable(f)
  THEN [p EXCEPT ![f.write.id] = Told(@, f.write, FALSE)]
  ELSE p
AllFailed(p, txq) == FoldLeft(WithFailed, p, txq)

Cleared == [k \in Ids |-> <<>>]

\* Mutant of AfterReset: reset_serial leaves the sender alone.
AfterResetUncleared(p, txq) == AllFailed(p, txq)

\* Mutant of AfterReset: every reset drops what the sender holds.
AfterResetForgetful(p, txq) == Cleared

\* Mutant of AfterReset: the sender is not told of the frames dropped.
AfterResetSilent(p, txq) == IF shutting_down THEN Cleared ELSE p

\* reset_serial: once shutdown has begun clear_all, then the completions.
AfterReset(p, txq) == AllFailed(IF shutting_down THEN Cleared ELSE p, txq)

\* Queues p, with the frames txq queued, after a step of the controller that
\* may have closed the port.
Survivors(p, txq) ==
  IF ctl.is_connected /\ ~ctl'.is_connected THEN AfterReset(p, txq) ELSE p

-----------------------------------------------------------------------------
(* attempt_send for the queue of id k in p, with the controller in state c. *)

\* Both after it.
Attempt(c, p, k, throws) ==
  LET e == Sender!Launched(p[k][1])
      f == ReliableFrame(Sender!WriteOf(k, e))
      launched == [p EXCEPT ![k] = Sender!WithFront(@, e)]
      c1 == SendImpl(c, f, throws)
  IN  IF ~Sender!CanAttempt(p[k]) THEN [ctl |-> c, pending |-> p]
      ELSE [ctl |-> c1,
            pending |->
              IF ~Admits(c, f)
              THEN [launched EXCEPT ![k] = Sender!WithFront(@, Sender!Completed(e, FALSE))]
              ELSE IF c1.is_connected THEN launched
                   ELSE AfterReset(launched, Append(c.tx_queue, f))]

\* seq_counter_ after it.
Number(q) ==
  seq_counter' = IF Sender!CanAttempt(q) /\ ~q[1].seq_assigned
                 THEN (seq_counter + 1) % SeqValues
                 ELSE seq_counter

-----------------------------------------------------------------------------
BridgeInit ==
  /\ Init
  /\ pending = Cleared
  /\ seq_counter = 0
  /\ timeouts = {}
  /\ last = [k \in Ids |-> 0]
  /\ sent = [k \in Ids |-> 0]
  /\ popped = [k \in Ids |-> 0]

\* reliable_send, on any thread.
SendReliable(k) ==
  /\ sent[k] < MaxSend[k]
  /\ sent' = [sent EXCEPT ![k] = @ + 1]
  /\ PostTask(ReliableTask(k, sent[k] + 1))
  /\ UNCHANGED <<rest, flushed, envVars, attempts, data, faults,
                 pending, seq_counter, timeouts, last, popped>>

\* Its task: ReliableSender::send.
RunReliable(throws) ==
  /\ Next_is("reliable")
  /\ Throws(throws)
  /\ LET k == Head(ctl.strand).key
         q == Append(pending[k], Sender!NewEntry(Head(ctl.strand).msg))
         p == [pending EXCEPT ![k] = q]
         r == IF Len(q) = 1 THEN Attempt(Popped, p, k, throws)
                            ELSE [ctl |-> Popped, pending |-> p]
     IN  /\ ctl' = r.ctl
         /\ pending' = r.pending
         /\ IF Len(q) = 1 THEN Number(q) ELSE UNCHANGED seq_counter
  /\ CutOff
  /\ UNCHANGED <<rest, envVars, attempts, data, timeouts, historyVars>>

\* A retry timer fires.
RetryExpires(k) ==
  /\ ~Destroyed
  /\ pending[k] # <<>>
  /\ Cardinality(timeouts) < MaxTimeouts
  /\ LET e == pending[k][1] IN
       /\ e.timer_armed
       /\ SlowTimers => ~Sender!CopyInFlight(k, e.expected_seq, AcksUnderway)
       /\ timeouts' = timeouts \cup {<<k, e.expected_seq>>}
       /\ pending' = [pending EXCEPT ![k] = Sender!WithFront(@, Sender!Fired(e))]
  /\ UNCHANGED <<vars, seq_counter, historyVars>>

\* handle_retry_timeout
RunRetry(k, s, throws) ==
  /\ StrandFree
  /\ <<k, s>> \in timeouts
  /\ timeouts' = timeouts \ {<<k, s>>}
  /\ Throws(throws)
  /\ IF pending[k] # <<>> /\ pending[k][1].expected_seq = s
     THEN LET q == Sender!WithFront(pending[k], Sender!TimedOut(pending[k][1]))
              r == Attempt(ctl, [pending EXCEPT ![k] = q], k, throws)
          IN  ctl' = r.ctl /\ pending' = r.pending /\ Number(q)
     ELSE UNCHANGED <<ctl, pending, seq_counter>>
  /\ CutOff
  /\ UNCHANGED <<rest, envVars, attempts, data, historyVars>>

\* handle_packet for an ACK: on_ack_received, in whatever state the
\* controller is.
ParseReliableAck(sendThrows, throws) ==
  /\ ctl.ring # <<>> /\ IsAck(Head(ctl.ring))
  /\ Throws(sendThrows \/ throws)
  /\ LET a == Head(ctl.ring)
         c == [ctl EXCEPT !.ring = Tail(@)]
         q == Tail(pending[a.key])
         done == Sender!Accepts(a, pending[a.key])
         r == IF done THEN Attempt(c, [pending EXCEPT ![a.key] = q], a.key, sendThrows)
                      ELSE [ctl |-> c, pending |-> pending]
     IN  /\ popped' = IF done THEN [popped EXCEPT ![a.key] = @ + 1] ELSE popped
         /\ IF done THEN Number(q) ELSE UNCHANGED seq_counter
         /\ Continue(r.ctl, rest, throws)
         /\ pending' = IF r.ctl.is_connected /\ ~ctl'.is_connected
                       THEN AfterReset(r.pending, r.ctl.tx_queue)
                       ELSE r.pending
  /\ CutOff
  /\ UNCHANGED <<envVars, data, attempts, timeouts, last, sent>>

\* handle_write without error: completion(true) of the frame, if it has one.
BridgeWriteDone(throws) ==
  /\ WriteDone(throws)
  /\ LET f == Head(ctl.tx_queue)
         p == IF IsReliable(f)
              THEN [pending EXCEPT ![f.write.id] = Told(@, f.write, TRUE)]
              ELSE pending
     IN  pending' = Survivors(p, Tail(ctl.tx_queue))
  /\ UNCHANGED <<seq_counter, timeouts, historyVars>>

\* Step A of the controller, of which the sender hears nothing;
Silently(A) == A /\ UNCHANGED senderVars

\* which resets the port (WriteFails after it has told the sender of the frame
\* in front, to the same effect);
Resetting(A) ==
  /\ A
  /\ pending' = AfterReset(pending, ctl.tx_queue)
  /\ UNCHANGED <<seq_counter, timeouts, historyVars>>

\* or which resets it only when starting a read or a write throws.
Starting(A) ==
  /\ A
  /\ pending' = Survivors(pending, ctl.tx_queue)
  /\ UNCHANGED <<seq_counter, timeouts, historyVars>>

\* The bytes of the first frame leave: a reliable one is delivered and
\* acknowledged, the others are answered as in SerialController.
BridgeFlush ==
  IF ctl.writing /\ IsReliable(Head(ctl.tx_queue))
  THEN LET w == Head(ctl.tx_queue).write IN
         /\ ~flushed /\ Len(line) < MaxLine
         /\ flushed' = TRUE
         /\ last' = [last EXCEPT ![w.id] = w.msg]
         /\ line' = Append(line, AckPacket(w))
         /\ UNCHANGED <<ctl, rest, window_over, shutting_down, racers, attempts,
                        data, faults, pending, seq_counter, timeouts, sent, popped>>
  ELSE Flush /\ UNCHANGED senderVars

\* The first frame is lost on its way to the MCU.
LoseFrame ==
  /\ ctl.writing /\ ~flushed
  /\ Fault(TRUE)
  /\ flushed' = TRUE
  /\ UNCHANGED <<ctl, rest, line, window_over, shutting_down, racers, attempts,
                 data, senderVars>>

BridgeNext ==
  \/ \E k \in Ids : SendReliable(k)
  \/ \E throws \in BOOLEAN : RunReliable(throws)
  \/ \E k \in Ids : RetryExpires(k)
  \/ \E k \in Ids, s \in 0 .. SeqValues - 1, throws \in BOOLEAN : RunRetry(k, s, throws)
  \/ \E sendThrows, throws \in BOOLEAN : ParseReliableAck(sendThrows, throws)
  \/ \E throws \in BOOLEAN : BridgeWriteDone(throws)
  \/ Silently(TimerTick("check"))
  \/ Silently(TimerTick("heartbeat"))
  \/ Silently(SendData)
  \/ Silently(Shutdown)
  \/ Silently(CheckConnected)
  \/ Silently(HeartbeatWaiting)
  \/ Silently(HeartbeatRetry)
  \/ Silently(HeartbeatNext)
  \/ Silently(RunDrained)
  \/ Silently(StaleDone)
  \/ Silently(LoseReply)
  \/ Silently(WindowPasses)
  \/ Resetting(OpenFails)
  \/ \E throws \in BOOLEAN : Resetting(OpenSucceeds(throws))
  \/ Resetting(HeartbeatTimeout)
  \/ Resetting(RunDestroy)
  \/ Resetting(ReadFails)
  \/ Resetting(WriteFails)
  \/ \E throws \in BOOLEAN : Starting(RunSend(throws))
  \/ \E n \in 0 .. ChunkPackets, throws \in BOOLEAN : Starting(ReadDone(n, throws))
  \/ \E throws \in BOOLEAN : Starting(ParsePacket(throws))
  \/ BridgeFlush
  \/ LoseFrame

BridgeSpec == BridgeInit /\ [][BridgeNext]_bridgeVars

-----------------------------------------------------------------------------
(* Fairness: that of both components.  A write completes when its last     *)
(* byte is in the driver's buffer, so its handler cannot for ever come     *)
(* after the ACK of the frame has been handled.                            *)

BridgeTask ==
  \/ Silently(CheckConnected)
  \/ Silently(HeartbeatWaiting)
  \/ Silently(HeartbeatRetry)
  \/ Silently(HeartbeatNext)
  \/ Silently(RunDrained)
  \/ Resetting(OpenSucceeds(FALSE))
  \/ Resetting(HeartbeatTimeout)
  \/ Resetting(RunDestroy)
  \/ Starting(RunSend(FALSE))
  \/ RunReliable(FALSE)

WriteDoneFirst(k) ==
  /\ BridgeWriteDone(FALSE)
  /\ LET f == Head(ctl.tx_queue) IN
       IsReliable(f) /\ f.write.id = k /\ Sender!CopyInFlight(k, f.write.seq, AcksUnderway)

BridgeFairness ==
  /\ SF_bridgeVars(Silently(TimerTick("check")))
  /\ SF_bridgeVars(Silently(TimerTick("heartbeat")))
  /\ SF_bridgeVars(BridgeTask)
  /\ WF_bridgeVars(\E n \in 1 .. ChunkPackets : Starting(ReadDone(n, FALSE)))
  /\ WF_bridgeVars(Starting(ParsePacket(FALSE)) \/ ParseReliableAck(FALSE, FALSE))
  /\ WF_bridgeVars(BridgeWriteDone(FALSE))
  /\ WF_bridgeVars(Silently(StaleDone))
  /\ WF_bridgeVars(BridgeFlush)
  /\ \A k \in Ids :
       /\ WF_bridgeVars(RetryExpires(k))
       /\ SF_bridgeVars(\E s \in 0 .. SeqValues - 1 : RunRetry(k, s, FALSE))
       /\ SF_bridgeVars(WriteDoneFirst(k))

FairBridge == BridgeSpec /\ BridgeFairness

-----------------------------------------------------------------------------
(* Properties                                                              *)

\* What the sender relies on survives the composition: every queued reliable
\* write is the latest attempt of the message at the front of its queue, and
\* a message at a front has such a write, or a retry to come, whichever way
\* the controller ends, refuses or loses it.
SenderIsServed == Sender!NeverStranded /\ Sender!OneCurrentWrite

\* Until shutdown begins, the node implements the abstract FIFO: messages are
\* delivered in the order in which reliable_send was called, each before it
\* is completed, through resets, handshakes and a transmit queue shared with
\* heartbeats.
KeepsPromise == Promise!Init /\ [][~shutting_down => Promise!Next]_(Promise!vars)

\* Once the destructor's lambda has run, the sender holds no message and so
\* arms no timer: a send still queued before it, or a write that fails after
\* shutdown has begun, leaves nothing behind.
ClearedByDestroy == ctl.drain # "none" => pending = Cleared

\* A message that reliable_send took is acknowledged in the end, wherever
\* faults, the handshake and the heartbeat leave the connection, unless the
\* node shuts down.
EventuallyAcked ==
  \A k \in Ids : \A n \in 1 .. MaxSend[k] :
    (sent[k] >= n) ~> (shutting_down \/ popped[k] >= n)

=============================================================================
